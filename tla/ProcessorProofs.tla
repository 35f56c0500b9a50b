--------------------------- MODULE ProcessorProofs ---------------------------
(***************************************************************************)
(* The safety of the warming loop, for every list of references, registry  *)
(* map, set of manifests and number of tag moves.  The argument goes in    *)
(* layers, each an induction over the steps that uses the layers before    *)
(* it: what is in hand has its type, the counters add up, the ledger       *)
(* follows the position in the list, Zot, whose contents only grow, holds  *)
(* what the ledger says it does, no image is fetched twice, and the error  *)
(* counters follow the verdicts.  On all of them rests the refinement of   *)
(* WarmPass at the end.                                                    *)
(***************************************************************************)
EXTENDS Processor, TLAPS

-----------------------------------------------------------------------------
(* References.                                                              *)

\* A routed reference names a repository and a tag or digest the model knows;
\* it is asked for by digest exactly when the image was pinned by digest only.
LEMMA RoutedRef ==
    ASSUME NEW raw \in Routed
    PROVE  LET ref == ZotRef(Parse(raw)) IN
           /\ ref \in Refs
           /\ ref.repo \in Repositories
           /\ ref.digest \in Digests \cup {None}
           /\ ref.digest = None <=> ~Parse(raw).isDigestOnly
           /\ ref.digest = None => ref \in TagRefs
<1> DEFINE ref == ZotRef(Parse(raw))
<1>1. raw \in RawImages /\ raw.digest \in Digests \cup {None}
  BY DigestAssumption DEF Routed
<1>2. ref \in Refs
  BY DEF Refs
<1>3. ref.repo \in Repositories
  BY <1>2 DEF Repositories
<1>4. /\ Parse(raw).digest = raw.digest
      /\ Parse(raw).isDigestOnly <=> TagOf(raw) = None
  BY DEF Parse
<1>5. ref.digest = IF Parse(raw).isDigestOnly THEN raw.digest ELSE None
  BY <1>4 DEF ZotRef
<1>6. Parse(raw).isDigestOnly => raw.digest # None
  BY <1>4, NoneAssumption DEF TagOf
<1>7. ref.digest = None <=> ~Parse(raw).isDigestOnly
  BY <1>5, <1>6
<1> QED
  BY <1>1, <1>2, <1>3, <1>5, <1>7 DEF TagRefs

\* A manifest of an index is a sequence of digests.
LEMMA ChildDigest ==
    ASSUME NEW d \in Indexes
    PROVE  /\ d \in Digests
           /\ Len(Manifests[d]) \in Nat
           /\ \A k \in 1..Len(Manifests[d]) : Manifests[d][k] \in Digests
BY DigestAssumption

-----------------------------------------------------------------------------
(* Zot.                                                                     *)

\* Zot's contents only grow.
Grows ==
    /\ stored \subseteq stored'
    /\ \A ref \in TagRefs : tagged[ref] # None => tagged'[ref] # None

\* Storing a manifest takes nothing away and adds only what Zot can store.
LEMMA StoreGrows ==
    ASSUME ZotTypeOK, NEW ref \in Refs, NEW d \in Digests, Store(ref, d),
           UNCHANGED <<access, upstream, moves>>
    PROVE  ZotTypeOK' /\ Grows
<1>1. <<ref.repo, d>> \in Repositories \X Digests
  BY DEF Repositories
<1>2. stored' \subseteq Repositories \X Digests /\ stored \subseteq stored'
  BY <1>1 DEF Store, ZotTypeOK
<1>3. ref.digest = None => ref \in TagRefs
  BY DEF TagRefs
<1>4. tagged' \in [TagRefs -> Digests \cup {None}]
  BY <1>3 DEF Store, ZotTypeOK
<1>5. \A r \in TagRefs : tagged[r] # None => tagged'[r] # None
  BY <1>3, DigestAssumption DEF Store, ZotTypeOK
<1> QED
  BY <1>2, <1>4, <1>5 DEF ZotTypeOK, Grows

\* What a GET is answered with is a manifest, if there is one.
LEMMA ServedDigest ==
    ASSUME ZotTypeOK, NEW raw \in Routed
    PROVE  Served(ZotRef(Parse(raw))) \in Digests \cup {None}
BY RoutedRef DEF Served, ZotTypeOK

\* A pull takes nothing from Zot and keeps its variables typed.
LEMMA FetchGrows ==
    ASSUME ZotTypeOK, NEW raw \in Routed, Fetch(ZotRef(Parse(raw)))
    PROVE  /\ ZotTypeOK' /\ Grows
           /\ Served(ZotRef(Parse(raw))) \in Digests
           /\ <<ZotRef(Parse(raw)).repo, Served(ZotRef(Parse(raw)))>> \in stored'
<1>1. Served(ZotRef(Parse(raw))) \in Digests
  BY ServedDigest DEF Fetch
<1>2. ZotRef(Parse(raw)) \in Refs
  BY RoutedRef
<1> QED
  BY <1>1, <1>2, StoreGrows DEF Fetch, Store

\* The same for a pull by digest.
LEMMA FetchDigestGrows ==
    ASSUME ZotTypeOK, NEW repo \in Repositories, NEW d \in Digests,
           FetchDigest(repo, d)
    PROVE  ZotTypeOK' /\ Grows /\ <<repo, d>> \in stored'
BY DEF FetchDigest, ZotTypeOK, Grows

\* So does whatever Zot, the other clients and upstream do on their own.
LEMMA ZotNextGrows ==
    ASSUME ZotTypeOK, ZotNext
    PROVE  ZotTypeOK' /\ Grows
<1>1. ASSUME NEW ref \in Refs, PullThrough(ref)
      PROVE  ZotTypeOK' /\ Grows
  <2> DEFINE d == IF ref.digest = None THEN upstream[ref] ELSE ref.digest
  <2>1. PICK raw \in Routed : ref = ZotRef(Parse(raw))
    BY DEF Refs
  <2>2. d \in Digests \cup {None}
    BY <2>1, RoutedRef DEF ZotTypeOK
  <2>3. d \in Digests /\ Store(ref, d) /\ UNCHANGED <<access, upstream, moves>>
    BY <1>1, <2>2 DEF PullThrough
  <2> QED
    BY <2>3, StoreGrows
<1>2. ASSUME NEW x \in stored, PullChild(x)
      PROVE  ZotTypeOK' /\ Grows
  <2>1. x[1] \in Repositories /\ x[2] \in Indexes
    BY <1>2 DEF PullChild, ZotTypeOK
  <2>2. PICK k \in 1..Len(Manifests[x[2]]) : FetchDigest(x[1], Manifests[x[2]][k])
    BY <1>2 DEF PullChild
  <2> QED
    BY <2>1, <2>2, ChildDigest, FetchDigestGrows
<1>3. ASSUME NEW ref \in TagRefs, NEW d \in UpstreamTags, MoveTag(ref, d)
      PROVE  ZotTypeOK' /\ Grows
  BY <1>3, DigestAssumption DEF MoveTag, ZotTypeOK, Grows
<1> QED
  BY <1>1, <1>2, <1>3 DEF ZotNext

\* A step that leaves Zot alone keeps it as it is.
LEMMA ZotUnchanged ==
    ASSUME ZotTypeOK, UNCHANGED zotVars
    PROVE  ZotTypeOK' /\ Grows
BY DEF zotVars, ZotTypeOK, Grows

-----------------------------------------------------------------------------
(* First layer: types, and the image in hand.                               *)

Busy == Working \/ pc = "sleep"

\* The image in hand is one of the list and, while a request is made for it,
\* one that has a place in Zot; only an index reached by tag has its children
\* warmed.
HandInv ==
    /\ Busy => next <= Len(images)
    /\ Working => images[next] \in Routed
    /\ pc = "children" => desc \in Indexes /\ RefOf(next).digest = None

Typed == TypeOK /\ HandInv

\* What the types say of the variables of the loop.
LoopTypeOK ==
    /\ images \in ImageLists
    /\ next \in 1..(Len(images) + 1)
    /\ pc \in Labels
    /\ desc \in Indexes \cup {None}
    /\ child \in Nat \ {0}
    /\ stats \in Stats
    /\ cancelledAt \in Nat
    /\ ledger \in [1..Len(images) -> Verdict]

\* The images of a run are raw references.
LEMMA ListType ==
    ASSUME images \in ImageLists
    PROVE  /\ Len(images) \in Nat
           /\ \A i \in 1..Len(images) : images[i] \in RawImages
BY ListAssumption

\* The first layer holds when a run begins.
LEMMA InitTyped == Init => Typed
<1> SUFFICES ASSUME Init PROVE Typed
  OBVIOUS
<1>1. PICK list \in ImageLists : StartRun(list)
  BY DEF Init
<1>2. Len(list) \in Nat
  BY ListAssumption
<1>3. NewStats(list) \in Stats
  BY <1>2 DEF NewStats, Stats, Counters
<1>4. NewLedger(list) \in [1..Len(list) -> Verdict]
  BY DEF NewLedger, Verdict, Kinds
<1>5. LoopTypeOK
  BY <1>1, <1>2, <1>3, <1>4 DEF StartRun, LoopTypeOK, Labels
<1>6. ZotTypeOK
  BY DigestAssumption DEF Init, ZotInit, ZotTypeOK
<1>7. HandInv
  BY <1>1 DEF StartRun, HandInv, Busy, Working
<1> QED
  BY <1>5, <1>6, <1>7 DEF Typed, TypeOK, LoopTypeOK

\* Filing the verdict on the image in hand keeps the ledger's type.
LEMMA SettleType ==
    ASSUME LoopTypeOK, next <= Len(images), NEW kind \in Kinds,
           NEW d \in Digests \cup {None}, Settle(kind, d)
    PROVE  ledger' \in [1..Len(images) -> Verdict]
<1>1. next \in 1..Len(images)
  BY ListType DEF LoopTypeOK
<1>2. [kind |-> kind, digest |-> d] \in Verdict
  BY DEF Verdict
<1> QED
  BY <1>1, <1>2 DEF LoopTypeOK, Settle

\* Each step of the program keeps the types of the loop, and asks Zot for
\* nothing but what Zot knows how to store.
LEMMA HeadTyped ==
    ASSUME Typed, LoopHead
    PROVE  LoopTypeOK' /\ HandInv' /\ UNCHANGED zotVars
<1> USE ListType DEF Typed, TypeOK, LoopTypeOK, HandInv, Labels, Stats
<1>1. CASE Finish
  BY <1>1 DEF Finish, Busy, Working
<1>2. CASE StopCancelled
  BY <1>2 DEF StopCancelled, Busy, Working
<1>3. CASE ParseFailure
  <2>1. ledger' \in [1..Len(images) -> Verdict]
    BY <1>3, SettleType DEF ParseFailure, TakesImage, Kinds
  <2> QED
    BY <1>3, <2>1 DEF ParseFailure, TakesImage, Count, Busy, Working
<1>4. CASE SkipUnmapped
  <2>1. ledger' \in [1..Len(images) -> Verdict]
    BY <1>4, SettleType DEF SkipUnmapped, TakesImage, Kinds
  <2> QED
    BY <1>4, <2>1 DEF SkipUnmapped, TakesImage, Count, Busy, Working
<1>5. CASE BeginProbe
  <2>1. images[next] \in Routed
    BY <1>5 DEF BeginProbe, TakesImage, Routed
  <2>2. stats' \in Stats
    BY <1>5 DEF BeginProbe, Count
  <2>3. HandInv'
    BY <1>5, <2>1 DEF BeginProbe, TakesImage, Busy, Working
  <2> QED
    BY <1>5, <2>2, <2>3 DEF BeginProbe
<1> QED
  BY <1>1, <1>2, <1>3, <1>4, <1>5 DEF LoopHead

\* Counting keeps the counters natural numbers.
LEMMA CountType ==
    ASSUME LoopTypeOK, NEW counters, Count(counters)
    PROVE  stats' \in Stats
BY DEF LoopTypeOK, Count, Stats

\* The answers of HEAD keep the first layer.
LEMMA ProbeTyped ==
    ASSUME Typed, Probe
    PROVE  LoopTypeOK' /\ HandInv' /\ UNCHANGED zotVars
<1> USE ListType DEF Typed, TypeOK, LoopTypeOK, HandInv, Labels, Busy, Working
<1>1. CASE ProbeHit
  <2>1. ledger' \in [1..Len(images) -> Verdict]
    BY <1>1, SettleType DEF ProbeHit, Kinds
  <2> QED
    BY <1>1, <2>1, CountType DEF ProbeHit
<1>2. CASE ProbeMiss
  BY <1>2 DEF ProbeMiss, RefOf
<1>3. CASE ProbeError
  BY <1>3, CountType DEF ProbeError
<1> QED
  BY <1>1, <1>2, <1>3 DEF Probe

\* So does ending an image with a warm error,
LEMMA GiveUpTyped ==
    ASSUME Typed, Busy, GiveUp
    PROVE  LoopTypeOK' /\ HandInv'
<1> USE ListType DEF Typed, TypeOK, LoopTypeOK, HandInv, Labels
<1>1. ledger' \in [1..Len(images) -> Verdict]
  BY SettleType DEF GiveUp, Kinds
<1> QED
  BY <1>1, CountType DEF GiveUp, Busy, Working

\* the answers of GET,
LEMMA WarmTyped ==
    ASSUME Typed, Warm
    PROVE  LoopTypeOK' /\ HandInv' /\ ZotTypeOK' /\ Grows
<1> USE DEF Typed, TypeOK, HandInv
<1>1. pc = "warm" /\ Busy
  BY DEF Warm, WarmManifest, WarmIndex, IndexUnreadable, WarmError, Busy, Working
<1>2. images[next] \in Routed /\ next <= Len(images)
  BY <1>1 DEF Busy, Working
<1>3. CASE WarmError
  BY <1>1, <1>3, GiveUpTyped, ZotUnchanged DEF WarmError
<1>4. CASE WarmManifest \/ WarmIndex \/ IndexUnreadable
  <2>1. Fetch(RefOf(next))
    BY <1>4 DEF WarmManifest, WarmIndex, IndexUnreadable
  <2>2. ZotTypeOK' /\ Grows /\ Served(RefOf(next)) \in Digests
    BY <1>2, <2>1, FetchGrows DEF RefOf
  <2>3. CASE WarmManifest
    <3>1. ledger' \in [1..Len(images) -> Verdict]
      BY <1>2, <2>2, <2>3, SettleType DEF WarmManifest, Kinds, LoopTypeOK
    <3> QED
      BY <1>2, <2>2, <2>3, <3>1, ListType, CountType
         DEF WarmManifest, LoopTypeOK, Labels, Busy, Working
  <2>4. CASE WarmIndex
    <3>1. RefOf(next).digest = None
      BY <1>2, <2>4, RoutedRef DEF WarmIndex, RefOf
    <3>2. RefOf(next)' = RefOf(next)
      BY <2>4 DEF WarmIndex, RefOf
    <3> QED
      BY <1>2, <2>2, <2>4, <3>1, <3>2, ListType
         DEF WarmIndex, LoopTypeOK, Labels, Busy, Working
  <2>5. CASE IndexUnreadable
    BY <1>1, <2>2, <2>5, GiveUpTyped DEF IndexUnreadable
  <2> QED
    BY <1>4, <2>3, <2>4, <2>5
<1> QED
  BY <1>3, <1>4 DEF Warm

\* the GETs of the children,
LEMMA ChildrenTyped ==
    ASSUME Typed, Children
    PROVE  LoopTypeOK' /\ HandInv' /\ ZotTypeOK' /\ Grows
<1> USE DEF Typed, TypeOK, HandInv
<1>1. pc = "children" /\ Busy
  BY DEF Children, WarmChild, WarmChildError, ChildrenDone, Busy, Working
<1>2. images[next] \in Routed /\ next <= Len(images) /\ desc \in Indexes
  BY <1>1 DEF Busy, Working
<1>3. CASE WarmChild
  <2>1. child \in 1..Len(Manifests[desc])
    BY <1>2, <1>3, ChildDigest DEF WarmChild, LoopTypeOK
  <2>2. RefOf(next).repo \in Repositories
    BY <1>2, RoutedRef DEF RefOf
  <2>3. ZotTypeOK' /\ Grows
    BY <1>2, <1>3, <2>1, <2>2, ChildDigest, FetchDigestGrows DEF WarmChild
  <2>4. RefOf(next)' = RefOf(next)
    BY <1>3 DEF WarmChild, RefOf
  <2> QED
    BY <1>2, <1>3, <2>3, <2>4, ListType
       DEF WarmChild, LoopTypeOK, Labels, Busy, Working
<1>4. CASE WarmChildError
  BY <1>1, <1>4, GiveUpTyped, ZotUnchanged DEF WarmChildError
<1>5. CASE ChildrenDone
  <2>1. desc \in Digests
    BY <1>2, ChildDigest
  <2>2. ledger' \in [1..Len(images) -> Verdict]
    BY <1>2, <1>5, <2>1, SettleType DEF ChildrenDone, Kinds, LoopTypeOK
  <2>3. ZotTypeOK' /\ Grows
    BY <1>5, ZotUnchanged DEF ChildrenDone
  <2> QED
    BY <1>2, <1>5, <2>2, <2>3, ListType, CountType
       DEF ChildrenDone, LoopTypeOK, Labels, Busy, Working
<1> QED
  BY <1>3, <1>4, <1>5 DEF Children

\* and the pause, a cancellation and the environment.
LEMMA OtherTyped ==
    ASSUME Typed, Sleep \/ Environment \/ UNCHANGED vars
    PROVE  LoopTypeOK' /\ HandInv' /\ ZotTypeOK' /\ Grows
<1> USE ListType
        DEF Typed, TypeOK, LoopTypeOK, HandInv, Labels, Busy, Working, RefOf
<1>1. CASE Sleep
  BY <1>1, ZotUnchanged DEF Sleep
<1>2. CASE Cancel
  BY <1>2, ZotUnchanged DEF Cancel
<1>3. CASE ZotNext /\ UNCHANGED loopVars
  BY <1>3, ZotNextGrows DEF loopVars
<1>4. CASE UNCHANGED vars
  BY <1>4, ZotUnchanged DEF vars, loopVars
<1> QED
  BY <1>1, <1>2, <1>3, <1>4 DEF Environment

\* Every step keeps the first layer and only adds to Zot.
LEMMA NextTyped ==
    ASSUME Typed, [Next]_vars
    PROVE  Typed' /\ Grows
<1>1. CASE LoopHead \/ Probe
  BY <1>1, HeadTyped, ProbeTyped, ZotUnchanged
     DEF Typed, TypeOK, LoopTypeOK
<1>2. CASE Warm
  BY <1>2, WarmTyped DEF Typed, TypeOK, LoopTypeOK
<1>3. CASE Children
  BY <1>3, ChildrenTyped DEF Typed, TypeOK, LoopTypeOK
<1>4. CASE Sleep \/ Environment \/ UNCHANGED vars
  BY <1>4, OtherTyped DEF Typed, TypeOK, LoopTypeOK
<1> QED
  BY <1>1, <1>2, <1>3, <1>4 DEF Next, Step

\* The first layer holds in every reachable state.
LEMMA AlwaysTyped == Spec => []Typed
<1>1. Init => Typed
  BY InitTyped
<1>2. Typed /\ [Next]_vars => Typed'
  BY NextTyped
<1> QED
  BY <1>1, <1>2, PTL DEF Spec

\* Whatever Zot, its other clients and the signals do, every variable of the
\* loop keeps its type.
THEOREM TypeCorrect == Spec => []TypeOK
<1>1. Typed => TypeOK
  BY DEF Typed
<1> QED
  BY <1>1, AlwaysTyped, PTL

-----------------------------------------------------------------------------
(* Second layer: the counters.                                              *)

AtWarm == pc \in {"warm", "children"}

\* A request of a warm succeeds, or ends the image with a warm error.
LEMMA GiveUpCases ==
    /\ Warm => WarmManifest \/ WarmIndex \/ (GiveUp /\ AtWarm)
    /\ Children => WarmChild \/ ChildrenDone \/ (GiveUp /\ AtWarm)
BY DEF Warm, IndexUnreadable, WarmError, Children, WarmChildError, AtWarm

\* A new run has begun no image and counted none.
LEMMA InitAccounting == Init => Accounting
<1> SUFFICES ASSUME Init PROVE Accounting
  OBVIOUS
<1>1. PICK list \in ImageLists : StartRun(list)
  BY DEF Init
<1>2. Len(list) \in Nat
  BY ListAssumption
<1> QED
  BY <1>1, <1>2
     DEF StartRun, NewStats, Counters, Accounting, EachBegun, EachParsed,
         EachProbed, Begun, InFlight, Owed, Working

\* Each step counts once, moves the image in hand on by one stage, and so
\* keeps the sums.
LEMMA NextAccounting ==
    ASSUME Typed, Accounting, [Next]_vars
    PROVE  Accounting'
<1> USE DEF Accounting
<1>1. /\ next \in Nat /\ stats.Total \in Nat /\ stats.Parsed \in Nat
      /\ stats.ParseErrors \in Nat /\ stats.SkippedNoMapping \in Nat
      /\ stats.Cached \in Nat /\ stats.Warmed \in Nat
      /\ stats.ProbeErrors \in Nat /\ stats.WarmErrors \in Nat
  BY ListType DEF Typed, TypeOK, Stats, Counters
<1>2. Begun \in Int /\ InFlight \in {0, 1} /\ Owed \in {0, 1}
  BY <1>1 DEF Begun, InFlight, Owed
<1>3. CASE ParseFailure
  <2>1. /\ stats'.Total = stats.Total /\ stats'.Parsed = stats.Parsed
        /\ stats'.ParseErrors = stats.ParseErrors + 1
        /\ stats'.SkippedNoMapping = stats.SkippedNoMapping
        /\ stats'.Cached = stats.Cached /\ stats'.Warmed = stats.Warmed
        /\ stats'.ProbeErrors = stats.ProbeErrors
        /\ stats'.WarmErrors = stats.WarmErrors
    BY <1>1, <1>3 DEF ParseFailure, TakesImage, Count, Counters
  <2>2. /\ Begun' = Begun + 1 /\ images' = images
        /\ InFlight = 0 /\ InFlight' = 0 /\ Owed = 0 /\ Owed' = 0
    BY <1>1, <1>3 DEF ParseFailure, TakesImage, Begun, InFlight, Owed, Working
  <2>3. EachBegun'
    BY <1>1, <1>2, <2>1, <2>2 DEF EachBegun
  <2>4. EachParsed'
    BY <1>1, <2>1, <2>2 DEF EachParsed
  <2>5. EachProbed'
    BY <1>1, <2>1, <2>2 DEF EachProbed
  <2> QED
    BY <2>3, <2>4, <2>5
<1>4. CASE SkipUnmapped
  <2>1. /\ stats'.Total = stats.Total /\ stats'.Parsed = stats.Parsed + 1
        /\ stats'.ParseErrors = stats.ParseErrors
        /\ stats'.SkippedNoMapping = stats.SkippedNoMapping + 1
        /\ stats'.Cached = stats.Cached /\ stats'.Warmed = stats.Warmed
        /\ stats'.ProbeErrors = stats.ProbeErrors
        /\ stats'.WarmErrors = stats.WarmErrors
    BY <1>1, <1>4 DEF SkipUnmapped, TakesImage, Count, Counters
  <2>2. /\ Begun' = Begun + 1 /\ images' = images
        /\ InFlight = 0 /\ InFlight' = 0 /\ Owed = 0 /\ Owed' = 0
    BY <1>1, <1>4 DEF SkipUnmapped, TakesImage, Begun, InFlight, Owed, Working
  <2>3. EachBegun'
    BY <1>1, <1>2, <2>1, <2>2 DEF EachBegun
  <2>4. EachParsed'
    BY <1>1, <2>1, <2>2 DEF EachParsed
  <2>5. EachProbed'
    BY <1>1, <2>1, <2>2 DEF EachProbed
  <2> QED
    BY <2>3, <2>4, <2>5
<1>5. CASE BeginProbe
  <2>1. /\ stats'.Total = stats.Total /\ stats'.Parsed = stats.Parsed + 1
        /\ stats'.ParseErrors = stats.ParseErrors
        /\ stats'.SkippedNoMapping = stats.SkippedNoMapping
        /\ stats'.Cached = stats.Cached /\ stats'.Warmed = stats.Warmed
        /\ stats'.ProbeErrors = stats.ProbeErrors
        /\ stats'.WarmErrors = stats.WarmErrors
    BY <1>1, <1>5 DEF BeginProbe, TakesImage, Count, Counters
  <2>2. /\ Begun' = Begun + 1 /\ images' = images
        /\ InFlight = 0 /\ InFlight' = 1 /\ Owed = 0 /\ Owed' = 0
    BY <1>1, <1>5 DEF BeginProbe, TakesImage, Begun, InFlight, Owed, Working
  <2>3. EachBegun'
    BY <1>1, <1>2, <2>1, <2>2 DEF EachBegun
  <2>4. EachParsed'
    BY <1>1, <2>1, <2>2 DEF EachParsed
  <2>5. EachProbed'
    BY <1>1, <2>1, <2>2 DEF EachProbed
  <2> QED
    BY <2>3, <2>4, <2>5
<1>6. CASE ProbeHit
  <2>1. /\ stats'.Total = stats.Total /\ stats'.Parsed = stats.Parsed
        /\ stats'.ParseErrors = stats.ParseErrors
        /\ stats'.SkippedNoMapping = stats.SkippedNoMapping
        /\ stats'.Cached = stats.Cached + 1 /\ stats'.Warmed = stats.Warmed
        /\ stats'.ProbeErrors = stats.ProbeErrors
        /\ stats'.WarmErrors = stats.WarmErrors
    BY <1>1, <1>6 DEF ProbeHit, Count, Counters
  <2>2. /\ Begun' = Begun /\ images' = images
        /\ InFlight = 1 /\ InFlight' = 0 /\ Owed = 0 /\ Owed' = 0
    BY <1>1, <1>6 DEF ProbeHit, Begun, InFlight, Owed, Working
  <2>3. EachBegun'
    BY <1>1, <1>2, <2>1, <2>2 DEF EachBegun
  <2>4. EachParsed'
    BY <1>1, <2>1, <2>2 DEF EachParsed
  <2>5. EachProbed'
    BY <1>1, <2>1, <2>2 DEF EachProbed
  <2> QED
    BY <2>3, <2>4, <2>5
<1>7. CASE ProbeError
  <2>1. /\ stats'.Total = stats.Total /\ stats'.Parsed = stats.Parsed
        /\ stats'.ParseErrors = stats.ParseErrors
        /\ stats'.SkippedNoMapping = stats.SkippedNoMapping
        /\ stats'.Cached = stats.Cached /\ stats'.Warmed = stats.Warmed
        /\ stats'.ProbeErrors = stats.ProbeErrors + 1
        /\ stats'.WarmErrors = stats.WarmErrors
    BY <1>1, <1>7 DEF ProbeError, Count, Counters
  <2>2. /\ Begun' = Begun /\ images' = images
        /\ InFlight = 1 /\ InFlight' = 1 /\ Owed = 0 /\ Owed' = 1
    BY <1>1, <1>7 DEF ProbeError, Begun, InFlight, Owed, Working
  <2>3. EachBegun'
    BY <1>1, <1>2, <2>1, <2>2 DEF EachBegun
  <2>4. EachParsed'
    BY <1>1, <2>1, <2>2 DEF EachParsed
  <2>5. EachProbed'
    BY <1>1, <2>1, <2>2 DEF EachProbed
  <2> QED
    BY <2>3, <2>4, <2>5
<1>8. CASE GiveUp /\ AtWarm
  <2>1. /\ stats'.Total = stats.Total /\ stats'.Parsed = stats.Parsed
        /\ stats'.ParseErrors = stats.ParseErrors
        /\ stats'.SkippedNoMapping = stats.SkippedNoMapping
        /\ stats'.Cached = stats.Cached /\ stats'.Warmed = stats.Warmed
        /\ stats'.ProbeErrors = stats.ProbeErrors
        /\ stats'.WarmErrors = stats.WarmErrors + 1
    BY <1>1, <1>8 DEF GiveUp, AtWarm, Count, Counters
  <2>2. /\ Begun' = Begun /\ images' = images
        /\ InFlight = 1 /\ InFlight' = 0 /\ Owed = 1 /\ Owed' = 0
    BY <1>1, <1>8 DEF GiveUp, AtWarm, Begun, InFlight, Owed, Working
  <2>3. EachBegun'
    BY <1>1, <1>2, <2>1, <2>2 DEF EachBegun
  <2>4. EachParsed'
    BY <1>1, <2>1, <2>2 DEF EachParsed
  <2>5. EachProbed'
    BY <1>1, <2>1, <2>2 DEF EachProbed
  <2> QED
    BY <2>3, <2>4, <2>5
<1>9. CASE WarmManifest
  <2>1. /\ stats'.Total = stats.Total /\ stats'.Parsed = stats.Parsed
        /\ stats'.ParseErrors = stats.ParseErrors
        /\ stats'.SkippedNoMapping = stats.SkippedNoMapping
        /\ stats'.Cached = stats.Cached /\ stats'.Warmed = stats.Warmed + 1
        /\ stats'.ProbeErrors = stats.ProbeErrors
        /\ stats'.WarmErrors = stats.WarmErrors
    BY <1>1, <1>9 DEF WarmManifest, Count, Counters
  <2>2. /\ Begun' = Begun /\ images' = images
        /\ InFlight = 1 /\ InFlight' = 0 /\ Owed = 1 /\ Owed' = 0
    BY <1>1, <1>9 DEF WarmManifest, Begun, InFlight, Owed, Working
  <2>3. EachBegun'
    BY <1>1, <1>2, <2>1, <2>2 DEF EachBegun
  <2>4. EachParsed'
    BY <1>1, <2>1, <2>2 DEF EachParsed
  <2>5. EachProbed'
    BY <1>1, <2>1, <2>2 DEF EachProbed
  <2> QED
    BY <2>3, <2>4, <2>5
<1>10. CASE ChildrenDone
  <2>1. /\ stats'.Total = stats.Total /\ stats'.Parsed = stats.Parsed
        /\ stats'.ParseErrors = stats.ParseErrors
        /\ stats'.SkippedNoMapping = stats.SkippedNoMapping
        /\ stats'.Cached = stats.Cached /\ stats'.Warmed = stats.Warmed + 1
        /\ stats'.ProbeErrors = stats.ProbeErrors
        /\ stats'.WarmErrors = stats.WarmErrors
    BY <1>1, <1>10 DEF ChildrenDone, Count, Counters
  <2>2. /\ Begun' = Begun /\ images' = images
        /\ InFlight = 1 /\ InFlight' = 0 /\ Owed = 1 /\ Owed' = 0
    BY <1>1, <1>10 DEF ChildrenDone, Begun, InFlight, Owed, Working
  <2>3. EachBegun'
    BY <1>1, <1>2, <2>1, <2>2 DEF EachBegun
  <2>4. EachParsed'
    BY <1>1, <2>1, <2>2 DEF EachParsed
  <2>5. EachProbed'
    BY <1>1, <2>1, <2>2 DEF EachProbed
  <2> QED
    BY <2>3, <2>4, <2>5
<1>11. ASSUME UNCHANGED <<stats, images>>, Begun' = Begun,
             InFlight' = InFlight, Owed' = Owed \/ Owed' = Owed + 1
      PROVE  Accounting'
  BY <1>1, <1>2, <1>11 DEF EachBegun, EachParsed, EachProbed
<1>12. CASE ProbeMiss \/ WarmIndex \/ WarmChild \/ Sleep
  BY <1>1, <1>11, <1>12 DEF ProbeMiss, WarmIndex, WarmChild, Sleep,
                        Begun, InFlight, Owed, Working
<1>13. CASE Finish \/ StopCancelled \/ Environment \/ UNCHANGED vars
  BY <1>11, <1>13 DEF Finish, StopCancelled, Environment, Cancel, vars,
                    loopVars, Begun, InFlight, Owed, Working
<1> QED
  BY <1>3, <1>4, <1>5, <1>6, <1>7, <1>8, <1>9, <1>10, <1>12, <1>13, GiveUpCases
     DEF Next, Step, LoopHead, Probe

\* The counters account for every image exactly once, in every state of every
\* run, whatever its requests are answered with.
THEOREM CountersAddUp == Spec => []Accounting
<1>1. Init => Accounting
  BY InitAccounting
<1>2. Typed /\ Accounting /\ [Next]_vars => Accounting'
  BY NextAccounting
<1> QED
  BY <1>1, <1>2, AlwaysTyped, PTL DEF Spec

-----------------------------------------------------------------------------
(* Third layer: the ledger and the position in the list.                    *)

Settled(i) == i < next \/ (i = next /\ pc = "sleep")

\* Exactly the images before the one in hand have a verdict, and Zot was
\* asked for those alone that have a place in it.
LedgerInv ==
    \A i \in 1..Len(images) :
        /\ ledger[i].kind = "pending" <=> ~Settled(i)
        /\ ledger[i].kind \in {"cached", "warmed"} => images[i] \in Routed

\* Only cancellation ends the loop early, and soon after it comes.
StopInv ==
    /\ pc = "done" /\ next <= Len(images) => Cancelled
    /\ Cancelled => next <= cancelledAt + 1 /\ (Busy => next <= cancelledAt)

\* A new run has filed no verdict and is not cancelled.
LEMMA InitLedger == Init => LedgerInv /\ StopInv
<1> SUFFICES ASSUME Init PROVE LedgerInv /\ StopInv
  OBVIOUS
<1>1. PICK list \in ImageLists : StartRun(list)
  BY DEF Init
<1>2. Len(list) \in Nat
  BY ListAssumption
<1> QED
  BY <1>1, <1>2
     DEF StartRun, NewLedger, LedgerInv, Settled, StopInv, Cancelled, Busy,
         Working

\* A step never lets a cancelled run begin another image.
LEMMA NextStop ==
    ASSUME Typed, StopInv, [Next]_vars
    PROVE  StopInv'
<1> USE ListType DEF Typed, TypeOK, StopInv, Cancelled, Busy, Working
<1>1. CASE LoopHead
  BY <1>1 DEF LoopHead, Finish, StopCancelled, ParseFailure, SkipUnmapped,
              BeginProbe, TakesImage
<1>2. CASE Probe
  BY <1>2 DEF Probe, ProbeHit, ProbeMiss, ProbeError
<1>3. CASE Warm
  BY <1>3 DEF Warm, WarmManifest, WarmIndex, IndexUnreadable, WarmError, GiveUp
<1>4. CASE Children
  BY <1>4 DEF Children, WarmChild, WarmChildError, ChildrenDone, GiveUp
<1>5. CASE Sleep
  BY <1>5 DEF Sleep
<1>6. CASE Environment \/ UNCHANGED vars
  BY <1>6 DEF Environment, Cancel, vars, loopVars
<1> QED
  BY <1>1, <1>2, <1>3, <1>4, <1>5, <1>6 DEF Next, Step

\* The verdict on the image in hand is filed in its place and in no other.
LEMMA SettlesOne ==
    ASSUME LoopTypeOK, next <= Len(images), NEW kind, NEW d, Settle(kind, d)
    PROVE  /\ ledger'[next].kind = kind
           /\ \A i \in 1..Len(images) : i # next => ledger'[i] = ledger[i]
BY ListType DEF LoopTypeOK, Settle

\* A step files verdicts in the order of the list.
LEMMA NextLedger ==
    ASSUME Typed, LedgerInv, [Next]_vars
    PROVE  LedgerInv'
<1> USE ListType
        DEF Typed, TypeOK, LoopTypeOK, HandInv, LedgerInv, Settled, Busy, Working
<1>1. ASSUME next <= Len(images), NEW kind \in Kinds \ {"pending"}, NEW d,
             Settle(kind, d), images' = images,
             \/ next' = next + 1 /\ pc = "loop" /\ pc' = "loop"
             \/ next' = next /\ pc # "sleep" /\ pc' = "sleep",
             kind \in {"cached", "warmed"} => images[next] \in Routed
      PROVE  LedgerInv'
  <2>1. /\ ledger'[next].kind = kind
        /\ \A i \in 1..Len(images) : i # next => ledger'[i] = ledger[i]
    BY <1>1, SettlesOne
  <2> QED
    BY <1>1, <2>1
<1>2. CASE ParseFailure \/ SkipUnmapped
  BY <1>1, <1>2 DEF ParseFailure, SkipUnmapped, TakesImage, Kinds
<1>3. CASE Finish \/ StopCancelled \/ BeginProbe
  BY <1>3 DEF Finish, StopCancelled, BeginProbe, TakesImage
<1>4. CASE Probe
  BY <1>1, <1>4 DEF Probe, ProbeHit, ProbeMiss, ProbeError, Kinds
<1>5. CASE GiveUp /\ AtWarm
  BY <1>1, <1>5 DEF GiveUp, AtWarm, Kinds
<1>6. CASE WarmManifest \/ WarmIndex
  BY <1>1, <1>6 DEF WarmManifest, WarmIndex, Kinds
<1>7. CASE WarmChild \/ ChildrenDone
  BY <1>1, <1>7 DEF WarmChild, ChildrenDone, Kinds
<1>8. CASE Sleep
  BY <1>8 DEF Sleep
<1>9. CASE Environment \/ UNCHANGED vars
  BY <1>9 DEF Environment, Cancel, vars, loopVars
<1> QED
  BY <1>2, <1>3, <1>4, <1>5, <1>6, <1>7, <1>8, <1>9, GiveUpCases
     DEF Next, Step, LoopHead

\* The third layer holds in every reachable state.
LEMMA AlwaysFiled == Spec => [](LedgerInv /\ StopInv)
<1>1. Init => LedgerInv /\ StopInv
  BY InitLedger
<1>2. Typed /\ LedgerInv /\ StopInv /\ [Next]_vars => (LedgerInv /\ StopInv)'
  BY NextLedger, NextStop
<1> QED
  BY <1>1, <1>2, AlwaysTyped, PTL DEF Spec

\* After the context is cancelled no image but the one in hand is touched.
THEOREM CancellationIsPrompt == Spec => []CancelBound
<1>1. Typed /\ LedgerInv /\ StopInv => CancelBound
  BY ListType DEF Typed, TypeOK, LedgerInv, Settled, StopInv, Busy, CancelBound
<1> QED
  BY <1>1, AlwaysTyped, AlwaysFiled, PTL

\* A run that is not cancelled leaves no image without a verdict.
THEOREM NothingDropped == Spec => []OnlyCancellationDrops
<1>1. Typed /\ LedgerInv /\ StopInv => OnlyCancellationDrops
  BY ListType
     DEF Typed, TypeOK, LedgerInv, Settled, StopInv, OnlyCancellationDrops
<1> QED
  BY <1>1, AlwaysTyped, AlwaysFiled, PTL

\* Every step of the loop goes up in the order of images, places in the body
\* and children, all of them bounded, and nothing else moves the loop: the
\* calls a run makes are bounded, whatever is answered and whoever interferes.
THEOREM RequestsBounded == Spec => NoRequestRepeats
<1>1. ASSUME [Next]_vars
      PROVE  MovesOn \/ UNCHANGED <<next, pc, desc, child>>
  <2>1. CASE LoopHead
    BY <2>1 DEF LoopHead, Finish, StopCancelled, ParseFailure, SkipUnmapped,
                BeginProbe, TakesImage, MovesOn, Phase
  <2>2. CASE Probe
    BY <2>2 DEF Probe, ProbeHit, ProbeMiss, ProbeError, MovesOn, Phase
  <2>3. CASE Warm
    BY <2>3 DEF Warm, WarmManifest, WarmIndex, IndexUnreadable, WarmError, GiveUp,
                MovesOn, Phase
  <2>4. CASE Children
    BY <2>4 DEF Children, WarmChild, WarmChildError, ChildrenDone, GiveUp,
                MovesOn, Phase
  <2>5. CASE Sleep
    BY <2>5 DEF Sleep, MovesOn
  <2>6. CASE Environment \/ UNCHANGED vars
    BY <2>6 DEF Environment, Cancel, vars, loopVars
  <2> QED
    BY <1>1, <2>1, <2>2, <2>3, <2>4, <2>5, <2>6 DEF Next, Step
<1> QED
  BY <1>1, PTL DEF Spec, NoRequestRepeats

-----------------------------------------------------------------------------
(* Fourth layer: the ledger and what Zot holds.                             *)

\* While the children of an index are fetched, Zot holds the index and the
\* children before the next one.
ChildInv ==
    pc = "children" =>
        /\ <<RefOf(next).repo, desc>> \in stored
        /\ \A k \in 1..Len(Manifests[desc]) :
               k < child => <<RefOf(next).repo, Manifests[desc][k]>> \in stored

HeldInv == ChildInv /\ WarmedIsStored /\ CachedIsPresent

\* Nothing Zot holds is lost.
LEMMA HeldGrows ==
    ASSUME Grows
    PROVE  /\ \A ref, d : Covers(ref, d) => Covers(ref, d)'
           /\ \A ref \in Refs : Present(ref) => Present(ref)'
BY DEF Grows, Covers, Present, TagRefs

\* A verdict is filed once, and only two steps file "warmed", one "cached".
LEMMA LedgerStep ==
    ASSUME Typed, [Next]_vars
    PROVE  /\ images' = images
           /\ \A i \in 1..Len(images) :
                 \/ ledger'[i] = ledger[i]
                 \/ i = next /\ ledger'[i].kind \notin {"warmed", "cached"}
                 \/ i = next /\ ledger'[i].kind = "cached" /\ ProbeHit
                 \/ /\ i = next /\ ledger'[i].kind = "warmed"
                    /\ \/ WarmManifest /\ ledger'[i].digest = Served(RefOf(i))
                       \/ ChildrenDone /\ ledger'[i].digest = desc
<1> USE ListType DEF Typed, TypeOK, HandInv, Busy, Working, Settle
<1>1. CASE ParseFailure \/ SkipUnmapped
  BY <1>1 DEF ParseFailure, SkipUnmapped, TakesImage
<1>2. CASE ProbeHit
  BY <1>2 DEF ProbeHit
<1>3. CASE GiveUp /\ AtWarm
  BY <1>3 DEF GiveUp
<1>4. CASE WarmManifest
  BY <1>4 DEF WarmManifest
<1>5. CASE ChildrenDone
  BY <1>5 DEF ChildrenDone
<1>6. CASE \/ Finish \/ StopCancelled \/ BeginProbe \/ ProbeMiss \/ ProbeError
           \/ WarmIndex \/ WarmChild \/ Sleep
  BY <1>6 DEF Finish, StopCancelled, BeginProbe, ProbeMiss, ProbeError,
              WarmIndex, WarmChild, Sleep
<1>7. CASE Environment \/ UNCHANGED vars
  BY <1>7 DEF Environment, Cancel, vars, loopVars
<1> QED
  BY <1>1, <1>2, <1>3, <1>4, <1>5, <1>6, <1>7, GiveUpCases
     DEF Next, Step, LoopHead, Probe

\* A step never takes back, and never invents, a cache hit.
LEMMA NextCached ==
    ASSUME Typed, LedgerInv, CachedIsPresent, [Next]_vars
    PROVE  CachedIsPresent'
<1>1. images' = images /\ Grows
  BY LedgerStep, NextTyped
<1> SUFFICES ASSUME NEW i \in 1..Len(images), ledger'[i].kind = "cached"
             PROVE  Present(ZotRef(Parse(images[i])))'
  BY <1>1 DEF CachedIsPresent, RefOf
<1>2. CASE ledger'[i] = ledger[i]
  <2>1. Present(RefOf(i)) /\ images[i] \in Routed
    BY <1>2 DEF CachedIsPresent, LedgerInv
  <2> QED
    BY <1>1, <2>1, RoutedRef, HeldGrows DEF RefOf
<1>3. CASE i = next /\ ProbeHit
  <2>1. Present(RefOf(i)) /\ images[i] \in Routed
    BY <1>3 DEF ProbeHit, Typed, HandInv, Working
  <2> QED
    BY <1>1, <2>1, RoutedRef, HeldGrows DEF RefOf
<1> QED
  BY <1>2, <1>3, LedgerStep

\* The children before the one in hand stay in Zot.
LEMMA NextChild ==
    ASSUME Typed, ChildInv, [Next]_vars
    PROVE  ChildInv'
<1> SUFFICES ASSUME pc' = "children"
             PROVE  ChildInv'
  BY DEF ChildInv
<1>1. Grows /\ images' = images
  BY NextTyped, LedgerStep
<1>2. CASE WarmIndex
  <2>1. images[next] \in Routed
    BY <1>2 DEF WarmIndex, Typed, HandInv, Working
  <2>2. <<RefOf(next).repo, Served(RefOf(next))>> \in stored'
    BY <1>2, <2>1, FetchGrows DEF WarmIndex, RefOf, Typed, TypeOK
  <2> QED
    BY <1>2, <2>2 DEF WarmIndex, ChildInv, RefOf
<1>3. CASE WarmChild
  <2>1. /\ desc' = desc /\ next' = next /\ child' = child + 1
        /\ child \in Nat /\ ChildInv /\ pc = "children"
    BY <1>3 DEF WarmChild, Typed, TypeOK
  <2>2. <<RefOf(next).repo, Manifests[desc][child]>> \in stored'
    BY <1>3 DEF WarmChild, FetchDigest
  <2> QED
    BY <1>1, <2>1, <2>2 DEF ChildInv, Grows, RefOf
<1>4. CASE UNCHANGED <<pc, next, desc, child>>
  BY <1>1, <1>4 DEF ChildInv, Grows, RefOf
<1>5. LoopHead \/ Probe \/ Sleep \/ WarmManifest \/ (GiveUp /\ AtWarm)
      \/ ChildrenDone => FALSE
  BY DEF LoopHead, Finish, StopCancelled, ParseFailure, SkipUnmapped,
         BeginProbe, TakesImage, Probe, ProbeHit, ProbeMiss, ProbeError, Sleep,
         WarmManifest, GiveUp, ChildrenDone
<1>6. Environment \/ UNCHANGED vars => UNCHANGED <<pc, next, desc, child>>
  BY DEF Environment, Cancel, vars, loopVars
<1> QED
  BY <1>2, <1>3, <1>4, <1>5, <1>6, GiveUpCases DEF Next, Step

\* An image filed as warmed is complete in Zot, and stays so.
LEMMA NextWarmed ==
    ASSUME Typed, LedgerInv, ChildInv, WarmedIsStored, [Next]_vars
    PROVE  WarmedIsStored'
<1>1. images' = images /\ Grows
  BY LedgerStep, NextTyped
<1> DEFINE ref(i) == ZotRef(Parse(images[i]))
<1> SUFFICES ASSUME NEW i \in 1..Len(images), ledger'[i].kind = "warmed"
             PROVE  Covers(ref(i), ledger[i].digest)'
  BY <1>1 DEF WarmedIsStored, RefOf
<1>2. CASE ledger'[i] = ledger[i]
  BY <1>1, <1>2, HeldGrows DEF WarmedIsStored, RefOf
<1>3. CASE i = next /\ WarmManifest /\ ledger'[i].digest = Served(RefOf(i))
  <2>1. images[i] \in Routed
    BY <1>3 DEF WarmManifest, Typed, HandInv, Working
  <2>2. <<ref(i).repo, Served(ref(i))>> \in stored'
    BY <1>3, <2>1, FetchGrows DEF WarmManifest, RefOf, Typed, TypeOK
  <2>3. ref(i).digest # None \/ Served(ref(i)) \notin Indexes
    BY <1>3, <2>1, RoutedRef DEF WarmManifest, RefOf
  <2> QED
    BY <1>1, <1>3, <2>2, <2>3 DEF Covers, RefOf
<1>4. CASE i = next /\ ChildrenDone /\ ledger'[i].digest = desc
  <2>1. /\ child \in Nat /\ child > Len(Manifests[desc])
        /\ pc = "children" /\ desc \in Indexes
    BY <1>4 DEF ChildrenDone, Typed, TypeOK, HandInv
  <2>2. \A k \in 1..Len(Manifests[desc]) : k < child
    BY <2>1, ChildDigest
  <2>3. Covers(ref(i), desc)
    BY <1>4, <2>1, <2>2 DEF ChildInv, Covers, RefOf
  <2> QED
    BY <1>1, <1>4, <2>3, HeldGrows
<1> QED
  BY <1>2, <1>3, <1>4, LedgerStep

\* A new run has counted nothing as held.
LEMMA InitHeld == Init => HeldInv
<1> SUFFICES ASSUME Init PROVE HeldInv
  OBVIOUS
<1>1. PICK list \in ImageLists : StartRun(list)
  BY DEF Init
<1> QED
  BY <1>1 DEF StartRun, NewLedger, HeldInv, ChildInv, WarmedIsStored,
              CachedIsPresent

\* The fourth layer holds in every reachable state.
LEMMA AlwaysHeld == Spec => []HeldInv
<1>1. Init => HeldInv
  BY InitHeld
<1>2. Typed /\ LedgerInv /\ HeldInv /\ [Next]_vars => HeldInv'
  BY NextChild, NextWarmed, NextCached DEF HeldInv
<1> QED
  BY <1>1, <1>2, AlwaysTyped, AlwaysFiled, PTL DEF Spec

\* What is counted as warmed is in Zot with all the children of an index
\* reached by tag, whichever way tags move and other clients pull meanwhile.
THEOREM WarmedIsHeld == Spec => []WarmedIsStored
<1>1. HeldInv => WarmedIsStored
  BY DEF HeldInv
<1> QED
  BY <1>1, AlwaysHeld, PTL

\* What is counted as a cache hit is in Zot.
THEOREM HitsAreHeld == Spec => []CachedIsPresent
<1>1. HeldInv => CachedIsPresent
  BY DEF HeldInv
<1> QED
  BY <1>1, AlwaysHeld, PTL

-----------------------------------------------------------------------------
(* Fifth layer: no image is fetched twice.                                  *)

\* The steps that file a verdict.
LEMMA FilingSteps ==
    ASSUME Typed, [Next]_vars
    PROVE  /\ images' = images
           /\ \/ ledger' = ledger
              \/ /\ next \in 1..Len(images)
                 /\ \/ ParseFailure \/ SkipUnmapped \/ ProbeHit \/ WarmManifest
                    \/ ChildrenDone \/ (GiveUp /\ AtWarm)
<1>1. next \in Nat \ {0} /\ Len(images) \in Nat
  BY ListType DEF Typed, TypeOK
<1>2. Busy \/ TakesImage => next \in 1..Len(images)
  BY <1>1 DEF Typed, HandInv, TakesImage
<1>3. CASE ParseFailure \/ SkipUnmapped
  BY <1>2, <1>3 DEF ParseFailure, SkipUnmapped
<1>4. CASE ProbeHit \/ WarmManifest \/ ChildrenDone
  BY <1>2, <1>4 DEF ProbeHit, WarmManifest, ChildrenDone, Busy, Working
<1>5. CASE GiveUp /\ AtWarm
  BY <1>2, <1>5 DEF GiveUp, AtWarm, Busy, Working
<1>6. CASE \/ Finish \/ StopCancelled \/ BeginProbe \/ ProbeMiss \/ ProbeError
           \/ WarmIndex \/ WarmChild \/ Sleep
  BY <1>6 DEF Finish, StopCancelled, BeginProbe, ProbeMiss, ProbeError,
              WarmIndex, WarmChild, Sleep
<1>7. CASE Environment \/ UNCHANGED vars
  BY <1>7 DEF Environment, Cancel, vars, loopVars
<1> QED
  BY <1>3, <1>4, <1>5, <1>6, <1>7, GiveUpCases DEF Next, Step, LoopHead, Probe

\* What a GET of an image has been answered with is there for the next HEAD.
LEMMA FetchPresent ==
    ASSUME ZotTypeOK, NEW raw \in Routed, Fetch(ZotRef(Parse(raw)))
    PROVE  Present(ZotRef(Parse(raw)))'
<1> DEFINE ref == ZotRef(Parse(raw))
<1>1. ref.digest = None => ref \in TagRefs
  BY RoutedRef
<1>2. Served(ref) \in Digests /\ Served(ref) # None
  BY FetchGrows, DigestAssumption
<1>3. CASE ref.digest = None
  BY <1>1, <1>2, <1>3 DEF Fetch, Store, Present, ZotTypeOK
<1>4. CASE ref.digest # None
  BY <1>4 DEF Fetch, Store, Present, Served
<1> QED
  BY <1>3, <1>4

\* The index whose children are being fetched, and what was counted as warmed,
\* is there for the next HEAD as well.
PresentInv ==
    /\ pc = "children" => Present(RefOf(next))
    /\ \A i \in 1..Len(images) :
           ledger[i].kind = "warmed" => Present(RefOf(i))

\* A step takes nothing of this away.
LEMMA NextPresent ==
    ASSUME Typed, LedgerInv, PresentInv, [Next]_vars
    PROVE  PresentInv'
<1>1. images' = images /\ Grows
  BY LedgerStep, NextTyped
<1>2. \A i : RefOf(i)' = RefOf(i)
  BY <1>1 DEF RefOf
<1>3. ASSUME NEW i \in 1..Len(images), images[i] \in Routed, Present(RefOf(i))
      PROVE  Present(ZotRef(Parse(images[i])))'
  BY <1>1, <1>3, RoutedRef, HeldGrows DEF RefOf
<1>4. ASSUME pc' = "children"
      PROVE  Present(RefOf(next))'
  <2>1. CASE WarmIndex
    <3>1. images[next] \in Routed /\ next' = next /\ Fetch(ZotRef(Parse(images[next])))
      BY <2>1 DEF WarmIndex, Typed, HandInv, Working, RefOf
    <3> QED
      BY <1>1, <3>1, FetchPresent DEF Typed, TypeOK, RefOf
  <2>2. CASE pc = "children" /\ next' = next
    <3>1. next \in 1..Len(images) /\ images[next] \in Routed
      BY <2>2, ListType DEF Typed, TypeOK, HandInv, Busy, Working
    <3> QED
      BY <1>1, <1>3, <2>2, <3>1 DEF PresentInv, RefOf
  <2>3. LoopHead \/ Probe \/ Sleep \/ WarmManifest \/ (GiveUp /\ AtWarm)
        \/ ChildrenDone => FALSE
    BY <1>4 DEF LoopHead, Finish, StopCancelled, ParseFailure, SkipUnmapped,
           BeginProbe, TakesImage, Probe, ProbeHit, ProbeMiss, ProbeError,
           Sleep, WarmManifest, GiveUp, ChildrenDone
  <2>4. WarmChild \/ Environment \/ UNCHANGED vars
            => pc = "children" /\ next' = next
    BY <1>4 DEF WarmChild, Environment, Cancel, vars, loopVars
  <2> QED
    BY <2>1, <2>2, <2>3, <2>4, GiveUpCases DEF Next, Step
<1>5. ASSUME NEW i \in 1..Len(images), ledger'[i].kind = "warmed"
      PROVE  Present(ZotRef(Parse(images[i])))'
  <2>1. CASE ledger'[i] = ledger[i]
    BY <1>3, <1>5, <2>1 DEF PresentInv, LedgerInv
  <2>2. CASE i = next /\ WarmManifest
    <3>1. images[i] \in Routed /\ Fetch(ZotRef(Parse(images[i])))
      BY <2>2 DEF WarmManifest, Typed, HandInv, Working, RefOf
    <3> QED
      BY <1>1, <3>1, FetchPresent DEF Typed, TypeOK
  <2>3. CASE i = next /\ ChildrenDone
    <3>1. images[i] \in Routed /\ Present(RefOf(i))
      BY <2>3 DEF ChildrenDone, Typed, HandInv, Working, PresentInv
    <3> QED
      BY <1>3, <3>1
  <2> QED
    BY <1>5, <2>1, <2>2, <2>3, LedgerStep
<1> QED
  BY <1>1, <1>4, <1>5 DEF PresentInv, RefOf

\* An image that gets as far as a GET, with every probe answered, was not
\* there when it was asked for, so none before it with its reference was
\* warmed.
FirstInv ==
    (stats.ProbeErrors = 0 /\ AtWarm) =>
        \A i \in 1..(next - 1) :
            ledger[i].kind = "warmed" => RefOf(i) # RefOf(next)

OnceInv == PresentInv /\ FirstInv /\ WarmedOnce

\* The number of failed probes only grows, and a failed one adds to it.
LEMMA ProbeErrorsGrow ==
    ASSUME Typed, [Next]_vars, stats'.ProbeErrors = 0
    PROVE  stats.ProbeErrors = 0 /\ ~ProbeError
<1>1. stats.ProbeErrors \in Nat
  BY DEF Typed, TypeOK, Stats, Counters
<1>2. ASSUME NEW counters, Count(counters)
      PROVE  /\ stats'.ProbeErrors >= stats.ProbeErrors
             /\ "ProbeErrors" \in counters => stats'.ProbeErrors > stats.ProbeErrors
  BY <1>1, <1>2 DEF Count, Counters
<1>3. stats' = stats \/ \E counters : Count(counters)
  <2>1. LoopHead => stats' = stats \/ \E counters : Count(counters)
    BY DEF LoopHead, Finish, StopCancelled, ParseFailure, SkipUnmapped, BeginProbe
  <2>2. Probe => stats' = stats \/ \E counters : Count(counters)
    BY DEF Probe, ProbeHit, ProbeMiss, ProbeError
  <2>3. Warm \/ Children => stats' = stats \/ \E counters : Count(counters)
    BY GiveUpCases DEF WarmManifest, WarmIndex, GiveUp, WarmChild, ChildrenDone
  <2>4. Sleep \/ Environment \/ UNCHANGED vars => stats' = stats
    BY DEF Sleep, Environment, Cancel, vars, loopVars
  <2> QED
    BY <2>1, <2>2, <2>3, <2>4 DEF Next, Step
<1>4. ProbeError => stats'.ProbeErrors > stats.ProbeErrors
  BY <1>2 DEF ProbeError
<1> QED
  BY <1>1, <1>2, <1>3, <1>4

\* Only a miss, or a step within a warm, leads into a warm.
LEMMA WarmReached ==
    ASSUME Typed, [Next]_vars, AtWarm', ~ProbeError
    PROVE  /\ next' = next /\ ledger' = ledger
           /\ AtWarm \/ (pc = "probe" /\ ~Present(RefOf(next)))
<1>1. ~LoopHead
  BY DEF LoopHead, Finish, StopCancelled, ParseFailure, SkipUnmapped, BeginProbe,
         TakesImage, AtWarm
<1>2. CASE Probe
  BY <1>2 DEF Probe, ProbeHit, ProbeMiss, AtWarm
<1>3. CASE Warm \/ Children
  BY <1>3, GiveUpCases
     DEF WarmManifest, WarmIndex, GiveUp, WarmChild, ChildrenDone, AtWarm
<1>4. CASE Sleep \/ Environment \/ UNCHANGED vars
  BY <1>4 DEF Sleep, Environment, Cancel, vars, loopVars, AtWarm
<1> QED
  BY <1>1, <1>2, <1>3, <1>4 DEF Next, Step

\* A step keeps the fifth layer.
LEMMA NextOnce ==
    ASSUME Typed, LedgerInv, OnceInv, [Next]_vars
    PROVE  OnceInv'
<1>1. PresentInv'
  BY NextPresent DEF OnceInv
<1>2. images' = images /\ next \in Nat \ {0} /\ Len(images) \in Nat
  BY LedgerStep, ListType DEF Typed, TypeOK
<1>3. ASSUME stats'.ProbeErrors = 0, AtWarm'
      PROVE  \A i \in 1..(next - 1) :
                 ledger'[i].kind = "warmed" => RefOf(i) # RefOf(next)
  <2>1. /\ stats.ProbeErrors = 0 /\ ledger' = ledger
        /\ AtWarm \/ (pc = "probe" /\ ~Present(RefOf(next)))
    BY <1>3, ProbeErrorsGrow, WarmReached
  <2>2. pc = "probe" => next <= Len(images)
    BY DEF Typed, HandInv, Busy, Working
  <2> QED
    BY <1>2, <2>1, <2>2 DEF OnceInv, FirstInv, PresentInv
<1>4. FirstInv'
  <2>1. AtWarm' /\ stats'.ProbeErrors = 0 => next' = next
    BY ProbeErrorsGrow, WarmReached
  <2> QED
    BY <1>2, <1>3, <2>1 DEF FirstInv, RefOf
<1>5. WarmedOnce'
  <2>1. SUFFICES ASSUME stats'.ProbeErrors = 0,
                        NEW i \in 1..Len(images), NEW j \in 1..Len(images), i < j,
                        ledger'[i].kind = "warmed",
                        ledger'[j].kind \in {"cached", "warmed", "warm_error"},
                        RefOf(i) = RefOf(j)
                 PROVE  ledger'[j].kind = "cached"
    BY <1>2 DEF WarmedOnce, RefOf
  <2>2. stats.ProbeErrors = 0
    BY <2>1, ProbeErrorsGrow
  <2>3. CASE ledger' = ledger
    BY <2>1, <2>2, <2>3 DEF OnceInv, WarmedOnce
  <2>4. ASSUME NEW kind \in Kinds \ {"pending"}, NEW d, Settle(kind, d),
               next <= Len(images), pc # "sleep",
               kind \in {"warmed", "warm_error"} => AtWarm
        PROVE  ledger'[j].kind = "cached"
    <3>1. /\ ledger'[next].kind = kind
          /\ \A k \in 1..Len(images) : k # next => ledger'[k] = ledger[k]
      BY <2>4, SettlesOne DEF Typed, TypeOK, LoopTypeOK
    <3>2. ledger[j].kind = "pending" <=> ~(j < next)
      BY <1>2, <2>4 DEF LedgerInv, Settled
    <3>3. CASE j < next
      <4>1. ledger'[j] = ledger[j] /\ ledger'[i] = ledger[i]
        BY <1>2, <2>1, <3>1, <3>3
      <4> QED
        BY <2>1, <2>2, <4>1 DEF OnceInv, WarmedOnce
    <3>4. CASE j = next
      <4>1. ledger[i].kind = "warmed" /\ i \in 1..(next - 1)
        BY <1>2, <2>1, <3>1, <3>4
      <4>2. ~AtWarm
        BY <2>1, <2>2, <3>4, <4>1 DEF OnceInv, FirstInv
      <4> QED
        BY <2>1, <2>4, <3>1, <3>4, <4>2
    <3>5. CASE j > next
      BY <1>2, <2>1, <3>1, <3>2, <3>5
    <3> QED
      BY <1>2, <3>3, <3>4, <3>5
  <2>5. CASE ParseFailure \/ SkipUnmapped
    BY <2>4, <2>5 DEF ParseFailure, SkipUnmapped, TakesImage, Kinds
  <2>6. CASE ProbeHit /\ next <= Len(images)
    BY <2>4, <2>6 DEF ProbeHit, Kinds
  <2>7. CASE (GiveUp /\ AtWarm) /\ next <= Len(images)
    BY <2>4, <2>7 DEF GiveUp, AtWarm, Kinds
  <2>8. CASE (WarmManifest \/ ChildrenDone) /\ next <= Len(images)
    BY <2>4, <2>8 DEF WarmManifest, ChildrenDone, AtWarm, Kinds
  <2> QED
    BY <1>2, <2>3, <2>5, <2>6, <2>7, <2>8, FilingSteps
<1> QED
  BY <1>1, <1>4, <1>5 DEF OnceInv

\* A new run has fetched nothing.
LEMMA InitOnce == Init => OnceInv
<1> SUFFICES ASSUME Init PROVE OnceInv
  OBVIOUS
<1>1. PICK list \in ImageLists : StartRun(list)
  BY DEF Init
<1> QED
  BY <1>1 DEF StartRun, NewLedger, OnceInv, PresentInv, FirstInv, WarmedOnce,
              AtWarm

\* The fifth layer holds in every reachable state.
LEMMA AlwaysOnce == Spec => []OnceInv
<1>1. Init => OnceInv
  BY InitOnce
<1>2. Typed /\ LedgerInv /\ OnceInv /\ [Next]_vars => OnceInv'
  BY NextOnce
<1> QED
  BY <1>1, <1>2, AlwaysTyped, AlwaysFiled, PTL DEF Spec

\* Of several spellings of one Zot reference only the first is fetched, as
\* long as the probes are answered, whatever other clients pull meanwhile.
THEOREM FetchedOnce == Spec => []WarmedOnce
<1>1. OnceInv => WarmedOnce
  BY DEF OnceInv
<1> QED
  BY <1>1, AlwaysOnce, PTL

-----------------------------------------------------------------------------
(* Sixth layer: the verdicts and the counters an exit code is made from.    *)

Filed(kind) == \E i \in 1..Len(images) : ledger[i].kind = kind

\* A verdict is true of its reference, and the two error counters are zero
\* exactly when no image has the verdict they count.
VerdictInv ==
    /\ \A i \in 1..Len(images) :
           /\ ledger[i].kind = "parse_error" => images[i].malformed
           /\ ledger[i].kind = "skipped" =>
                  ~images[i].malformed /\ ~HasMapping(Parse(images[i]))
           /\ ledger[i].kind \in {"cached", "warmed", "warm_error"} =>
                  images[i] \in Routed
    /\ stats.ParseErrors = 0 <=> ~Filed("parse_error")
    /\ stats.WarmErrors = 0 <=> ~Filed("warm_error")

\* A step that files no verdict counts no error of an image.
LEMMA NoVerdictNoError ==
    ASSUME Typed, [Next]_vars
    PROVE  \/ ParseFailure \/ SkipUnmapped \/ ProbeHit \/ WarmManifest
           \/ ChildrenDone \/ (GiveUp /\ AtWarm)
           \/ /\ stats'.ParseErrors = stats.ParseErrors
              /\ stats'.WarmErrors = stats.WarmErrors
              /\ ledger' = ledger
<1>1. stats \in [Counters -> Nat]
  BY DEF Typed, TypeOK, Stats
<1>2. CASE BeginProbe \/ ProbeError
  BY <1>1, <1>2 DEF BeginProbe, ProbeError, Count, Counters
<1>3. CASE Finish \/ StopCancelled \/ ProbeMiss \/ WarmIndex \/ WarmChild \/ Sleep
  BY <1>3 DEF Finish, StopCancelled, ProbeMiss, WarmIndex, WarmChild, Sleep
<1>4. CASE Environment \/ UNCHANGED vars
  BY <1>4 DEF Environment, Cancel, vars, loopVars
<1> QED
  BY <1>2, <1>3, <1>4, GiveUpCases DEF Next, Step, LoopHead, Probe

\* Filing a verdict and counting it keep the sixth layer.
LEMMA FilingKeepsVerdicts ==
    ASSUME Typed, LedgerInv, VerdictInv, images' = images,
           next \in 1..Len(images), pc # "sleep",
           NEW kind \in Kinds \ {"pending"}, NEW d, Settle(kind, d),
           NEW counters \in SUBSET Counters, Count(counters),
           "ParseErrors" \in counters <=> kind = "parse_error",
           "WarmErrors" \in counters <=> kind = "warm_error",
           kind = "parse_error" => images[next].malformed,
           kind = "skipped" =>
               ~images[next].malformed /\ ~HasMapping(Parse(images[next])),
           kind \in {"cached", "warmed", "warm_error"} => images[next] \in Routed
    PROVE  VerdictInv'
<1>1. /\ ledger'[next].kind = kind
      /\ \A i \in 1..Len(images) : i # next => ledger'[i] = ledger[i]
  BY ListType, SettlesOne DEF Typed, TypeOK, LoopTypeOK
<1>2. ledger[next].kind = "pending"
  BY ListType DEF LedgerInv, Settled, Typed, TypeOK
<1>3. /\ stats.ParseErrors \in Nat /\ stats.WarmErrors \in Nat
      /\ stats'.ParseErrors =
             stats.ParseErrors + (IF kind = "parse_error" THEN 1 ELSE 0)
      /\ stats'.WarmErrors =
             stats.WarmErrors + (IF kind = "warm_error" THEN 1 ELSE 0)
  BY DEF Typed, TypeOK, Stats, Counters, Count
<1>4. ASSUME NEW k \in Kinds \ {"pending"}
      PROVE  Filed(k)' <=> Filed(k) \/ k = kind
  BY <1>1, <1>2 DEF Filed
<1>5. /\ stats'.ParseErrors = 0 <=> ~Filed("parse_error")'
      /\ stats'.WarmErrors = 0 <=> ~Filed("warm_error")'
  BY <1>3, <1>4 DEF VerdictInv, Kinds
<1>6. ASSUME NEW i \in 1..Len(images)
      PROVE  /\ ledger'[i].kind = "parse_error" => images[i].malformed
             /\ ledger'[i].kind = "skipped" =>
                    ~images[i].malformed /\ ~HasMapping(Parse(images[i]))
             /\ ledger'[i].kind \in {"cached", "warmed", "warm_error"} =>
                    images[i] \in Routed
  <2>1. CASE i = next
    BY <1>1, <2>1
  <2>2. CASE i # next
    BY <1>1, <2>2 DEF VerdictInv
  <2> QED
    BY <2>1, <2>2
<1> QED
  BY <1>5, <1>6 DEF VerdictInv

\* Every step keeps the sixth layer.
LEMMA NextVerdict ==
    ASSUME Typed, LedgerInv, VerdictInv, [Next]_vars
    PROVE  VerdictInv'
<1>1. images' = images
  BY FilingSteps
<1>2. Busy \/ TakesImage => next \in 1..Len(images)
  BY ListType DEF Typed, TypeOK, HandInv, TakesImage
<1>3. CASE ParseFailure
  BY <1>1, <1>2, <1>3, FilingKeepsVerdicts
     DEF ParseFailure, TakesImage, Kinds, Counters
<1>4. CASE SkipUnmapped
  BY <1>1, <1>2, <1>4, FilingKeepsVerdicts
     DEF SkipUnmapped, TakesImage, Kinds, Counters
<1>5. CASE ProbeHit
  BY <1>1, <1>2, <1>5, FilingKeepsVerdicts
     DEF ProbeHit, Typed, HandInv, Busy, Working, Kinds, Counters
<1>6. CASE WarmManifest
  BY <1>1, <1>2, <1>6, FilingKeepsVerdicts
     DEF WarmManifest, Typed, HandInv, Busy, Working, Kinds, Counters
<1>7. CASE ChildrenDone
  BY <1>1, <1>2, <1>7, FilingKeepsVerdicts
     DEF ChildrenDone, Typed, HandInv, Busy, Working, Kinds, Counters
<1>8. CASE GiveUp /\ AtWarm
  BY <1>1, <1>2, <1>8, FilingKeepsVerdicts
     DEF GiveUp, AtWarm, Typed, HandInv, Busy, Working, Kinds, Counters
<1>9. CASE /\ stats'.ParseErrors = stats.ParseErrors
           /\ stats'.WarmErrors = stats.WarmErrors
           /\ ledger' = ledger
  BY <1>1, <1>9 DEF VerdictInv, Filed
<1> QED
  BY <1>3, <1>4, <1>5, <1>6, <1>7, <1>8, <1>9, NoVerdictNoError

-----------------------------------------------------------------------------
(* The loop as a part of a program: what holds from the moment it is entered *)
(* to its end, for the modules that run it among other things.              *)

LoopInv ==
    /\ Typed /\ Accounting /\ LedgerInv /\ StopInv
    /\ HeldInv /\ OnceInv /\ VerdictInv

\* A step of the loop or around it keeps all layers.
LEMMA NextLoop ==
    ASSUME LoopInv, [Next]_vars
    PROVE  LoopInv'
BY NextTyped, NextAccounting, NextLedger, NextStop, NextChild, NextWarmed,
   NextCached, NextOnce, NextVerdict
   DEF LoopInv, HeldInv

\* The loop is entered with all of them, with a fresh context or one that has
\* ended, whatever Zot holds.
LEMMA EnterLoopInv ==
    ASSUME ZotTypeOK', NEW list \in ImageLists, NEW at \in {0, 1},
           EnterLoopAt(list, at)
    PROVE  LoopInv'
<1>1. Len(list) \in Nat
  BY ListAssumption
<1>2. NewStats(list) \in Stats /\ NewLedger(list) \in [1..Len(list) -> Verdict]
  BY <1>1 DEF NewStats, Stats, Counters, NewLedger, Verdict, Kinds
<1>3. TypeOK'
  BY <1>1, <1>2 DEF EnterLoopAt, TypeOK, Labels
<1>4. Typed'
  BY <1>3 DEF EnterLoopAt, Typed, HandInv, Busy, Working
<1>5. Accounting'
  BY <1>1 DEF EnterLoopAt, NewStats, Counters, Accounting, EachBegun, EachParsed,
         EachProbed, Begun, InFlight, Owed, Working
<1>6. LedgerInv' /\ StopInv'
  BY <1>1 DEF EnterLoopAt, NewLedger, LedgerInv, Settled, StopInv, Cancelled,
              Busy, Working
<1>7. HeldInv' /\ OnceInv'
  BY DEF EnterLoopAt, NewLedger, HeldInv, ChildInv, WarmedIsStored,
         CachedIsPresent, OnceInv, PresentInv, FirstInv, WarmedOnce, AtWarm
<1>8. VerdictInv'
  BY DEF EnterLoopAt, NewLedger, NewStats, Counters, VerdictInv, Filed
<1> QED
  BY <1>4, <1>5, <1>6, <1>7, <1>8 DEF LoopInv

\* A program that has not got its list yet is like one with an empty list.
LEMMA StartLoopInv ==
    ASSUME ZotInit, NEW list \in ImageLists, StartRun(list)
    PROVE  LoopInv
<1>1. Init
  BY DEF Init
<1>2. VerdictInv
  BY DEF StartRun, NewLedger, NewStats, Counters, VerdictInv, Filed
<1> QED
  BY <1>1, <1>2, InitTyped, InitAccounting, InitLedger, InitHeld, InitOnce
     DEF LoopInv

-----------------------------------------------------------------------------
(* The warming loop is a pass as WarmPass describes it: the initial states  *)
(* map to initial states, and every step to a step of the pass or to none.  *)
(* That a pass ends is left to the model checker.                           *)

\* The values Processor gives to the variables of WarmPass.
Verdicts  == [i \in 1..Len(images) |-> ledger[i].kind]
PresentAt == {i \in InZot : Present(RefOf(i))}
CoveredAt == {i \in InZot :
                 ledger[i].digest # None /\ Covers(RefOf(i), ledger[i].digest)}

\* What the refinement needs besides the layers: a signal marks the image in
\* hand, and an image without a verdict has no digest.
MarkInv ==
    /\ cancelledAt <= next
    /\ \A i \in 1..Len(images) :
           ledger[i].kind = "pending" => ledger[i].digest = None

PassInv == LoopInv /\ MarkInv

\* Both hold when a run begins.
LEMMA InitPass == Init => PassInv
<1> SUFFICES ASSUME Init PROVE PassInv
  OBVIOUS
<1>1. PICK list \in ImageLists : StartRun(list)
  BY DEF Init
<1>2. LoopInv
  BY <1>1, StartLoopInv DEF Init
<1>3. MarkInv
  BY <1>1 DEF StartRun, NewLedger, MarkInv
<1> QED
  BY <1>2, <1>3 DEF PassInv

\* A step moves on or stays, and marks at most the image in hand.
LEMMA Positions ==
    ASSUME Typed, [Next]_vars
    PROVE  /\ next' \in {next, next + 1}
           /\ cancelledAt' = cancelledAt \/ (Cancel /\ cancelledAt' = next)
<1>1. CASE LoopHead
  BY <1>1 DEF LoopHead, Finish, StopCancelled, ParseFailure, SkipUnmapped,
              BeginProbe
<1>2. CASE Probe
  BY <1>2 DEF Probe, ProbeHit, ProbeMiss, ProbeError
<1>3. CASE Warm \/ Children
  BY <1>3, GiveUpCases
     DEF WarmManifest, WarmIndex, GiveUp, WarmChild, ChildrenDone
<1>4. CASE Sleep
  BY <1>4 DEF Sleep
<1>5. CASE Environment \/ UNCHANGED vars
  BY <1>5 DEF Environment, Cancel, vars, loopVars
<1> QED
  BY <1>1, <1>2, <1>3, <1>4, <1>5 DEF Next, Step

\* A verdict comes for the image in hand, which had none.
Files(kind, d) ==
    /\ next \in 1..Len(images) /\ pc # "done"
    /\ ledger[next].kind = "pending"
    /\ \A j \in 1..(next - 1) : ledger[j].kind # "pending"
    /\ ledger' = [ledger EXCEPT ![next] = [kind |-> kind, digest |-> d]]
    /\ pc' # "done" /\ cancelledAt' = cancelledAt
    /\ Cancelled => AtWarm /\ kind \in {"warmed", "warm_error"}
    /\ kind = "cached" => images[next] \in Routed /\ Present(RefOf(next))

LEMMA VerdictSteps ==
    ASSUME PassInv, [Next]_vars, ledger' # ledger
    PROVE  \E kind \in Kinds \ {"pending"} : \E d : Files(kind, d)
<1>1. /\ next \in 1..Len(images) /\ Len(images) \in Nat
      /\ ParseFailure \/ SkipUnmapped \/ ProbeHit \/ WarmManifest
         \/ ChildrenDone \/ (GiveUp /\ AtWarm)
  BY FilingSteps, ListType DEF PassInv, LoopInv, Typed, TypeOK
<1>2. ASSUME NEW kind \in Kinds \ {"pending"}, NEW d, Settle(kind, d),
             pc \notin {"sleep", "done"}, pc' # "done", cancelledAt' = cancelledAt,
             Cancelled => AtWarm /\ kind \in {"warmed", "warm_error"},
             kind = "cached" => images[next] \in Routed /\ Present(RefOf(next))
      PROVE  Files(kind, d)
  <2>1. /\ ledger[next].kind = "pending"
        /\ \A j \in 1..(next - 1) : ledger[j].kind # "pending"
    BY <1>1, <1>2 DEF PassInv, LoopInv, LedgerInv, Settled
  <2> QED
    BY <1>1, <1>2, <2>1 DEF Files, Settle
<1>3. CASE ParseFailure
  <2>1. Files("parse_error", None)
    BY <1>2, <1>3 DEF ParseFailure, TakesImage, Kinds
  <2> QED
    BY <2>1 DEF Kinds
<1>4. CASE SkipUnmapped
  <2>1. Files("skipped", None)
    BY <1>2, <1>4 DEF SkipUnmapped, TakesImage, Kinds
  <2> QED
    BY <2>1 DEF Kinds
<1>5. CASE ProbeHit
  <2>1. images[next] \in Routed
    BY <1>5 DEF ProbeHit, PassInv, LoopInv, Typed, HandInv, Working
  <2>2. Files("cached", None)
    BY <1>2, <1>5, <2>1 DEF ProbeHit, Answers, Kinds
  <2> QED
    BY <2>2 DEF Kinds
<1>6. CASE WarmManifest
  <2>1. Files("warmed", Served(RefOf(next)))
    BY <1>2, <1>6 DEF WarmManifest, AtWarm, Kinds
  <2> QED
    BY <2>1 DEF Kinds
<1>7. CASE ChildrenDone
  <2>1. Files("warmed", desc)
    BY <1>2, <1>7 DEF ChildrenDone, AtWarm, Kinds
  <2> QED
    BY <2>1 DEF Kinds
<1>8. CASE GiveUp /\ AtWarm
  <2>1. Files("warm_error", None)
    BY <1>2, <1>8 DEF GiveUp, AtWarm, Kinds
  <2> QED
    BY <2>1 DEF Kinds
<1> QED
  BY <1>1, <1>3, <1>4, <1>5, <1>6, <1>7, <1>8

\* Every step keeps the invariant.
LEMMA NextPass ==
    ASSUME PassInv, [Next]_vars
    PROVE  PassInv'
<1>1. LoopInv' /\ images' = images
  BY NextLoop, LedgerStep DEF PassInv, LoopInv
<1>2. cancelledAt' <= next'
  BY Positions DEF PassInv, MarkInv, LoopInv, Typed, TypeOK
<1>3. ASSUME NEW i \in 1..Len(images), ledger'[i].kind = "pending"
      PROVE  ledger'[i].digest = None
  BY <1>3, VerdictSteps DEF Files, PassInv, MarkInv, LoopInv, Typed, TypeOK
<1> QED
  BY <1>1, <1>2, <1>3 DEF PassInv, MarkInv

-----------------------------------------------------------------------------
(* The steps.                                                               *)

\* What Zot answers, and what the loop has had it store, only grows.
LEMMA PassGrows ==
    ASSUME PassInv, [Next]_vars
    PROVE  PresentAt \subseteq PresentAt' /\ CoveredAt \subseteq CoveredAt'
<1>1. Typed /\ images' = images /\ Grows /\ InZot' = InZot
  BY LedgerStep, NextTyped DEF PassInv, LoopInv, InZot
<1>2. ASSUME NEW i \in PresentAt
      PROVE  i \in PresentAt'
  <2>1. images[i] \in Routed /\ i \in InZot /\ Present(RefOf(i))
    BY <1>2 DEF PresentAt, InZot
  <2>2. Present(RefOf(i))'
    BY <1>1, <2>1, RoutedRef, HeldGrows DEF RefOf
  <2> QED
    BY <1>1, <2>1, <2>2 DEF PresentAt
<1>3. ASSUME NEW i \in CoveredAt
      PROVE  i \in CoveredAt'
  <2>1. /\ i \in InZot /\ i \in 1..Len(images)
        /\ ledger[i].digest # None /\ Covers(RefOf(i), ledger[i].digest)
    BY <1>3 DEF CoveredAt, InZot
  <2>2. ledger'[i] = ledger[i]
    BY <2>1, VerdictSteps DEF Files, PassInv, MarkInv, LoopInv, Typed, TypeOK
  <2>3. Covers(RefOf(i), ledger[i].digest)'
    BY <1>1, <2>1, <2>2, HeldGrows DEF RefOf
  <2> QED
    BY <1>1, <2>1, <2>2, <2>3 DEF CoveredAt
<1> QED
  BY <1>2, <1>3

\* After a step that counts an image as warmed, Zot answers its reference and
\* holds all it stands for.
LEMMA WarmedThen ==
    ASSUME PassInv', NEW i \in 1..Len(images), images' = images,
           ledger'[i].kind = "warmed"
    PROVE  i \in PresentAt' /\ i \in CoveredAt'
<1> USE DEF PassInv, LoopInv
<1>1. images'[i] \in Routed /\ i \in InZot'
  BY DEF VerdictInv, InZot
<1>2. Present(RefOf(i))'
  BY DEF OnceInv, PresentInv
<1>3. Covers(RefOf(i), ledger[i].digest)'
  BY DEF HeldInv, WarmedIsStored
<1>4. ledger'[i].digest # None
  BY <1>3, DigestAssumption DEF Covers, Typed, TypeOK, ZotTypeOK
<1> QED
  BY <1>1, <1>2, <1>3, <1>4 DEF PresentAt, CoveredAt

\* A step of the loop that files a verdict settles the image in hand.
LEMMA SettleStep ==
    ASSUME PassInv, PassInv', [Next]_vars, ledger' # ledger
    PROVE  Pass!Next
<1>1. images' = images /\ ledger \in [1..Len(images) -> Verdict] /\ Len(images) \in Nat
  BY LedgerStep, ListType DEF PassInv, LoopInv, Typed, TypeOK
<1>2. PICK kind \in Kinds \ {"pending"} : \E d : Files(kind, d)
  BY VerdictSteps
<1>3. PICK d : Files(kind, d)
  BY <1>2
<1>4. next \in 1..Len(images) /\ pc # "done" /\ pc' # "done"
  BY <1>3 DEF Files
<1>5. ledger'[next].kind = kind
  BY <1>1, <1>3, <1>4 DEF Files
<1>6. Verdicts' = [Verdicts EXCEPT ![next] = kind]
  BY <1>1, <1>3, <1>4 DEF Files, Verdicts
<1>7. cancelledAt # 0 => next = cancelledAt /\ kind \in {"warmed", "warm_error"}
  BY <1>3, <1>4
     DEF Files, PassInv, MarkInv, LoopInv, StopInv, Typed, TypeOK, Cancelled, Busy,
         Working, AtWarm
<1>8. kind = "cached" => next \in PresentAt
  BY <1>3, <1>4 DEF Files, PresentAt, InZot
<1>9. kind = "warmed" => next \in PresentAt' \cap CoveredAt'
  BY <1>1, <1>4, <1>5, WarmedThen
<1>10. kind \in Pass!Verdicts
  BY DEF Pass!Verdicts, Kinds
<1>11. /\ \A j \in 1..(next - 1) : Verdicts[j] # "pending"
       /\ Verdicts[next] = "pending"
  BY <1>1, <1>3, <1>4 DEF Files, Verdicts
<1>12. Pass!Settle(next, kind)
  BY <1>1, <1>3, <1>4, <1>6, <1>7, <1>8, <1>9, <1>11, PassGrows
     DEF Files, Pass!Settle, Pass!Pending, Pass!UpTo, Pass!Grow, Verdicts, PresentAt,
         CoveredAt
<1> QED
  BY <1>4, <1>10, <1>12 DEF Pass!Next

\* A step that files no verdict and leaves the end and the mark alone is at
\* most some pull of Zot's.
LEMMA FillStep ==
    ASSUME PassInv, [Next]_vars, images' = images, ledger' = ledger,
           cancelledAt' = cancelledAt, (pc' = "done") = (pc = "done")
    PROVE  Pass!Next
BY PassGrows
   DEF Pass!Next, Pass!Fill, Pass!Grow, PresentAt, CoveredAt

\* What a step leaves of the variables of the pass.
LEMMA SameZot ==
    ASSUME UNCHANGED <<zotVars, images, ledger>>
    PROVE  PresentAt' = PresentAt /\ CoveredAt' = CoveredAt /\ Verdicts' = Verdicts
<1>1. InZot' = InZot /\ \A i : RefOf(i)' = RefOf(i)
  BY DEF InZot, RefOf
<1>2. \A ref : Present(ref)' = Present(ref)
  BY DEF Present, zotVars
<1>3. \A ref, d : Covers(ref, d)' = Covers(ref, d)
  BY DEF Covers, zotVars
<1> QED
  BY <1>1, <1>2, <1>3 DEF PresentAt, CoveredAt, Verdicts

\* A signal interrupts the pass at the image in hand.
LEMMA CancelStep ==
    ASSUME PassInv, Cancel
    PROVE  Pass!Next
<1>1. /\ next \in 1..(Len(images) + 1) /\ Len(images) \in Nat
      /\ \A j \in 1..(next - 1) : Verdicts[j] # "pending"
  BY ListType
     DEF PassInv, LoopInv, Typed, TypeOK, LedgerInv, Settled, Verdicts
<1>2. UNCHANGED <<PresentAt, CoveredAt, Verdicts>>
  BY SameZot DEF Cancel
<1>3. Pass!Interrupt(next)
  BY <1>1, <1>2
     DEF Cancel, Cancelled, Pass!Interrupt, Pass!UpTo, Pass!Pending, Verdicts,
         PresentAt, CoveredAt
<1> QED
  BY <1>1, <1>3 DEF Pass!Next

\* The loop ends a pass that is complete, or interrupted.
LEMMA EndStep ==
    ASSUME PassInv, Finish \/ StopCancelled
    PROVE  Pass!Next
<1>1. next \in Nat /\ Len(images) \in Nat
  BY ListType DEF PassInv, LoopInv, Typed, TypeOK
<1>2. cancelledAt # 0 \/ \A j \in 1..Len(images) : Verdicts[j] # "pending"
  BY <1>1 DEF Finish, StopCancelled, Cancelled, PassInv, LoopInv, LedgerInv,
              Settled, Verdicts
<1>3. UNCHANGED <<PresentAt, CoveredAt, Verdicts>>
  BY SameZot DEF Finish, StopCancelled
<1>4. Pass!End
  BY <1>1, <1>2, <1>3
     DEF Finish, StopCancelled, Pass!End, Pass!UpTo, Pass!Pending, Verdicts,
         PresentAt, CoveredAt
<1> QED
  BY <1>4 DEF Pass!Next

\* Every step of the loop is one of the pass, or none.
LEMMA PassStep ==
    ASSUME PassInv, [Next]_vars
    PROVE  Pass!Next
<1>1. PassInv' /\ images' = images
  BY NextPass, LedgerStep DEF PassInv, LoopInv
<1>2. CASE ledger' # ledger
  BY <1>1, <1>2, SettleStep
<1>3. CASE Cancel
  BY <1>3, CancelStep
<1>4. CASE Finish \/ StopCancelled
  BY <1>4, EndStep
<1>5. ASSUME ledger' = ledger, ~Cancel, ~Finish, ~StopCancelled
      PROVE  Pass!Next
  <2>1. cancelledAt' = cancelledAt
    BY <1>5, Positions DEF PassInv, LoopInv
  <2>2. (pc' = "done") = (pc = "done")
    <3>1. LoopHead => pc = "loop" /\ pc' # "done"
      BY <1>5 DEF LoopHead, ParseFailure, SkipUnmapped, BeginProbe, TakesImage
    <3>2. Probe \/ Warm \/ Children \/ Sleep => pc # "done" /\ pc' # "done"
      BY GiveUpCases
         DEF Probe, ProbeHit, ProbeMiss, ProbeError, WarmManifest, WarmIndex,
             WarmChild, ChildrenDone, GiveUp, AtWarm, Sleep
    <3>3. Environment \/ UNCHANGED vars => pc' = pc
      BY DEF Environment, Cancel, vars, loopVars
    <3> QED
      BY <3>1, <3>2, <3>3 DEF Next, Step
  <2> QED
    BY <1>1, <1>5, <2>1, <2>2, FillStep
<1> QED
  BY <1>2, <1>3, <1>4, <1>5

\* A new run is a new pass.
LEMMA PassInit ==
    ASSUME Init
    PROVE  Pass!Init
<1>1. PICK list \in ImageLists : StartRun(list)
  BY DEF Init
<1>2. /\ images \in ImageLists
      /\ Verdicts = [i \in 1..Len(images) |-> "pending"]
      /\ CoveredAt = {}
      /\ PresentAt \subseteq 1..Len(images)
  BY <1>1 DEF StartRun, NewLedger, Verdicts, CoveredAt, PresentAt, InZot
<1> QED
  BY <1>1, <1>2 DEF StartRun, Pass!Init, Verdicts, CoveredAt, PresentAt

\* The loop implements the pass, but for its end: request by request, among
\* other clients, moving tags and signals, images are settled in order, once
\* each, with verdicts true of Zot, and after a signal only the one in hand.
THEOREM LoopIsPass == Spec => Pass!Safety
<1>1. Init => PassInv /\ Pass!Init
  BY InitPass, PassInit
<1>2. PassInv /\ [Next]_vars => PassInv'
  BY NextPass
<1>3. PassInv /\ [Next]_vars => [Pass!Next]_(Pass!vars)
  BY PassStep
<1> QED
  BY <1>1, <1>2, <1>3, PTL DEF Spec, Pass!Safety

=============================================================================
