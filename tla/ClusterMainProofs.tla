-------------------------- MODULE ClusterMainProofs --------------------------
(***************************************************************************)
(* The run of zot-cache-warmer, for every cluster, filter, registry map    *)
(* and behaviour of the API server and of Zot: what CollectorProofs says   *)
(* of the scan and ProcessorProofs of the loop, put together by what run() *)
(* hands from the one to the other.                                        *)
(***************************************************************************)
EXTENDS ClusterMain, ProcessorProofs

\* The results about the scan, for the scan of this run.
Scanned == INSTANCE CollectorProofs WITH cancelled <- Cancelled

-----------------------------------------------------------------------------
(* The scan of ClusterMain is the one those results are about.              *)

LEMMA ScanSettings == Scanned!CollectorAssumption
BY ScanAssumption
   DEF Scanned!CollectorAssumption, Scanned!ScanConstants, Scanned!Object,
       Cluster!ScanConstants, Cluster!Object

LEMMA SameStates ==
    /\ Scanned!TypeOK <=> Cluster!TypeOK
    /\ Scanned!Finished <=> Cluster!Finished
    /\ \A ns : Scanned!Allowed(ns) <=> Cluster!Allowed(ns)
BY DEF Scanned!TypeOK, Scanned!Finished, Scanned!Allowed,
       Cluster!TypeOK, Cluster!Finished, Cluster!Allowed

LEMMA SameInit == Cluster!Init <=> Scanned!Init
BY DEF Scanned!Init, Cluster!Init

LEMMA SameScan == Cluster!Scan <=> Scanned!Scan
BY DEF Scanned!Scan, Scanned!MidPage, Scanned!LastPage, Scanned!Retry,
       Scanned!Fail, Scanned!Page, Scanned!NextKind, Scanned!Restart,
       Scanned!Finished, Scanned!Kind, Scanned!Snapshot, Scanned!Images,
       Scanned!Allowed, Scanned!clusterVars, Scanned!Cardinality,
       Scanned!IsFiniteSet,
       Cluster!Scan, Cluster!MidPage, Cluster!LastPage, Cluster!Retry,
       Cluster!Fail, Cluster!Page, Cluster!NextKind, Cluster!Restart,
       Cluster!Finished, Cluster!Kind, Cluster!Snapshot, Cluster!Images,
       Cluster!Allowed, Cluster!clusterVars, Cluster!Cardinality,
       Cluster!IsFiniteSet

LEMMA SameCluster ==
    /\ \A o : Cluster!Change(o) <=> Scanned!Change(o)
    /\ Cluster!CacheCatchesUp <=> Scanned!CacheCatchesUp
BY DEF Scanned!Change, Scanned!CacheCatchesUp, Scanned!scanVars,
       Cluster!Change, Cluster!CacheCatchesUp, Cluster!scanVars

-----------------------------------------------------------------------------
(* The invariant.                                                           *)

MainVarsOK == stage \in Stages /\ exit \in {0, 1, 2, None}

\* The context was cancelled at the image in hand or before it.
ContextInv == cancelledAt <= next

\* The scan is over and all that it found is in the list of the loop.
HandedOver ==
    /\ Cluster!Finished
    /\ \A raw \in found : \E i \in 1..Len(images) : images[i] = raw

\* How far the run has got: the loop begins with the hand-over, and only a
\* scan that found nothing or a loop that is done ends the run with code 0.
StageInv ==
    /\ stage \in {"ready", "process"} => HandedOver
    /\ pc = "done" => stage \in {"process", "exited"}
    /\ exit = 0 =>
           /\ stage = "exited"
           /\ Cluster!Finished
           /\ found = {} \/ (pc = "done" /\ HandedOver)

MainInv == LoopInv /\ ContextInv /\ Scanned!ScanInv /\ MainVarsOK /\ StageInv

\* At the start there is no image, no exit code, and a scan to be made.
LEMMA MainInitInv == MainInit => MainInv
<1> SUFFICES ASSUME MainInit PROVE MainInv
  OBVIOUS
<1>1. LoopInv
  BY OrdersAssumption, StartLoopInv DEF MainInit
<1>2. ContextInv /\ pc = "loop"
  BY DEF MainInit, StartRun, ContextInv
<1>3. Scanned!ScanInv
  BY ScanSettings, SameInit, Scanned!StartScanInv DEF MainInit
<1>4. MainVarsOK
  BY DEF MainInit, MainVarsOK, Stages
<1>5. StageInv
  BY <1>2, ExitAssumption DEF MainInit, StageInv
<1> QED
  BY <1>1, <1>2, <1>3, <1>4, <1>5 DEF MainInv

-----------------------------------------------------------------------------
(* The steps, as the loop and as the scan see them.                         *)

\* The loop takes one of its own steps, is left alone, or is entered with
\* what the scan has found.
LEMMA MainLoopSteps ==
    ASSUME [MainNext]_mainVars
    PROVE  [Next]_vars \/ HandOver
<1>1. CASE Main
  BY <1>1 DEF Main, ConfigError, LoadConfig, ClientError, MakeClient, ScanStep,
              NothingFound, StartLoop, Work, Report, Exit, Next
<1>2. CASE Killed \/ MainCancel \/ ClusterStep
  BY <1>2 DEF Killed, MainCancel, ClusterStep, Exit, Next, Environment
<1>3. CASE ZotStep \/ UNCHANGED mainVars
  BY <1>3 DEF ZotStep, Next, Environment, mainVars
<1> QED
  BY <1>1, <1>2, <1>3 DEF MainNext

\* The scan and the cluster take one of their own steps, in the stage of the
\* scan, or are left alone.
LEMMA MainScanSteps ==
    ASSUME [MainNext]_mainVars
    PROVE  \/ /\ stage = "scan"
              /\ \/ Scanned!Scan
                 \/ \E o \in Objects : Scanned!Change(o)
                 \/ Scanned!CacheCatchesUp
              /\ UNCHANGED <<vars, stage, exit>>
           \/ UNCHANGED scanState
<1>1. CASE Main
  BY <1>1, SameScan
     DEF Main, ConfigError, LoadConfig, ClientError, MakeClient, ScanStep,
         NothingFound, HandOver, StartLoop, Work, Report, Exit
<1>2. CASE Killed \/ MainCancel \/ ZotStep \/ UNCHANGED mainVars
  BY <1>2 DEF Killed, MainCancel, ZotStep, Exit, mainVars
<1>3. CASE ClusterStep
  BY <1>3, SameCluster DEF ClusterStep
<1> QED
  BY <1>1, <1>2, <1>3 DEF MainNext

\* A scan that has ended lists no more.
LEMMA ScanIsOver == Scanned!Scan => ~Cluster!Finished
BY ScanSettings, SameStates, Scanned!ScanKeeps

\* The list handed over is one the loop may be given, and has all that was
\* found.
LEMMA HandOverEnters ==
    ASSUME MainInv, HandOver
    PROVE  \E list \in ImageLists, at \in {0, 1} :
               /\ EnterLoopAt(list, at)
               /\ at = 0 => ~Cancelled
               /\ at = 1 => Cancelled
               /\ \A raw \in found : \E i \in 1..Len(list) : list[i] = raw
<1>1. PICK list \in Orders(found) : EnterLoopAt(list, IF Cancelled THEN 1 ELSE 0)
  BY DEF HandOver
<1>2. found # {} /\ found \subseteq UNION {o.images : o \in Objects}
  BY SameStates DEF HandOver, MainInv, Scanned!ScanInv, Cluster!TypeOK
<1>3. list \in ImageLists
  BY <1>1, <1>2, OrdersAssumption
<1>4. DOMAIN list = 1..Len(list)
  BY <1>3, ListAssumption
<1>5. \A raw \in found : \E i \in 1..Len(list) : list[i] = raw
  BY <1>1, <1>4 DEF Orders
<1> QED
  BY <1>1, <1>3, <1>5

-----------------------------------------------------------------------------
(* The invariant is kept.                                                   *)

\* The loop inside the program keeps all that holds of it.
LEMMA MainLoopInv ==
    ASSUME MainInv, [MainNext]_mainVars
    PROVE  LoopInv'
<1>1. CASE [Next]_vars
  BY <1>1, NextLoop DEF MainInv
<1>2. CASE HandOver
  <2>1. ZotTypeOK'
    BY <1>2, ZotUnchanged DEF HandOver, MainInv, LoopInv, Typed, TypeOK
  <2> QED
    BY <1>2, <2>1, HandOverEnters, EnterLoopInv
<1> QED
  BY <1>1, <1>2, MainLoopSteps

\* So does the scan.
LEMMA MainScanInv ==
    ASSUME MainInv, [MainNext]_mainVars
    PROVE  Scanned!ScanInv'
<1>1. Scanned!ScanInv /\ Cancelled' \in BOOLEAN
  BY DEF MainInv, Cancelled
<1>2. CASE \/ Scanned!Scan
           \/ \E o \in Objects : Scanned!Change(o)
           \/ Scanned!CacheCatchesUp
  BY <1>1, <1>2, ScanSettings, Scanned!NextScanInv DEF Scanned!Next
<1>3. CASE UNCHANGED scanState
  BY <1>1, <1>3, ScanSettings, Scanned!IdleScanInv
     DEF scanState, Scanned!clusterVars, Scanned!scanVars
<1> QED
  BY <1>2, <1>3, MainScanSteps

\* The context was cancelled no later than at the image in hand.
LEMMA MainContextInv ==
    ASSUME MainInv, [MainNext]_mainVars
    PROVE  ContextInv'
<1>1. CASE [Next]_vars
  BY <1>1, Positions DEF MainInv, LoopInv, Typed, TypeOK, ContextInv
<1>2. CASE HandOver
  BY <1>2, HandOverEnters DEF EnterLoopAt, ContextInv
<1> QED
  BY <1>1, <1>2, MainLoopSteps

\* Every step keeps the stage and the exit code typed.
LEMMA MainVarsTyped ==
    ASSUME MainVarsOK, [MainNext]_mainVars
    PROVE  MainVarsOK'
<1> USE DEF MainVarsOK, Stages
<1>1. CASE Main
  BY <1>1 DEF Main, ConfigError, LoadConfig, ClientError, MakeClient, ScanStep,
              NothingFound, HandOver, StartLoop, Work, Report, Exit, GoOn
<1>2. CASE Killed \/ MainCancel \/ ClusterStep \/ ZotStep \/ UNCHANGED mainVars
  BY <1>2 DEF Killed, MainCancel, ClusterStep, ZotStep, Exit, mainVars
<1> QED
  BY <1>1, <1>2 DEF MainNext

\* What is handed over stays the list, and what was found stays found.
LEMMA HandedOverStays ==
    ASSUME HandedOver, images' = images, UNCHANGED scanState
    PROVE  HandedOver'
BY DEF HandedOver, scanState, Cluster!Finished

\* The scan comes before the loop, and the exit after both.
LEMMA MainStageInv ==
    ASSUME MainInv, [MainNext]_mainVars
    PROVE  StageInv'
<1> USE ExitAssumption DEF StageInv
<1>1. StageInv
  BY DEF MainInv
<1>2. CASE ConfigError \/ ClientError \/ Killed
  <2>1. /\ stage \in {"config", "client"} /\ stage' = "exited"
        /\ exit' \in {1, 2, None}
        /\ UNCHANGED vars
    BY <1>2 DEF ConfigError, ClientError, Killed, Exit
  <2> QED
    BY <1>1, <2>1 DEF vars, loopVars
<1>3. CASE LoadConfig \/ MakeClient
  <2>1. /\ stage \in {"config", "client"} /\ stage' \in {"client", "scan"}
        /\ UNCHANGED <<vars, exit>>
    BY <1>3 DEF LoadConfig, MakeClient, GoOn
  <2> QED
    BY <1>1, <2>1 DEF vars, loopVars
<1>4. CASE ScanStep \/ ClusterStep
  <2>1. stage = "scan" /\ UNCHANGED <<vars, stage, exit>>
    BY <1>4 DEF ScanStep, ClusterStep
  <2> QED
    BY <1>1, <2>1 DEF vars, loopVars
<1>5. CASE NothingFound
  <2>1. /\ stage = "scan" /\ stage' = "exited" /\ exit' = 0
        /\ Cluster!Finished /\ found = {}
        /\ UNCHANGED <<vars, scanState>>
    BY <1>5 DEF NothingFound, Exit
  <2> QED
    BY <1>1, <2>1 DEF vars, loopVars, scanState, Cluster!Finished
<1>6. CASE HandOver
  <2>1. /\ stage = "scan" /\ stage' = "ready" /\ exit' = exit
        /\ Cluster!Finished
        /\ UNCHANGED scanState
    BY <1>6 DEF HandOver, GoOn
  <2>2. pc' = "loop" /\ \A raw \in found : \E i \in 1..Len(images') : images'[i] = raw
    BY <1>6, HandOverEnters DEF EnterLoopAt
  <2>3. HandedOver'
    BY <2>1, <2>2 DEF HandedOver, scanState, Cluster!Finished
  <2> QED
    BY <1>1, <2>1, <2>2, <2>3
<1>7. CASE StartLoop \/ Work \/ MainCancel \/ ZotStep
  <2>1. /\ UNCHANGED <<scanState, exit>>
        /\ \/ stage = "ready" /\ stage' = "process" /\ UNCHANGED vars
           \/ stage' = stage
    BY <1>7 DEF StartLoop, GoOn, Work, MainCancel, ZotStep
  <2>2. images' = images
    BY <1>7, FilingSteps
       DEF StartLoop, Work, MainCancel, ZotStep, Next, Environment, vars,
           loopVars, MainInv, LoopInv
  <2>3. \/ pc' = pc
        \/ stage = "process"
    BY <1>7 DEF StartLoop, Work, MainCancel, Cancel, ZotStep, vars, loopVars
  <2>4. exit # 0
    BY <1>1, <1>7 DEF StartLoop, GoOn, Work, MainCancel, ZotStep
  <2> QED
    BY <1>1, <2>1, <2>2, <2>3, <2>4, HandedOverStays
<1>8. CASE Report
  <2>1. /\ stage = "process" /\ stage' = "exited" /\ pc = "done"
        /\ UNCHANGED <<vars, scanState>>
    BY <1>8 DEF Report, Exit
  <2>2. HandedOver' /\ HandedOver /\ pc' = "done"
    BY <1>1, <2>1, HandedOverStays DEF vars, loopVars
  <2> QED
    BY <2>1, <2>2 DEF HandedOver
<1>9. CASE UNCHANGED mainVars
  <2>1. UNCHANGED <<vars, scanState, stage, exit>>
    BY <1>9 DEF mainVars
  <2> QED
    BY <1>1, <2>1, HandedOverStays
       DEF vars, loopVars, scanState, Cluster!Finished
<1> QED
  BY <1>2, <1>3, <1>4, <1>5, <1>6, <1>7, <1>8, <1>9 DEF MainNext, Main

\* The invariant of the run holds in every reachable state.
LEMMA AlwaysMain == MainSpec => []MainInv
<1>1. MainInit => MainInv
  BY MainInitInv
<1>2. MainInv /\ [MainNext]_mainVars => MainInv'
  BY MainLoopInv, MainScanInv, MainContextInv, MainVarsTyped, MainStageInv
     DEF MainInv
<1> QED
  BY <1>1, <1>2, PTL DEF MainSpec

-----------------------------------------------------------------------------
(* What the run promises.                                                   *)

\* Every variable of the run, of its scan and of its loop keeps its type.
THEOREM MainTypeCorrect == MainSpec => []MainTypeOK
<1>1. MainInv => MainTypeOK
  BY SameStates
     DEF MainInv, MainVarsOK, MainTypeOK, LoopInv, Typed, Scanned!ScanInv
<1> QED
  BY <1>1, AlwaysMain, PTL

\* A scan that is over has found what was there all along, or says which kind
\* it could not list.
LEMMA AllFound ==
    ASSUME MainInv, Cluster!Finished, NEW o \in lasting, Cluster!Allowed(o.ns)
    PROVE  o.images \subseteq found \/ o.kind \in errs
BY ScanSettings, SameStates, Scanned!ScanFound DEF MainInv

\* A loop that is done and was not cancelled has an answer for every image of
\* its list that has a place in Zot.
LEMMA AllWarmed ==
    ASSUME MainInv, pc = "done", ~Cancelled, NEW i \in 1..Len(images),
           ~images[i].malformed, HasMapping(Parse(images[i]))
    PROVE  Present(RefOf(i)) \/ ledger[i].kind = "warm_error"
<1>1. ledger[i].kind \in Kinds
  BY DEF MainInv, LoopInv, Typed, TypeOK, Verdict
<1>2. ledger[i].kind # "pending"
  BY ListType DEF MainInv, LoopInv, Typed, TypeOK, LedgerInv, Settled, StopInv
<1>3. ledger[i].kind \notin {"parse_error", "skipped"}
  BY DEF MainInv, LoopInv, VerdictInv
<1>4. ledger[i].kind \in {"cached", "warmed"} => Present(RefOf(i))
  BY DEF MainInv, LoopInv, HeldInv, CachedIsPresent, OnceInv, PresentInv
<1> QED
  BY <1>1, <1>2, <1>3, <1>4 DEF Kinds

\* Found, handed over, and warmed or reported.
LEMMA Accounted == MainInv => EveryImageAccountedFor
<1> SUFFICES ASSUME MainInv, exit = 0, ~Cancelled,
                    NEW o \in lasting, Cluster!Allowed(o.ns),
                    NEW raw \in Wanted(o), o.kind \notin errs
             PROVE  Present(ZotRef(Parse(raw))) \/ WarmFailed(raw)
  BY DEF EveryImageAccountedFor
<1>1. Cluster!Finished /\ (found = {} \/ (pc = "done" /\ HandedOver))
  BY DEF MainInv, StageInv
<1>2. raw \in found /\ ~raw.malformed /\ HasMapping(Parse(raw))
  BY <1>1, AllFound DEF Wanted
<1>3. PICK i \in 1..Len(images) : images[i] = raw
  BY <1>1, <1>2 DEF HandedOver
<1>4. Present(RefOf(i)) \/ ledger[i].kind = "warm_error"
  BY <1>1, <1>2, <1>3, AllWarmed
<1> QED
  BY <1>3, <1>4 DEF RefOf, WarmFailed

\* A run that ends by itself leaves no image of the cluster behind without a
\* word, however the API server, Zot, the cluster and its users interleave
\* with it, and whatever fails for other images and kinds.
THEOREM NoImageForgotten == MainSpec => []EveryImageAccountedFor
BY Accounted, AlwaysMain, PTL

\* With its context ended the loop files a verdict on the image in hand alone,
\* and that image is the one at which it ended.
LEMMA OnlyTheOneInHand ==
    ASSUME MainInv, Cancelled, [Next]_vars
    PROVE  /\ Cancelled'
           /\ DOMAIN ledger' = DOMAIN ledger
           /\ \A i \in DOMAIN ledger : i = cancelledAt \/ ledger'[i] = ledger[i]
<1>1. Typed /\ ContextInv /\ StopInv
  BY DEF MainInv, LoopInv
<1>2. Cancelled'
  BY <1>1, Positions DEF Cancel, Cancelled
<1>3. /\ DOMAIN ledger = 1..Len(images)
      /\ DOMAIN ledger' = 1..Len(images)
  <2>1. Typed' /\ images' = images
    BY <1>1, NextTyped, FilingSteps
  <2> QED
    BY <1>1, <2>1 DEF Typed, TypeOK
<1>4. CASE ledger' = ledger
  BY <1>2, <1>3, <1>4
<1>5. CASE \/ ParseFailure \/ SkipUnmapped \/ ProbeHit \/ WarmManifest
           \/ ChildrenDone \/ (GiveUp /\ AtWarm)
  <2>1. ChildrenDone \/ (GiveUp /\ AtWarm)
    BY <1>5 DEF ParseFailure, SkipUnmapped, TakesImage, ProbeHit, WarmManifest,
                Answers
  <2>2. Busy /\ \E kind, d : Settle(kind, d)
    BY <2>1 DEF ChildrenDone, GiveUp, AtWarm, Busy, Working
  <2>3. next = cancelledAt
    BY <1>1, <2>2, ListType DEF StopInv, ContextInv, Typed, TypeOK
  <2>4. \A i \in DOMAIN ledger : i = next \/ ledger'[i] = ledger[i]
    BY <2>2 DEF Settle
  <2> QED
    BY <1>2, <1>3, <2>3, <2>4
<1> QED
  BY <1>1, <1>4, <1>5, FilingSteps

\* The scan and the loop are given the same context: once it has ended, in the
\* one or in the other, it stays ended for the rest of the run, and no image
\* gets a verdict but the one that was in hand.
THEOREM ContextIsOne == MainSpec => OneContext
<1>1. ASSUME MainInv, [MainNext]_mainVars
      PROVE  StaysEnded
  <2>1. CASE [Next]_vars
    BY <1>1, <2>1, OnlyTheOneInHand DEF StaysEnded
  <2>2. CASE HandOver
    <3>1. Cancelled => \E list \in ImageLists : EnterLoopAt(list, 1)
      BY <1>1, <2>2, HandOverEnters
    <3> QED
      BY <3>1 DEF EnterLoopAt, NewLedger, Cancelled, StaysEnded
  <2> QED
    BY <1>1, <2>1, <2>2, MainLoopSteps
<1> QED
  BY <1>1, AlwaysMain, PTL DEF MainSpec, OneContext

=============================================================================
