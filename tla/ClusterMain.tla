----------------------------- MODULE ClusterMain -----------------------------
(***************************************************************************)
(* One run of cmd/zot-cache-warmer: configuration, the scan of Collector   *)
(* and the loop of Processor under one context, which a signal or the scan *)
(* time-out ends in the middle of either, and the exit code.               *)
(***************************************************************************)
EXTENDS Processor, FiniteSets

CONSTANTS KindOrder, Objects, Include, Exclude, Steps, PageSize, MaxChanges

VARIABLES
    live, cache, changes, lasting,              \* the cluster
    kindNo, attempt, listing, rest, found, errs,    \* the scan
    stage,      \* how far run() has got
    exit        \* the exit code; None while it runs, or when killed

\* The scan looks at the same context as the loop.
Cluster == INSTANCE Collector WITH cancelled <- Cancelled

scanState == <<live, cache, changes, lasting, kindNo, attempt, listing, rest,
               found, errs>>
mainVars  == <<vars, scanState, stage, exit>>

\* What stands for no exit code is not one.
ASSUME ExitAssumption == None \notin {0, 1, 2}

Stages == {"config", "client", "scan", "ready", "process", "exited"}

\* What the scan knows of the cluster and of its own settings.
ASSUME ScanAssumption == Cluster!ScanConstants

MainInit ==
    /\ ZotInit
    /\ StartRun(<<>>)
    /\ Cluster!Init
    /\ stage = "config"
    /\ exit = None

Exit(code) ==
    /\ stage' = "exited"
    /\ exit' = code
    /\ UNCHANGED <<vars, scanState>>

GoOn(from, to) ==
    /\ stage = from
    /\ stage' = to
    /\ UNCHANGED exit

-----------------------------------------------------------------------------
(* The program.                                                             *)

ConfigError == stage = "config" /\ Exit(2)

\* The context with its signal handler and its deadline is made here.
LoadConfig == GoOn("config", "client") /\ UNCHANGED <<vars, scanState>>

\* No service-account token.
ClientError == stage = "client" /\ Exit(1)

MakeClient == GoOn("client", "scan") /\ UNCHANGED <<vars, scanState>>

ScanStep ==
    /\ stage = "scan"
    /\ UNCHANGED <<vars, stage, exit>>
    /\ Cluster!Scan

NothingFound ==
    /\ stage = "scan"
    /\ Cluster!Finished
    /\ found = {}
    /\ Exit(0)

\* The orders in which a Go map may give its keys.
Orders(set) ==
    {f \in [1..Cardinality(set) -> set] : \A x \in set : \E i \in DOMAIN f : f[i] = x}

\* Before the scan there is no image, and the loop can be given whatever
\* subset of the cluster's images it comes to.
ASSUME OrdersAssumption ==
    /\ <<>> \in ImageLists
    /\ \A set \in SUBSET UNION {o.images : o \in Objects} :
           set # {} => Orders(set) \subseteq ImageLists

\* Mutant of HandOver: a run whose scan was partial does not warm.
HandOverWhole ==
    /\ Cluster!Finished
    /\ found # {}
    /\ GoOn("scan", "ready")
    /\ \E list \in IF errs = {} THEN Orders(found) ELSE {<<>>} :
           EnterLoopAt(list, IF Cancelled THEN 1 ELSE 0)
    /\ UNCHANGED <<zotVars, scanState>>

\* Mutant of HandOver: the loop is given a context of its own.
HandOverFresh ==
    /\ Cluster!Finished
    /\ found # {}
    /\ GoOn("scan", "ready")
    /\ \E list \in Orders(found) : EnterLoop(list)
    /\ UNCHANGED <<zotVars, scanState>>

\* What was found is warmed, errors or not.  Process has no error to return:
\* its checks of the URL repeat those of FromEnv.
HandOver ==
    /\ Cluster!Finished
    /\ found # {}
    /\ GoOn("scan", "ready")
    /\ \E list \in Orders(found) :
           EnterLoopAt(list, IF Cancelled THEN 1 ELSE 0)
    /\ UNCHANGED <<zotVars, scanState>>

StartLoop == GoOn("ready", "process") /\ UNCHANGED <<vars, scanState>>

Work == stage = "process" /\ Step /\ UNCHANGED <<scanState, stage, exit>>

\* Best effort: whatever became of the images.
Report == stage = "process" /\ pc = "done" /\ Exit(0)

Main == \/ ConfigError \/ LoadConfig \/ ClientError \/ MakeClient
        \/ ScanStep \/ NothingFound \/ HandOver
        \/ StartLoop \/ Work \/ Report

-----------------------------------------------------------------------------
(* What happens around it.                                                  *)

\* No handler is installed yet: a signal kills the process.
Killed == stage = "config" /\ Exit(None)

MainCancel ==
    /\ stage \notin {"config", "exited"}
    /\ Cancel
    /\ UNCHANGED <<scanState, stage, exit>>

\* The cluster matters to the scan, and Zot to the loop: what Zot's other
\* clients do earlier they may as well do when the loop is about to start.
ClusterStep ==
    /\ stage = "scan"
    /\ UNCHANGED <<vars, stage, exit>>
    /\ (\E o \in Objects : Cluster!Change(o)) \/ Cluster!CacheCatchesUp

ZotStep ==
    /\ stage \in {"ready", "process"}
    /\ ZotNext
    /\ UNCHANGED <<loopVars, scanState, stage, exit>>

MainNext == Main \/ Killed \/ MainCancel \/ ClusterStep \/ ZotStep

MainSpec == MainInit /\ [][MainNext]_mainVars /\ WF_mainVars(Main)

-----------------------------------------------------------------------------

MainTypeOK ==
    /\ TypeOK
    /\ Cluster!TypeOK
    /\ stage \in Stages
    /\ exit \in {0, 1, 2, None}

Wanted(o) ==
    {raw \in o.images : ~raw.malformed /\ HasMapping(Parse(raw))}

WarmFailed(raw) ==
    \E i \in 1..Len(images) : images[i] = raw /\ ledger[i].kind = "warm_error"

\* A run that ends by itself leaves no image of the cluster behind without a
\* word: each one a scanned object used all along is in Zot, or its own warm
\* failed, or its kind could not be listed, whatever failed for the other
\* images and kinds (run, CollectImages and processImages together).
EveryImageAccountedFor ==
    (exit = 0 /\ ~Cancelled) =>
        \A o \in lasting : Cluster!Allowed(o.ns) =>
            \A raw \in Wanted(o) :
                \/ Present(ZotRef(Parse(raw)))
                \/ WarmFailed(raw)
                \/ o.kind \in errs

\* The run has one context: wherever it ends, among the Lists or the images,
\* it stays ended, and from then on no image gets a verdict but the one in
\* hand, if there is one (the ctx of run() that CollectImages and Process
\* share).
StaysEnded ==
    Cancelled =>
        /\ Cancelled'
        /\ \A i \in DOMAIN ledger' :
               \/ ledger'[i].kind = "pending"
               \/ i \in DOMAIN ledger /\ (i = cancelledAt \/ ledger'[i] = ledger[i])

OneContext == [][StaysEnded]_mainVars

\* With its context made the program exits, however the API server and Zot
\* answer and whether or not a signal comes (run).
MainExits == stage = "client" ~> stage = "exited"

=============================================================================
