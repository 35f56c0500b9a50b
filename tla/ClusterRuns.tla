----------------------------- MODULE ClusterRuns -----------------------------
(***************************************************************************)
(* The runs of cmd/zot-cache-warmer one after the other, as the CronJob    *)
(* starts them: each lists the cluster anew and enters the loop of         *)
(* Processor with what it found, in the order a Go map gives it.  Nothing  *)
(* but Zot's contents passes from one run to the next, a pod may die at    *)
(* any point of a run, and runs never overlap (concurrencyPolicy Forbid).  *)
(***************************************************************************)
EXTENDS Processor

CONSTANT
    Workloads       \* the raw references of the cluster's pod specs

ASSUME WorkloadsAssumption == Workloads \subseteq RawImages

VARIABLE
    steady          \* Zot had everything the run found when it began (history)

clusterVars == <<vars, steady>>

AllPresent(list) ==
    \A i \in 1..Len(list) :
        ~list[i].malformed /\ HasMapping(Parse(list[i])) =>
            Present(ZotRef(Parse(list[i])))

ClusterInit == Init /\ steady = AllPresent(images)

\* The next scheduled run, or the container's restart.  A List call that
\* fails leaves images out, so any list may come; an empty one ends the run.
NextRun ==
    /\ pc = "done"
    /\ \E list \in ImageLists : EnterLoop(list) /\ steady' = AllPresent(list)
    /\ UNCHANGED zotVars

\* The pod is killed: eviction, activeDeadlineSeconds, a node failure.  With
\* no image left it would have finished, which is the same step.
PodDies ==
    /\ pc # "done"
    /\ ~(pc = "loop" /\ next > Len(images))
    /\ pc' = "done"
    /\ UNCHANGED <<zotVars, images, next, desc, child, stats, cancelledAt,
                   ledger, steady>>

RunStep == Step /\ UNCHANGED steady

ClusterEnvironment == PodDies \/ (Environment /\ UNCHANGED steady)

ClusterNext == RunStep \/ NextRun \/ ClusterEnvironment

ClusterSpec ==
    /\ ClusterInit
    /\ [][ClusterNext]_clusterVars
    /\ WF_clusterVars(RunStep)
    /\ WF_clusterVars(NextRun)

-----------------------------------------------------------------------------

\* The images of the workloads that have a place in Zot.
Wanted == {raw \in Workloads : ~raw.malformed /\ HasMapping(Parse(raw))}

\* The steps that keep a run from warming an image it was given.
Fault == \/ WarmError \/ IndexUnreadable \/ WarmChildError
         \/ Cancel \/ PodDies

FaultsEnd == <>[][~Fault]_clusterVars

\* Every run from some point on finds every workload.
ScansComplete ==
    <>[](\A raw \in Workloads : \E i \in 1..Len(images) : images[i] = raw)

\* Upstream serves, and goes on serving, a manifest for every tag.
Reachable == access = "ok" /\ [](\A ref \in TagRefs : upstream[ref] # None)

-----------------------------------------------------------------------------

\* A run that begins with everything it finds in Zot, and whose probes are
\* answered, warms nothing: it counts only cache hits, parse errors and skips,
\* after any history of crashes, cancellations and partial warms before it
\* (IsCached, "steady-state runs with most images cached").
SteadyRun ==
    (steady /\ stats.ProbeErrors = 0) =>
        stats.Warmed = 0 /\ stats.WarmErrors = 0 /\ pc \notin {"warm", "children"}

\* What was lost to a failed warm, a cancelled or a killed run is made up for
\* by later runs: if faults stop some day, every image wanted is in Zot from
\* then on, though probes may go on failing ("the next scheduled run will
\* retry naturally").
EventuallyCached ==
    (Reachable /\ ScansComplete /\ FaultsEnd) =>
        <>[](\A raw \in Wanted : Present(ZotRef(Parse(raw))))

\* Every architecture of an image is in Zot.
Complete(raw) ==
    LET ref == ZotRef(Parse(raw))
        d   == IF ref.digest = None THEN tagged[ref] ELSE ref.digest
    IN  /\ Present(ref)
        /\ d \in Indexes =>
               \A k \in 1..Len(Manifests[d]) :
                   <<ref.repo, Manifests[d][k]>> \in stored

WarmFailed(raw) ==
    \E i \in 1..Len(images) :
        images[i] = raw /\ ledger[i].kind = "warm_error"

\* What cmd/zot-cache-warmer/main.go:16-18 says: a per-image failure needs no
\* more than the next scheduled run, which retries it: what one run failed to
\* warm, with all its architectures, is warmed by a later one.
FailuresAreRetried ==
    (Reachable /\ ScansComplete /\ FaultsEnd) =>
        \A raw \in Wanted : WarmFailed(raw) ~> Complete(raw)

=============================================================================
