------------------------------ MODULE Collector ------------------------------
(***************************************************************************)
(* kube.CollectImages: the workload kinds are listed one after the other,  *)
(* page by page, each List retried a bounded number of times, and the      *)
(* images of the objects the namespace filter lets through are put in one  *)
(* set, while the cluster changes and the API server answers the first     *)
(* page of a List from a watch cache that lags behind it.                  *)
(***************************************************************************)
EXTENDS Naturals, Sequences, FiniteSets

CONSTANTS
    KindOrder,      \* the kinds, in the order they are listed
    Objects,        \* the objects the cluster may hold: see Object
    Include,        \* namespaces to scan; {} for all
    Exclude,        \* namespaces not to scan
    Steps,          \* attempts of one List (transientBackoff.Steps)
    PageSize,       \* objects per page
    MaxChanges      \* bound on the changes of the cluster during the scan

\* images: the non-empty references of the init, main and ephemeral
\* containers of the pod spec.
Object(kinds, namespaces, refs) ==
    [kind : kinds, ns : namespaces, images : SUBSET refs]

ScanConstants ==
    /\ KindOrder \in Seq(STRING)
    /\ Objects \subseteq Object({KindOrder[k] : k \in 1..Len(KindOrder)},
                                {o.ns : o \in Objects},
                                UNION {o.images : o \in Objects})
    /\ Steps \in Nat \ {0}
    /\ PageSize \in Nat \ {0}
    /\ MaxChanges \in Nat

ASSUME CollectorAssumption == ScanConstants

VARIABLES
    live,       \* the objects of the cluster
    cache,      \* those the API server's watch cache has
    changes,    \* the number of changes so far
    lasting,    \* in the cluster and the cache since the scan began (history)
    cancelled,  \* ctx is cancelled or past its deadline
    kindNo,     \* position in KindOrder
    attempt,    \* attempt of the List in hand
    listing,    \* a page of this attempt has come and more are to come
    rest,       \* the objects of the pages to come
    found,      \* imageSet
    errs        \* the kinds in errs

clusterVars == <<live, cache, changes, lasting>>
scanVars    == <<kindNo, attempt, listing, rest, found, errs>>
vars        == <<clusterVars, scanVars, cancelled>>

Init ==
    /\ live \in SUBSET Objects
    /\ cache \in SUBSET Objects
    /\ changes = 0
    /\ lasting = live \cap cache
    /\ cancelled = FALSE
    /\ kindNo = 1
    /\ attempt = 1
    /\ listing = FALSE
    /\ rest = {}
    /\ found = {}
    /\ errs = {}

-----------------------------------------------------------------------------
(* The cluster.                                                             *)

Change(o) ==
    /\ changes < MaxChanges
    /\ changes' = changes + 1
    /\ live' = (live \ {o}) \cup ({o} \ live)
    /\ lasting' = lasting \ {o}
    /\ UNCHANGED <<cache, scanVars, cancelled>>

CacheCatchesUp ==
    /\ cache' = live
    /\ UNCHANGED <<live, changes, lasting, scanVars, cancelled>>

Cancel ==
    /\ cancelled' = TRUE
    /\ UNCHANGED <<clusterVars, scanVars>>

-----------------------------------------------------------------------------
(* The scan.                                                                *)

\* Filter.allowed
Allowed(ns) ==
    /\ Include = {} \/ ns \in Include
    /\ ns \notin Exclude

\* onItem: the filter, then extractImagesFromPodSpec, then add.
Images(objs) == UNION {o.images : o \in {x \in objs : Allowed(x.ns)}}

Finished == kindNo > Len(KindOrder)
Kind     == KindOrder[kindNo]

\* What the attempt has still to deliver: all of the kind as the watch cache
\* has it (resourceVersion 0), then what is left of that snapshot.
Snapshot == IF listing THEN rest ELSE {o \in cache : o.kind = Kind}

\* A new attempt, or a new kind, begins with the first page.
Restart == listing' = FALSE /\ rest' = {}

NextKind == kindNo' = kindNo + 1 /\ attempt' = 1 /\ Restart

Page(objs) ==
    /\ ~cancelled
    /\ found' = found \cup Images(objs)
    /\ UNCHANGED <<clusterVars, errs, cancelled>>

\* Mutant of MidPage: the continue token is not followed.
FirstPageOnly ==
    /\ ~Finished
    /\ \E objs \in SUBSET Snapshot :
           Cardinality(objs) = PageSize /\ objs # Snapshot /\ Page(objs)
    /\ NextKind

MidPage ==
    /\ ~Finished
    /\ \E objs \in SUBSET Snapshot :
           /\ Cardinality(objs) = PageSize
           /\ objs # Snapshot
           /\ Page(objs)
           /\ listing' = TRUE
           /\ rest' = Snapshot \ objs
    /\ UNCHANGED <<kindNo, attempt>>

\* The last page, or the only one: served from the watch cache, a List may
\* ignore the page size.
LastPage == ~Finished /\ Page(Snapshot) /\ NextKind

\* Mutant of Retry: the attempts are counted and not bounded.
RetryUnbounded ==
    /\ ~Finished
    /\ attempt' = attempt + 1
    /\ Restart
    /\ UNCHANGED <<clusterVars, kindNo, found, errs, cancelled>>

\* Mutant of Retry: the attempts are not counted.
RetryForever ==
    /\ ~Finished
    /\ Restart
    /\ UNCHANGED <<clusterVars, kindNo, attempt, found, errs, cancelled>>

\* 429, 500, 503, a time-out, a broken connection: the List is begun again
\* from its first page, and what its earlier pages added is kept.
Retry ==
    /\ ~Finished
    /\ attempt < Steps
    /\ attempt' = attempt + 1
    /\ Restart
    /\ UNCHANGED <<clusterVars, kindNo, found, errs, cancelled>>

\* A transient error of the last attempt, one that is not transient (403,
\* an expired continue token), or the context's own.
Fail ==
    /\ ~Finished
    /\ errs' = errs \cup {Kind}
    /\ NextKind
    /\ UNCHANGED <<clusterVars, found, cancelled>>

Scan == MidPage \/ LastPage \/ Retry \/ Fail

Next ==
    \/ Scan
    \/ \E o \in Objects : Change(o)
    \/ CacheCatchesUp
    \/ Cancel

\* Every request ends, at the latest with the client's 30 s time-out.
Spec == Init /\ [][Next]_vars /\ WF_vars(Scan)

-----------------------------------------------------------------------------

\* Every variable keeps its type.
TypeOK ==
    /\ live \subseteq Objects
    /\ cache \subseteq Objects
    /\ changes \in 0..MaxChanges
    /\ lasting \subseteq Objects
    /\ cancelled \in BOOLEAN
    /\ kindNo \in 1..(Len(KindOrder) + 1)
    /\ attempt \in 1..Steps
    /\ listing \in BOOLEAN
    /\ rest \subseteq Objects
    /\ found \subseteq UNION {o.images : o \in Objects}
    /\ errs \subseteq {KindOrder[k] : k \in 1..Len(KindOrder)}

\* No image is lost silently: those of an allowed object that was there all
\* along have been found when its kind is done, or the kind is reported to
\* have failed, whatever was retried, changed or listed in several pages.
NoSilentLoss ==
    \A o \in lasting :
        (/\ Allowed(o.ns)
         /\ \E k \in 1..(kindNo - 1) : KindOrder[k] = o.kind)
            => o.images \subseteq found \/ o.kind \in errs

\* On to the next kind, to a new attempt while there is one, or to the pages
\* that are left of the snapshot, which are fewer than before.
Narrows ==
    \/ kindNo < kindNo' /\ kindNo' <= Len(KindOrder) + 1
    \/ kindNo' = kindNo /\ attempt < attempt' /\ attempt' <= Steps
    \/ /\ UNCHANGED <<kindNo, attempt>>
       /\ listing'
       /\ listing => rest' \subseteq rest /\ rest' # rest

\* A List is not begun again without using up an attempt, and a page not
\* asked for twice in one: whatever fails and however the cluster changes, the
\* requests of a scan are bounded (streamAll with transientBackoff).
ListsBounded == [][Narrows \/ UNCHANGED scanVars]_vars

\* The scan ends even if every request of it fails: retries are bounded and a
\* kind that fails does not stop those after it (streamAll, CollectImages).
ScanEnds == <>Finished

=============================================================================
