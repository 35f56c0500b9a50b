# zot-cache-warmer in TLA+

zot-cache-warmer fills the cache of a Zot pull-through registry before nodes
need it: for every image reference it is given it asks Zot with a HEAD whether
the manifest is there, and if not makes Zot fetch it with a GET, and then the
platform manifests of an index one by one. Two commands share that loop:
`zot-cache-warmer` runs as a CronJob and takes its references from the pod
specs of the cluster; `zot-warm` takes them from an argument, a file or
standard input, and its exit code serves as a gate in CI.

This directory holds a TLA+ model of the program, TLC configurations that check
it on small instances, and TLAPS proofs of its safety for instances of any size. To
run them, with the community modules on the path:

    tlasany M.tla
    tlc -config X.cfg M
    tlapm XProofs.tla

Contents: [Inventory](#inventory) · [Modules](#modules-and-the-code) ·
[Runs](#runs-and-bounds) · [Fairness](#fairness) · [Proofs](#proofs) ·
[Findings](#where-code-and-documentation-disagree) · [Not modelled](#not-modelled) · [Plan](#plan)

## Inventory

| Component | State it keeps | Operations | Hard behaviour | What makes it correct |
|---|---|---|---|---|
| Reference parser (`internal/parser`) | none | `Parse`, `ClassifyError`, `Sanitize` | normalisation of Docker Hub names, `repo:tag@digest` | one image has one registry and one Zot reference; latest only where nothing is given |
| Zot client (`internal/registry`) | credentials, transport | `IsCached` (HEAD), `Warm` (GET), `WarmMultiArch`, `strippedBase` | a child that fails; a tag that moves between index and children; ambiguous errors | only a 404 is a miss, only a 200 a hit; "warmed" means index and children |
| Warming loop (`internal/processor`) | `Stats`, position in the list | `Process`, `processImages`, `sleep` | cancellation between and within images; failed probes; continue versus fall-through | each image has exactly one outcome; the outcome is true of Zot |
| `zot-warm` (`cmd/zot-warm`) | none | `run`, `exitCode` | signals before and after the handler, the scan time-out, `--soft` | exit 0 means the images are there; the code classifies the run; it exits |
| `zot-cache-warmer` (`cmd/zot-cache-warmer`, `deploy/cronjob.yaml`) | none, between runs only Zot's cache | `run` | killed pods, partial scans, failed warms: all left to the next run | what a run lost later runs make up for; a run with everything cached fetches nothing |
| Cluster scan (`internal/kube`) | set of references, list of errors | `CollectImages`, `streamAll`, `Filter.allowed` | pages, retries that begin again, a lagging watch cache, a changing cluster | nothing lost without an error; the filter holds; bounded retries |
| Input of `zot-warm` (`internal/input`) | none | `Collect`, `detectMode`, extraction | guessing the form of the input, limits, a file that comes and goes | every reference is found, and nothing else taken for one |
| Configuration (`internal/cli`, `internal/config`) | none | `Load`, `Validate`, `FromEnv`, registry map parsing | precedence of five sources, malformed values, two parsers of one map | both commands understand one environment alike; what is invalid is refused |
| Time-outs (`processor`, `registry`, `cronjob.yaml`) | deadlines of nested contexts | derivation of contexts, header time-out, attempts, the Job's deadline | which of them ends a request first | a run ends before its Job, an image before its run |

How they interact: a command reads its configuration, gets a list of references
(`CollectImages` or `input.Collect`) and calls `processor.Process` with it and a
context. The context is cancelled by SIGINT, SIGTERM or the end of the scan
time-out; it is the only thing shared with another thread of control. The loop
calls the parser and the Zot client in sequence, one image after the other.
Everything concurrent is outside the process: Zot's own pulls (which may outlive
the request that started them), its other clients, the upstream registries that
move tags, the API server, the kubelet. Successive runs share nothing but the
contents of Zot.

The hazards that follow from this, each at its line, are listed in
`PROJECT.json` with the property that watches it.

## Modules and the code

How they build on each other:

    References ── Zot ── Processor ──┬── ZotWarm
         │                 │         ├── ClusterRuns
         │                 │         └── ClusterMain ── (INSTANCE) Collector
         │                 └── (INSTANCE, refined) WarmPass
         └── (INSTANCE) Routing

    Input, Settings, Budgets: on their own

- **References** — `parser.Parse` and the way `processImages` makes a Zot
  reference of the result. A raw reference is a record of host, path, tag and
  digest, or `malformed`, which stands for every refusal of `preValidate` and
  of the reference library. The registry map is a function from hosts to path
  prefixes; empty, it is the flatten layout, and otherwise it is strict.
- **Zot** — the registry, which is not in the repository, as the code uses it
  (`warmer.go`). `stored` is the set of manifests it holds per repository,
  `tagged` what it has under each tag, `upstream` what the upstream serves now.
  `Present` is what a HEAD finds, `Served` what a GET is answered with, `Store`
  what it leaves behind. `PullThrough`, `PullChild` and `MoveTag` happen at any
  time. `access` says whether the warmer can reach Zot and is let in.
- **Processor** — `processImages` with the client calls it makes. `pc` is the
  place in the loop body; a step is one request with the bookkeeping that
  follows its answer, or one turn of the loop head.

  | Action | Code |
  |---|---|
  | `Finish`, `StopCancelled` | the end of the range loop; the `ctx.Err()` check |
  | `ParseFailure`, `SkipUnmapped`, `BeginProbe` | the three ways through the loop head, with their counters |
  | `ProbeHit`, `ProbeMiss`, `ProbeError` | the answer of HEAD: 200, 404, anything else (which falls through to the GET) |
  | `WarmManifest`, `WarmIndex`, `WarmError`, `IndexUnreadable` | the answer of the GET; `WarmMultiArch` goes on with an index, `Warm` never does; a stored index whose body cannot be read |
  | `WarmChild`, `WarmChildError`, `ChildrenDone` | the loop over the children, which ends with the first error |
  | `Sleep` | the pause and the step to the next image |
  | `Cancel` | a signal or the scan time-out, at any moment |

  Any request may fail (`ProbeError` and the other error actions are enabled
  whatever Zot would answer), and once the context is cancelled every request
  does. `ledger`, `cancelledAt` are history variables: the verdict on each
  image with the digest its GET was answered with, and the image in hand when
  the context was cancelled.
- **WarmPass** — what `Process` promises of a pass, without requests: positions
  of a list are settled in order, each once, "cached" only what the registry
  answers and "warmed" only what the pass has fetched with all it stands for;
  an interrupted pass settles at most the position in hand, and by an attempt to
  warm; the registry forgets nothing; the pass ends. `Pass` in Processor is the
  refinement mapping: `verdict` is the kind of each ledger entry, `present` the
  images whose reference Zot answers, `covered` those whose served digest Zot
  holds with its children. Requests, children, other clients' pulls and moves of
  tags are stutters or `Fill`.
- **ZotWarm** extends Processor with `run` of `cmd/zot-warm`: every return
  before the context exists, during which a signal kills the process (`Killed`);
  `Process`, which may fail to initialise; `exitCode`.
- **ClusterRuns** extends Processor with the sequence of runs of
  `cmd/zot-cache-warmer`. `NextRun` enters the loop with any list, because the
  scan may have been partial and because a Go map gives it in any order.
  `PodDies` ends a run at any point.
- **ClusterMain** extends Processor with one whole run of
  `cmd/zot-cache-warmer` and instantiates Collector for its scan, with
  `cancelled <- Cancelled`: the context is one variable of the composition.
  `NothingFound` and `HandOver` are the two ways from the scan to the end or
  the loop; the list is any order of what was found. Cluster changes are steps
  while the scan reads the cluster, and Zot's other clients while the loop
  asks Zot: earlier or later steps of theirs the other part cannot tell apart.
- **Collector** — `CollectImages`: `kindNo` is the List call in the sequence of
  seven, `attempt` the retry, `rest` the pages to come of the snapshot the
  attempt reads. `MidPage` and `LastPage` deliver objects to `onItem`, `Retry`
  and `Fail` are the two ways an error goes. The cluster changes under it, and
  the first page of each attempt comes from a watch cache that lags
  (`ResourceVersion: "0"`), which may also ignore the page size and answer with
  everything at once.
- **Routing** — one reference on its way to a request. Here references become
  text: sequences of tokens, which are separators, path components, tags and
  digests. Of the characters of a component only a dot and a colon matter
  (`Dotted`, `Ported`): a dot or a colon in the first makes it a host, and a
  colon is one that a search for the tag may stop at. `RefText` is what
  `processImages` writes, `ParseReference` how the registry library reads it
  (outside the repository), `strippedBase` what children are addressed by.
  `NodeRequest` is what containerd asks for with the mirrors of
  `docs/registries.yaml`, the other side of the agreement that the documentation
  requires. The map is a variable that never changes (`layout`), so that one run
  sees several.
- **Input** — `input.Collect`. A document is a sequence of lines classified by
  what the two regular expressions, the JSON decoder and the plain scanner tell
  apart; `detectMode`, `Candidate` and `looksLikeImageRef` are the functions of
  the code over such lines. The file system may change between `os.Stat` and
  `os.Open`; the limit may cut a line.
- **Settings** — `cli.Load` and `config.FromEnv`. Settings do not depend on each
  other, so a behaviour is about one of the six that are interpreted, with a
  value, or none, in each source. Strings are classified by constants (`Integer`,
  `Duration`, `Slashed`, ...); a map's text is a sequence of entries.
- **Budgets** — time. `now` counts units from the start of the Job; `Tick` is
  possible only while the program waits and no time-out is due. The other steps
  take no time. `CtxEnd` is the earlier of the image's and the run's deadline,
  `Late` the transport's time-out on response headers.
- **ProcessorProofs**, **ClusterMainProofs**, **CollectorProofs**,
  **RoutingProofs**, **InputProofs**, **SettingsProofs**, **BudgetsProofs** — the
  theorems about the module each is named after; **CommandsProofs** — those about
  ZotWarm and ClusterRuns. CommandsProofs and ClusterMainProofs build on
  ProcessorProofs, whose loop their commands embed, and ClusterMainProofs on an
  instance of CollectorProofs.
- **MC...** — instances for TLC, one per specification.

A definition called "mutant of X" is not part of the model: it is a changed
version of X, standing for a plausible bug, with which the property that should
notice it is seen to fail.

## Runs and bounds

| Run | Checks | Shows |
|---|---|---|
| `processor` (MCProcessor) | `TypeOK`, `Accounting`, `WarmedIsStored`, `CachedIsPresent`, `WarmedOnce`, `CancelBound`, `OnlyCancellationDrops`, `NoRequestRepeats`, `ImplementsPass` | One run of the loop: each image has one outcome, the outcome is true of Zot, no call of the client is made a second time for an image, and the loop implements WarmPass, liveness included. |
| `zot_warm` (MCZotWarm) | `CliTypeOK`, `GateSound`, `ExitClassifies`, `Exits` | Exit 0 of a strict run that was not interrupted means every mapped image is in Zot; if Zot let it in, the exit code follows from the outcomes; the program exits. |
| `cluster_runs` (MCClusterRuns) | `SteadyRun`, `EventuallyCached` | A run that finds everything cached fetches nothing; once faults stop every image is in Zot for good. |
| `collector` (MCCollector) | `TypeOK`, `NoSilentLoss`, `ListsBounded`, `ScanEnds` | What is in the cluster throughout and passes the filter is found or its kind reported; each step uses up a kind, an attempt or a page, and the scan ends. |
| `cluster_main` (MCClusterMain) | `MainTypeOK`, `EveryImageAccountedFor`, `OneContext`, `MainExits` | A run that is not interrupted leaves each image of the cluster in Zot, with a warm error, or with a list error for its kind; the context, once ended, ends both parts; the program exits. |
| `routing` (MCRouting) | `NodeFindsIt`, `ChildrenBesideIndex`, `CollisionsNeedOverlap` | Warmer and node meet in Zot; children are asked for beside their index; references of two repositories share a Zot reference only where the map's prefixes overlap, and two of one repository only if they have one tag, or no tag and one digest. |
| `input` (MCInput) | `OnlyImageKeys`, `NoneMissed`, `CutAtOnePlace` | A document that can be told for a manifest yields nothing but image values; one in a documented form loses no reference that has a slash or a colon; of one over the limit only the reference at the cut is changed, as long as its form is still in sight. |
| `settings` (MCSettings) | `MapsAgree` | One map text means the same to both commands, or is refused by both. |
| `budgets` (MCBudgets) | `EndsBeforeJob`, `ImageBounded` | The run is over before the Job's deadline; one image takes at most one probe and one warm time-out. |

Three more runs check one sentence each of a comment that the code does not keep;
see [below](#where-code-and-documentation-disagree).

Bounds, and why they are enough for what they are meant to show:

- *References.* At most four per list. Verdicts of different images interact
  only through Zot and through the position in the list, so the lists of
  MCProcessor are about one repository: `<<App, Broken, AppLong, AppIdx>>` has
  an image without a tag, the same under a legacy host and with tag and digest,
  and an index pinned by digest; the pin also comes first; `Other` is pinned in a
  second repository. An unmapped or a malformed reference is in between, first
  or last, and one list is empty. MCZotWarm and MCClusterRuns have lists of up
  to two.
- *Manifests.* One index of two children and one plain manifest: the fewest
  with a first child that is stored when the second fails. The tag may name
  either, or nothing.
- *`MaxMoves`* is 1 in MCProcessor: one move of a tag can fall between HEAD and
  GET, or between an index and its children. In the runs whose properties ask
  only whether a tag is there it is 0: a moved tag is still there. Proofs leave
  it free.
- *Faults* are not bounded anywhere: any request may fail, any run may be
  cancelled or killed.
- *Collector.* Three of the seven kinds (all seven are listed by the same code),
  page size 1, two objects of one kind in scanned namespaces, so that a List has
  a middle and a last page; two attempts (`Steps`, 6 in the code), so that there
  is one that may be repeated and one that may not; one change of the cluster
  (`MaxChanges`) besides any number of refreshes of the watch cache.

- *ClusterMain.* Two kinds with one object each, of which one has two images,
  two attempts, one change of the cluster: a scan may find everything, one kind,
  or nothing, with or without an error, and may be interrupted at each place.
  Tags do not move (`MaxMoves` 0); pages and namespaces are Collector's.
- *Routing.* Eight hosts (all names of Docker Hub, the two of Kubernetes, one
  unknown) times four paths (one component, `library/`, two, and one with a dot)
  times every combination of tag and two digests, under six maps: none, the default
  (cut to three registries), one whose prefixes overlap, one with prefixes of
  two components, one keyed by another name of Docker Hub, one whose prefixes
  look like hosts. `Aligned` and `Plain` say for
  which of them `NodeFindsIt` is meant. Two children are enough
  for `ChildrenBesideIndex`, which compares requests in pairs.
- *Input.* All documents of up to three lines of ten sorts, with the limit after
  any of them and a JSON value that ends on any: a third line is enough for a
  marker before, between and after references, for a cut in the middle of one,
  and for something after the value.
- *Settings.* For each setting a good value, those which the loaders treat
  differently, and refused ones; map texts of up to two entries, and of three
  in which a key may come again after others. A file may have the map as a map,
  as a text, or as something else.
- *Budgets.* The default time-outs in units of ten seconds, the largest in which
  all are whole numbers; two images, because the second begins at any time and
  has the end of the run before it or not; at most one child, because the
  children of an index share a budget; a Job whose context is made at once or
  after four and a half minutes, the latest at which a run of 15 minutes fits
  into the Job's 20 with time left for the report. A pod that starts later, and
  the second one that `backoffLimit` allows, are left out: they may be killed,
  which is `PodDies` of ClusterRuns.

Deadlock is checked for ClusterRuns and Collector. The other specifications end,
and their configurations say so with `CHECK_DEADLOCK FALSE`; that they end only
where they should is `Exits`, `MainExits`, `OnlyCancellationDrops` and `End` of
WarmPass.

## Fairness

- Processor has weak fairness on `Step` as a whole. Each request is bounded by
  the probe or the warm time-out, after which an error action is the program's
  step, so the loop never rests. Which of the enabled answers comes is left
  open: no fairness is asked of success.
- ZotWarm has weak fairness on `Process`, none on `SetUp`: standard input is
  read before the context exists, and may never end. `Exits` therefore begins
  where the input has been read.
- ClusterMain has weak fairness on `Main` as a whole, for the same reasons: each
  List and each request ends with an answer or a time-out. `MainExits` begins
  where the context has been made.
- WarmPass asks only that a pass ends (`<>over`, next to its `Safety`);
  Processor's fairness on `Step` gives it.
- Routing, Input, Settings and Budgets check safety only and state none.
- ClusterRuns has weak fairness on `RunStep`, as above, and on `NextRun`: the
  CronJob goes on starting runs. `EventuallyCached` assumes in addition, in the
  formula itself, what the comment "the next scheduled run will retry" takes for
  granted: Zot can be reached and upstream serves every tag (`Reachable`), scans
  are complete from some point on (`ScansComplete`), and failed warms,
  cancellations and killed pods stop (`FaultsEnd`). Failed probes need not stop.
- Collector has weak fairness on `Scan`: each List request ends with its answer
  or with the client's 30 s time-out.

Nothing is assumed of other clients, of the cluster or of signals.

## Proofs

TLAPS proves the following for every value of the constants: every list of
references, registry map, set of manifests and number of tag moves; every
cluster, filter and order of kinds; every path, prefix and mirror; every document,
text and time-out.

| Module | Theorem | Statement |
|---|---|---|
| ProcessorProofs | `TypeCorrect` | `Spec => []TypeOK` |
| | `CountersAddUp` | `Spec => []Accounting` |
| | `CancellationIsPrompt` | `Spec => []CancelBound` |
| | `NothingDropped` | `Spec => []OnlyCancellationDrops` |
| | `WarmedIsHeld` | `Spec => []WarmedIsStored` |
| | `HitsAreHeld` | `Spec => []CachedIsPresent` |
| | `FetchedOnce` | `Spec => []WarmedOnce` |
| | `LoopIsPass` | `Spec => Pass!Safety` (refinement of WarmPass) |
| | `RequestsBounded` | `Spec => NoRequestRepeats` (action property) |
| CommandsProofs | `CliTypeCorrect` | `CliSpec => []CliTypeOK` |
| | `CodeClassifies` | `CliSpec => []ExitClassifies` |
| | `GateIsSound` | `CliSpec => []GateSound` |
| | `SteadyRunsWarmNothing` | `ClusterSpec => []SteadyRun` |
| | `CountedIsHeld` | `ClusterSpec => [](WarmedIsStored /\ CachedIsPresent)` |
| CollectorProofs | `ScanTypeCorrect` | `Spec => []TypeOK` |
| | `NothingLostSilently` | `Spec => []NoSilentLoss` |
| | `ScanNarrows` | `Spec => ListsBounded` (action property) |
| ClusterMainProofs | `MainTypeCorrect` | `MainSpec => []MainTypeOK` |
| | `NoImageForgotten` | `MainSpec => []EveryImageAccountedFor` |
| | `ContextIsOne` | `MainSpec => OneContext` (action property) |
| RoutingProofs | `ChildrenStayBeside` | `Spec => []ChildrenBesideIndex` |
| | `NodesFindImages` | `Spec => []NodeFindsIt` |
| | `CollisionsAreOverlaps` | `Spec => []CollisionsNeedOverlap` |
| InputProofs | `ManifestsByKeyOnly` | `Spec => []OnlyImageKeys` |
| | `DocumentedFormsComplete` | `Spec => []NoneMissed` |
| | `OneCut` | `Spec => []CutAtOnePlace` |
| SettingsProofs | `OneMeaning` | `Spec => []MapsAgree` |
| BudgetsProofs | `RunFitsJob` | `Spec => []EndsBeforeJob` |
| | `ImagesAreBounded` | `Spec => []ImageBounded` |

### Assumptions

They are stated by the modules of their constants, and TLC evaluates them in
every run.

- References and manifests: `None` is not a tag or a digest (`NoneAssumption`,
  `DigestAssumption`), an index lists digests, a reference has a known digest or
  none, a list consists of raw references (`ListAssumption`).
- ZotWarm and ClusterMain: the empty list is one the loop may have
  (`NoImageAssumption`), so are all orders of what a scan may find
  (`OrdersAssumption`), and `None`, which stands for no exit code, is none
  (`ExitAssumption`).
- Collector: kinds, objects and bounds have their types (`CollectorAssumption`;
  for its instance in ClusterMain `ScanAssumption`).
- Routing: `RoutingAssumption`, which is the grammar of references and of the
  destinations of a map, as far as text needs it: separators are no components
  and no tags, a path of an image has components and no colon in them, a
  destination is not empty. `preValidate`, the reference library and both parsers
  of the map refuse what violates it. Destinations may have colons.
- Input: `InputAssumption`, in particular that JSON begins with a brace and ends
  on a line that is neither blank nor a comment.
- Settings: the built-in defaults of time-out and rate limit are good values, and
  the CronJob's variable is a text whose pairs have two sides
  (`SettingsAssumption`), which the parser's own checks make them.
- Budgets: a run begun at any of the `Starts` has its time-out before the Job's
  deadline (`JobAssumption`). That is a relation between two settings which
  `deploy/cronjob.yaml:36-44` explains and its line 164 keeps; without it
  `EndsBeforeJob` is false.

### The loop

None of its invariants is inductive alone. The argument has six layers, each
proved with the ones before it; their conjunction is `LoopInv`:

1. `Typed` = `TypeOK /\ HandInv`. Types need to know what is in hand: while a
   request is out the image in hand exists and has a place in Zot, so that
   `RefOf(next)` is a reference Zot knows, and a child is fetched only of an
   index reached by tag.
2. `Accounting`. Three sums over the counters, with a term for the image in
   hand (`Begun`, `InFlight`, `Owed`) that every step moves from one side to the
   other.
3. `LedgerInv /\ StopInv`. Exactly the images before the position in the list
   have a verdict, only images with a place in Zot are counted as cached or
   warmed, and after a cancellation the position moves at most once.
   `CancelBound` and `OnlyCancellationDrops` follow.
4. `HeldInv` = `ChildInv /\ WarmedIsStored /\ CachedIsPresent`. `ChildInv` says
   that the index and the children before the one in hand are in Zot; with
   `Grows` (Zot loses nothing) it carries the verdict through the moves of the
   tag, because it speaks of the digest that was served, not of the tag.
5. `OnceInv` = `PresentInv /\ FirstInv /\ WarmedOnce`. A reference that was
   warmed is one a HEAD finds, whatever its tag names by then; and a request to
   warm an image is only out if no earlier image with its reference was warmed,
   as long as no probe has failed.
6. `VerdictInv`. A malformed reference is one, a skipped one has no mapping, the
   others have, and each error counter is zero exactly when no image has its
   verdict. This ties the counters, of which an exit code is made, to the images.

The refinement maps WarmPass' variables to the verdicts in the ledger, the set of
images Zot answers and the set it holds complete. Besides `LoopInv` it needs
`MarkInv`: a signal marks the image in hand or an earlier one, and an image
without a verdict has no digest. A step that files a verdict is a `Settle` of the
image in hand (`SettleStep`), `Cancel` is an `Interrupt`, the two exits of the
loop are `End`, and every other step is a `Fill` or a stutter.

### The commands

- *zot-warm.* `CliInv` = `LoopInv`, the types, and `CodeInv`: the loop is done in
  no stage before its own, and a reported run has the exit code its counters
  give. Layer 6 makes of that `ExitClassifies`, layers 3 to 5 `GateSound`.
- *Consecutive runs.* `SteadyInv` adds that what a steady run found in Zot is
  still there: then a HEAD that is answered is a hit, and the only way to a GET
  is a failed probe. `CountedInv` weakens `LedgerInv` to runs in progress, since
  a pod may die in the pause after a verdict.
- *The scan.* `LossInv` = `Lasting /\ Coming /\ NoSilentLoss`: what was there all
  along is in the cluster and in the watch cache, so that a List that begins
  anew will deliver it, and of a List in progress what has not come is on the
  pages to come. Retries, late refreshes of the cache and objects that vanish
  between pages each need one of the two.
- *zot-cache-warmer.* `MainInv` joins `LoopInv`, the scan's invariant, taken from
  CollectorProofs by instantiation, `ContextInv` and `StageInv`: from the
  hand-over on the scan is over and every image found is in the loop's list, and
  only a scan that found nothing or a finished loop gives code 0.
  `EveryImageAccountedFor` follows a reference from object to set to list to
  verdict; `OneContext` rests on `ContextInv` and `StopInv`, between which the
  image in hand is the one the context ended at.

### Bounded work

`NoRequestRepeats` and `ListsBounded` are the part of termination that is not
about fairness: every step of the loop goes up in the order (image, place in the
body, child), every step of the scan in (kind, attempt, pages delivered), and
nothing else moves either, whatever fails, is cancelled or changes outside. Both
orders are finite. What liveness adds is that a step which can be taken is
taken; that stays with TLC.

### Text

A reference is written by one function and read back by three scans from its
end, so the lemmas describe the text of a path from there: its last slash stands
before its last component, which is the image's own and has no colon
(`PathTextEnd`, `RepoPath`). `CutBack` then takes a tag or a digest off what it
was put on, and so `strippedBase` and the library's reading of `RefText` give the
path back (`BareText`, `TaggedText`, `PinnedText`), whatever colons a prefix has.
`RoutingInv` says of the steps that what has been asked for is the image at its
path and other manifests of that path; `ChildrenBesideIndex` and, with
`RequestsMeet`, `NodeFindsIt` follow. For `CollisionsNeedOverlap` the text must
also determine the path (`PathTextInjective`) and the tag or digest
(`RefTextInjective`), and the path the registry's prefix, or one that overlaps
it, and the repository (`OneRepositoryPerPath`).
Positions are found by a least-element argument (`Least`), which takes the place
of induction over the length of a text.

The proof of `NodeFindsIt` showed what its condition has to say: a map keyed by
another name of Docker Hub (`registry-1.docker.io`) never matches, because
`Parse` has folded the name before the map is looked up. `Shared` therefore asks
for the canonical name in the map, and the run has such a map.

### Input, settings, time-outs

- *Input.* `InputInv`: the buffer is what the limit let through, and a result is
  what the extractor of its mode makes of it. `BufferLines` and `CutKinds` say
  what a line of the buffer can be, whole or cut, and `JSONIsIntact` that JSON
  which decodes has lost nothing but white space.
- *Settings.* `SettingsInv`: each loader's result is a function of sources that
  do not change. The work is in `MapOfPairs` and `ValidText`: without a key twice
  the slash check on the entries is the one on the map.
- *Budgets.* `BudgetInv` = `TimesOK /\ Clock /\ Budgeted`: the clock never passes
  a deadline that is being waited for.

TLC checked the invariants of the runs on the small instances before they were
proved.

### Only model-checked

Liveness, which is out of the prover's reach together with ENABLED: `ScanEnds`,
`Exits`, `MainExits`, `EventuallyCached` and the end of a pass in
`ImplementsPass`. Every other property of the passing runs has a theorem. That
maps and mirrors say the same and look like no host is not proved but a condition
of `NodeFindsIt` (`Aligned`, `Plain`): the default map of
`internal/cli/defaults.go` meets it and a user's need not.

## Where code and documentation disagree

Three sentences have a run that expects TLC to find them violated:

1. `zot_warm_dropped` — a cancelled run that left images may exit 0;
   `cmd/zot-warm/main.go:178-179` counts it among the hard failures.
2. `cluster_retried` — an index one of whose children failed is a cache hit of
   every later run, and the child is never fetched;
   `cmd/zot-cache-warmer/main.go:16-18` relies on the next run.
3. `budgets_minutes` — a GET is given up after 20 s without headers;
   `internal/cli/defaults.go:47-48` allows for minutes.

Others show in a definition of the model when it is read next to the sentence.
They have no run; the properties are stated so as not to claim them:

- An unreachable Zot, or refused credentials, give exit 2 (0 with `--soft`):
  `ExitCode` of ZotWarm has no other case. `cmd/zot-warm/main.go:21` says 1.
  `ExitClassifies` speaks of runs that Zot let in.
- An index pinned by digest only is fetched without its children
  (`WarmManifest`); `internal/registry/warmer.go:7-9` promises coverage of all.
  `Covers` therefore asks for the children of tags only.
- Of `repo:tag@digest` only the tag is warmed (`ZotRef`), so the pinned manifest
  may be missing; `cmd/zot-cache-warmer/main.go:1-3` promises each reference.
  `NodeFindsIt` compares the repository of such an image and not the digest.
- The delay lies between images (`Sleep`), not between requests as
  `internal/processor/processor.go:63` says.
- A scan whose Lists failed is treated as an empty cluster (`NothingFound`;
  `cmd/zot-cache-warmer/main.go:97-101`). `EveryImageAccountedFor` counts the
  list error, which is only logged.
- In the flatten layout a path that begins with a dotted component
  (`ghcr.io/my.org/app`) is asked for at that host (`ParseReference` of Routing);
  `internal/registry/warmer.go:123-124` says that the host is fixed.
- `k8s.gcr.io` is a mirror in `docs/registries.yaml` and missing in the default
  map, which `internal/cli/defaults.go:9-12` says aligns; its images are skipped.
- Bare names under an `image` key are dropped (`looksLikeImageRef` of Input);
  `internal/input/input.go:119-120` says that every value is collected. In the
  same way references in flow style, and lists with a YAML marker, are lost when
  other references are found, though `README.md:91` says that exit code 0 means
  all images. `NoneMissed` speaks of documents in one documented form.
- The default map is that of `zot-warm` only (`Default`, `ClusterDefault` of
  Settings); `internal/cli/defaults.go:9-10` says it is baked into both.
- YAML in flow style, or with no image at all, and without a `---` line matches
  neither marker of `detectMode` and is read as a list, so that `apps/v1` is
  taken for an image; `internal/input/input.go:174-175` says that the dispatch
  prevents this. The limit may do the same by cutting off the only marker.
  `OnlyImageKeys` and `CutAtOnePlace` speak of documents whose form is in sight.
- A destination that ends with a slash, or has two within, is accepted
  (`parseRegistryMap`, `Validate`); `internal/config/config.go:187-188` gives as
  the reason of the check that a Zot URL shall have no `//`.
- Values that do not parse pass for zero or false, and durations without a unit
  for nanoseconds (`Convert`); `internal/cli/config.go:105-106` says that invalid
  values are errors.
- `./config.yaml` is read before the user's file (`Places`), and `README.md:103`
  does not name it.

The second run is why `EventuallyCached` and `GateSound` speak of the manifest an
image names, and not of all its platforms, and the first why `GateSound` and
`ExitClassifies` exclude interrupted runs.

## Not modelled

- Characters: what `preValidate` and the reference library refuse is one flag,
  the regular expressions of the input appear as classes of lines, numbers and
  durations as classes of strings. `ClassifyError` and `Sanitize` only word log
  lines.
- Whether each of the seven closures of `CollectImages` applies the filter: one
  definition stands for them (`Images` of Collector). That each begins with the
  same test was read off the code.
- Pages that have been fetched when the context ends: the model has them
  delivered just before. Until they are, nothing in the program but the next
  request looks at the context, so the two cannot be told apart.
- JSON in which an object has one key twice, of which the decoder keeps the last.
- Settings that are passed on as they are (user name, password, `--quiet`,
  `--soft`, `--file`) and the namespace lists, which Collector takes as sets.
- Pauses shorter than Budgets' unit: the rate limit and the back-off between
  attempts. The 30 s of the List client are one cause of Collector's `Fail`.
- The HTTP transport's connections, TLS and credentials, which only decide
  whether requests succeed (`access`).
- Zot's garbage collection. It runs daily and deletes what nothing refers to;
  with it, "is in Zot" would read "has been in Zot".
- Image build, CI workflows, install scripts, RBAC manifests: no program state.

## Plan

Done: all components that keep state or decide anything; the loop as a
refinement of WarmPass; every safety and action property of the passing runs
proved.

Left:

1. A namespace list given as text (`splitCSV`), should the filter come to depend
   on how it is written.
2. The user name, password and the flags that are passed on, should the program
   come to decide anything by them.
