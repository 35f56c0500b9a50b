------------------------------ MODULE Processor ------------------------------
(***************************************************************************)
(* One run of the warming loop: processImages of internal/processor with   *)
(* the client calls it makes (IsCached, Warm and WarmMultiArch of          *)
(* internal/registry), next to a Zot that other clients use and whose      *)
(* upstream moves tags.                                                    *)
(*                                                                         *)
(* A step of the program is one HTTP request with the bookkeeping that     *)
(* follows its answer, or one turn of the loop head.  Any request may      *)
(* fail: a time-out, an upstream error and a lost connection look the same *)
(* to the loop.  The retries below the client belong to the request.       *)
(***************************************************************************)
EXTENDS Zot, Integers

CONSTANT
    ImageLists      \* the lists of raw references a run may be given

ASSUME ListAssumption == ImageLists \subseteq Seq(RawImages)

VARIABLES
    images,         \* the list being processed
    next,           \* index of the image in hand
    pc,             \* where the loop is
    desc,           \* the index whose children are being warmed, or None
    child,          \* position of the next child to warm
    stats,          \* the Stats returned by Process
    cancelledAt,    \* 0, or the image in hand when ctx was cancelled
    ledger          \* what became of each image (history)

loopVars == <<images, next, pc, desc, child, stats, cancelledAt, ledger>>
vars     == <<zotVars, loopVars>>

Labels  == {"loop", "probe", "warm", "children", "sleep", "done"}
Kinds   == {"pending", "parse_error", "skipped", "cached", "warmed",
            "warm_error"}
Verdict == [kind : Kinds, digest : Digests \cup {None}]

Counters == {"Total", "Parsed", "ParseErrors", "SkippedNoMapping", "Cached",
             "Warmed", "ProbeErrors", "WarmErrors"}
Stats    == [Counters -> Nat]

\* The signal or the scan time-out has reached the context.
Cancelled == cancelledAt # 0

\* The Zot reference of image i, once it has parsed and has a mapping.
RefOf(i) == ZotRef(Parse(images[i]))

-----------------------------------------------------------------------------

NewStats(list) ==
    [c \in Counters |-> IF c = "Total" THEN Len(list) ELSE 0]

NewLedger(list) ==
    [i \in 1..Len(list) |-> [kind |-> "pending", digest |-> None]]

StartRun(list) ==
    /\ images = list
    /\ next = 1
    /\ pc = "loop"
    /\ desc = None
    /\ child = 1
    /\ stats = NewStats(list)
    /\ cancelledAt = 0
    /\ ledger = NewLedger(list)

\* The same, as the step of a program that has got its list: with a fresh
\* context, or with one that may have ended before.
EnterLoopAt(list, at) ==
    /\ images' = list
    /\ next' = 1
    /\ pc' = "loop"
    /\ desc' = None
    /\ child' = 1
    /\ stats' = NewStats(list)
    /\ cancelledAt' = at
    /\ ledger' = NewLedger(list)

EnterLoop(list) == EnterLoopAt(list, 0)

Init == ZotInit /\ \E list \in ImageLists : StartRun(list)

Count(counters) ==
    stats' = [c \in Counters |-> stats[c] + (IF c \in counters THEN 1 ELSE 0)]

\* The history entry of the image in hand.
Settle(kind, d) ==
    ledger' = [ledger EXCEPT ![next] = [kind |-> kind, digest |-> d]]

\* SIGTERM, an interrupt, or the end of the scan time-out.
Cancel ==
    /\ pc # "done"
    /\ ~Cancelled
    /\ cancelledAt' = next
    /\ UNCHANGED <<zotVars, images, next, pc, desc, child, stats, ledger>>

-----------------------------------------------------------------------------
(* The loop head, up to the probe.                                          *)

\* Mutant of Finish: the bound of the loop is off by one.
FinishEarly ==
    /\ pc = "loop"
    /\ next >= Len(images)
    /\ pc' = "done"
    /\ UNCHANGED <<zotVars, images, next, desc, child, stats, cancelledAt,
                   ledger>>

Finish ==
    /\ pc = "loop"
    /\ next > Len(images)
    /\ pc' = "done"
    /\ UNCHANGED <<zotVars, images, next, desc, child, stats, cancelledAt,
                   ledger>>

StopCancelled ==
    /\ pc = "loop"
    /\ next <= Len(images)
    /\ Cancelled
    /\ pc' = "done"
    /\ UNCHANGED <<zotVars, images, next, desc, child, stats, cancelledAt,
                   ledger>>

\* Mutant of TakesImage: the context is not looked at.
TakesImageAnyway == pc = "loop" /\ next <= Len(images)

TakesImage == pc = "loop" /\ next <= Len(images) /\ ~Cancelled

ParseFailure ==
    /\ TakesImage
    /\ images[next].malformed
    /\ Count({"ParseErrors"})
    /\ Settle("parse_error", None)
    /\ next' = next + 1
    /\ UNCHANGED <<zotVars, images, pc, desc, child, cancelledAt>>

SkipUnmapped ==
    /\ TakesImage
    /\ ~images[next].malformed
    /\ ~HasMapping(Parse(images[next]))
    /\ Count({"Parsed", "SkippedNoMapping"})
    /\ Settle("skipped", None)
    /\ next' = next + 1
    /\ UNCHANGED <<zotVars, images, pc, desc, child, cancelledAt>>

\* Mutant of BeginProbe: every image is fetched, cached or not.
SkipProbe ==
    /\ TakesImage
    /\ ~images[next].malformed
    /\ HasMapping(Parse(images[next]))
    /\ Count({"Parsed"})
    /\ pc' = "warm"
    /\ UNCHANGED <<zotVars, images, next, desc, child, cancelledAt, ledger>>

BeginProbe ==
    /\ TakesImage
    /\ ~images[next].malformed
    /\ HasMapping(Parse(images[next]))
    /\ Count({"Parsed"})
    /\ pc' = "probe"
    /\ UNCHANGED <<zotVars, images, next, desc, child, cancelledAt, ledger>>

-----------------------------------------------------------------------------
(* HEAD.  Once the context is cancelled every request fails.                *)

Answers == access = "ok" /\ ~Cancelled

\* Mutant of ProbeHit: the hit and the pause both move on to the next image.
HitAdvances ==
    /\ pc = "probe"
    /\ Answers
    /\ Present(RefOf(next))
    /\ Count({"Cached"})
    /\ Settle("cached", None)
    /\ next' = next + 1
    /\ pc' = "sleep"
    /\ UNCHANGED <<zotVars, images, desc, child, cancelledAt>>

ProbeHit ==
    /\ pc = "probe"
    /\ Answers
    /\ Present(RefOf(next))
    /\ Count({"Cached"})
    /\ Settle("cached", None)
    /\ pc' = "sleep"
    /\ UNCHANGED <<zotVars, images, next, desc, child, cancelledAt>>

ProbeMiss ==
    /\ pc = "probe"
    /\ Answers
    /\ ~Present(RefOf(next))
    /\ pc' = "warm"
    /\ UNCHANGED <<zotVars, images, next, desc, child, stats, cancelledAt,
                   ledger>>

\* Mutant of ProbeError: a continue where the code falls through to the warm.
ProbeErrorEndsImage ==
    /\ pc = "probe"
    /\ Count({"ProbeErrors"})
    /\ pc' = "sleep"
    /\ UNCHANGED <<zotVars, images, next, desc, child, cancelledAt, ledger>>

\* Mutant of ProbeError: only a 404 is taken for a miss.
ProbeErrorIsHit ==
    /\ pc = "probe"
    /\ Count({"Cached"})
    /\ Settle("cached", None)
    /\ pc' = "sleep"
    /\ UNCHANGED <<zotVars, images, next, desc, child, cancelledAt>>

\* Any other answer is ambiguous: counted, and the image is warmed anyway.
ProbeError ==
    /\ pc = "probe"
    /\ Count({"ProbeErrors"})
    /\ pc' = "warm"
    /\ UNCHANGED <<zotVars, images, next, desc, child, cancelledAt, ledger>>

-----------------------------------------------------------------------------
(* GET.                                                                     *)

\* The image in hand ends with a warm error.
GiveUp ==
    /\ Count({"WarmErrors"})
    /\ Settle("warm_error", None)
    /\ pc' = "sleep"
    /\ desc' = None
    /\ child' = 1
    /\ UNCHANGED <<images, next, cancelledAt>>

\* Mutant of WarmError: the request is made again until it succeeds.
WarmUntilSuccess == pc = "warm" /\ UNCHANGED vars

WarmError ==
    /\ pc = "warm"
    /\ GiveUp
    /\ UNCHANGED zotVars

\* Warm of a digest, or WarmMultiArch of a tag that is a single manifest.
WarmManifest ==
    /\ pc = "warm"
    /\ Answers
    /\ Fetch(RefOf(next))
    /\ Parse(images[next]).isDigestOnly \/ Served(RefOf(next)) \notin Indexes
    /\ Count({"Warmed"})
    /\ Settle("warmed", Served(RefOf(next)))
    /\ pc' = "sleep"
    /\ UNCHANGED <<images, next, desc, child, cancelledAt>>

\* WarmMultiArch of a tag that is an index: its children are read from the
\* answer, once.
WarmIndex ==
    /\ pc = "warm"
    /\ Answers
    /\ ~Parse(images[next]).isDigestOnly
    /\ Served(RefOf(next)) \in Indexes
    /\ Fetch(RefOf(next))
    /\ desc' = Served(RefOf(next))
    /\ child' = 1
    /\ pc' = "children"
    /\ UNCHANGED <<images, next, stats, cancelledAt, ledger>>

\* The index is stored in Zot, but its body does not parse here.
IndexUnreadable ==
    /\ pc = "warm"
    /\ Answers
    /\ ~Parse(images[next]).isDigestOnly
    /\ Served(RefOf(next)) \in Indexes
    /\ Fetch(RefOf(next))
    /\ GiveUp

WarmChild ==
    /\ pc = "children"
    /\ Answers
    /\ child <= Len(Manifests[desc])
    /\ FetchDigest(RefOf(next).repo, Manifests[desc][child])
    /\ child' = child + 1
    /\ UNCHANGED <<images, next, pc, desc, stats, cancelledAt, ledger>>

\* Mutant of WarmChildError: a child that fails is passed over.
ChildErrorIgnored ==
    /\ pc = "children"
    /\ child <= Len(Manifests[desc])
    /\ child' = child + 1
    /\ UNCHANGED <<zotVars, images, next, pc, desc, stats, cancelledAt, ledger>>

\* Mutant of WarmChildError: the warm is begun again from its index.
WarmAgain ==
    /\ pc = "children"
    /\ child <= Len(Manifests[desc])
    /\ pc' = "warm"
    /\ UNCHANGED <<zotVars, images, next, desc, child, stats, cancelledAt, ledger>>

WarmChildError ==
    /\ pc = "children"
    /\ child <= Len(Manifests[desc])
    /\ GiveUp
    /\ UNCHANGED zotVars

ChildrenDone ==
    /\ pc = "children"
    /\ child > Len(Manifests[desc])
    /\ Count({"Warmed"})
    /\ Settle("warmed", desc)
    /\ pc' = "sleep"
    /\ desc' = None
    /\ child' = 1
    /\ UNCHANGED <<zotVars, images, next, cancelledAt>>

\* The pause between images, cut short when the context is cancelled.
Sleep ==
    /\ pc = "sleep"
    /\ next' = next + 1
    /\ pc' = "loop"
    /\ UNCHANGED <<zotVars, images, desc, child, stats, cancelledAt, ledger>>

-----------------------------------------------------------------------------

LoopHead == Finish \/ StopCancelled \/ ParseFailure \/ SkipUnmapped
            \/ BeginProbe
Probe    == ProbeHit \/ ProbeMiss \/ ProbeError
Warm     == WarmManifest \/ WarmIndex \/ IndexUnreadable \/ WarmError
Children == WarmChild \/ WarmChildError \/ ChildrenDone

\* The steps of the program; every request ends, at the latest with its
\* time-out, so the program never stays in one place for ever.
Step == LoopHead \/ Probe \/ Warm \/ Children \/ Sleep

Environment == Cancel \/ (ZotNext /\ UNCHANGED loopVars)

Next == Step \/ Environment

Spec == Init /\ [][Next]_vars /\ WF_vars(Step)

-----------------------------------------------------------------------------

\* Every variable keeps its type, whatever Zot, the other clients and the
\* signals do.
TypeOK ==
    /\ ZotTypeOK
    /\ images \in ImageLists
    /\ next \in 1..(Len(images) + 1)
    /\ pc \in Labels
    /\ desc \in Indexes \cup {None}
    /\ child \in Nat \ {0}
    /\ stats \in Stats
    /\ cancelledAt \in Nat
    /\ ledger \in [1..Len(images) -> Verdict]

Working  == pc \in {"probe", "warm", "children"}
InFlight == IF Working THEN 1 ELSE 0
Owed     == IF pc = "probe" THEN 0 ELSE InFlight
Begun    == IF Working \/ pc = "sleep" THEN next ELSE next - 1

\* Each image begun is parsed or a parse error.
EachBegun ==
    /\ stats.Total = Len(images)
    /\ stats.Parsed + stats.ParseErrors = Begun

\* Each parsed image has one outcome, or is in hand.
EachParsed ==
    stats.Parsed = stats.SkippedNoMapping + stats.Cached + stats.Warmed
                    + stats.WarmErrors + InFlight

\* A failed probe is followed by a warm, whose outcome is counted as well.
EachProbed == stats.ProbeErrors <= stats.Warmed + stats.WarmErrors + Owed

\* The counters of Process account for every image exactly once: each image
\* begun is parsed or a parse error, each parsed one has one outcome (or is
\* in hand), and a failed probe never ends an image (processImages).  The
\* `remaining' figure of the cancellation log line rests on this.
Accounting == EachBegun /\ EachParsed /\ EachProbed

\* Zot holds manifest d of ref and, if ref is a tag and d an index, all the
\* manifests d lists.
Covers(ref, d) ==
    /\ <<ref.repo, d>> \in stored
    /\ (ref.digest = None /\ d \in Indexes) =>
          \A k \in 1..Len(Manifests[d]) : <<ref.repo, Manifests[d][k]>> \in stored

\* An image counted as warmed is in Zot: the manifest its GET was answered
\* with and, for an index reached by tag, every child of that index, even
\* when the tag moved while the children were being fetched (WarmMultiArch).
WarmedIsStored ==
    \A i \in 1..Len(images) :
        ledger[i].kind = "warmed" => Covers(RefOf(i), ledger[i].digest)

\* An image counted as already cached is one whose reference Zot holds: a
\* failed probe is never taken for a hit (IsCached, processImages).
CachedIsPresent ==
    \A i \in 1..Len(images) :
        ledger[i].kind = "cached" => Present(RefOf(i))

\* Raw references are deduplicated as strings only, so two spellings of one
\* Zot reference are processed one after the other; without a failed probe
\* the second finds what the first warmed and does not fetch it again.
WarmedOnce ==
    stats.ProbeErrors = 0 =>
        \A i, j \in 1..Len(images) :
            (/\ i < j
             /\ ledger[i].kind = "warmed"
             /\ ledger[j].kind \in {"cached", "warmed", "warm_error"}
             /\ RefOf(i) = RefOf(j)) => ledger[j].kind = "cached"

\* When the context is cancelled no image begins after the one in hand: the
\* later ones stay untouched.  The one in hand may still get any verdict (the
\* check of ctx.Err() at the head of the loop).
CancelBound ==
    Cancelled =>
        /\ next <= cancelledAt + 1
        /\ \A i \in 1..Len(images) :
               i > cancelledAt => ledger[i].kind = "pending"

\* A finished run has dropped images only if it was cancelled, and then it
\* has dropped a suffix of the list.
OnlyCancellationDrops ==
    pc = "done" =>
        \A i \in 1..Len(images) :
            ledger[i].kind = "pending" => Cancelled /\ i >= next

\* The places of the loop body, in the order an image passes through them.
Phase == [loop |-> 0, probe |-> 1, warm |-> 2, children |-> 3, sleep |-> 4,
          done |-> 5]

\* On to the next image, further with this one, or to the next child of the
\* index that was fetched for it.
MovesOn ==
    \/ next' = next + 1 /\ pc' = "loop"
    \/ next' = next /\ Phase[pc'] > Phase[pc]
    \/ /\ UNCHANGED <<next, pc, desc>>
       /\ pc = "children" /\ child <= Len(Manifests[desc]) /\ child' = child + 1

\* No call of the Zot client is made a second time for an image, whatever the
\* answers, the faults and Zot's other clients do meanwhile: above the retries
\* of the registry library inside a call (NewWarmer) there is no second layer
\* that would multiply them.  A run makes at most one HEAD, one GET and one GET
\* per child of each image it was given (processImages, WarmMultiArch).
NoRequestRepeats == [][MovesOn \/ UNCHANGED <<next, pc, desc, child>>]_vars

-----------------------------------------------------------------------------
(* One run of the loop is a pass as WarmPass describes it.                  *)

\* The images of the run that have a place in Zot.
InZot == {i \in 1..Len(images) : images[i] \in Routed}

Pass == INSTANCE WarmPass WITH
            Lists    <- ImageLists,
            list     <- images,
            verdict  <- [i \in 1..Len(images) |-> ledger[i].kind],
            stopping <- cancelledAt,
            over     <- pc = "done",
            present  <- {i \in InZot : Present(RefOf(i))},
            covered  <- {i \in InZot :
                            ledger[i].digest # None /\ Covers(RefOf(i), ledger[i].digest)}

\* The loop, request by request and among other clients, moving tags and
\* signals, does what Process promises: the images are settled in order, once
\* each, with verdicts that are true of Zot and stay true, an interrupted run
\* settles no image but the one in hand, and every run ends.
ImplementsPass == Pass!Spec

=============================================================================
