------------------------------- MODULE Budgets -------------------------------
(***************************************************************************)
(* The time-outs of one run of the warming loop against each other and     *)
(* against the deadline of the CronJob: the context of the run, those      *)
(* derived from it for the probe and the warm of an image, the transport's *)
(* time-out on response headers, and the attempts of one request.  Zot     *)
(* answers a request at any time, or never.                                *)
(*                                                                         *)
(* Time is counted in units of some seconds.  What is shorter is left out: *)
(* the pause between images and those between the attempts of a request.   *)
(***************************************************************************)
EXTENDS Integers, FiniteSetsExt

CONSTANTS
    Images,             \* how many images the run has
    Children,           \* the numbers of children an image may have
    Starts,             \* when, in the life of the Job, the context is made
    HeaderTimeout,      \* ResponseHeaderTimeout of the transport
    ProbeTimeout,       \* DefaultProbeTimeout
    WarmTimeout,        \* DefaultWarmTimeout
    ScanTimeout,        \* DefaultScanTimeout
    ActiveDeadline,     \* activeDeadlineSeconds of the Job
    Attempts            \* Steps of the request's back-off

ASSUME BudgetAssumption ==
    /\ Images \in Nat
    /\ Children \subseteq Nat /\ Starts \subseteq Nat
    /\ {HeaderTimeout, ProbeTimeout, WarmTimeout, ScanTimeout, ActiveDeadline,
        Attempts} \subseteq Nat \ {0}

\* A run whose context is made in time has its whole scan time-out before the
\* Job's deadline: what the CronJob's 1200 seconds are chosen for.
ASSUME JobAssumption == \A start \in Starts : start + ScanTimeout < ActiveDeadline

VARIABLES
    now,        \* since the Job began
    deadline,   \* of the run's context
    image,      \* the image in hand
    began,      \* when it was taken
    phase,      \* "loop", "head", "get", "body" or "done"
    budget,     \* when the time-out of the probe or the warm ends
    sent,       \* when the request in hand was sent
    attempt,    \* its attempt
    left        \* the children still to be asked for

vars == <<now, deadline, image, began, phase, budget, sent, attempt, left>>

Init ==
    /\ now \in Starts
    /\ deadline = now + ScanTimeout
    /\ image = 1
    /\ began = now
    /\ phase = "loop"
    /\ budget = now
    /\ sent = now
    /\ attempt = 1
    /\ left = 0

-----------------------------------------------------------------------------
(* Contexts.                                                                *)

\* Mutant of CtxEnd: the per-image context is not derived from the run's.
OwnCtxEnd == budget

\* context.WithTimeout of the run's context.
CtxEnd == Min({budget, deadline})

Waiting == phase \in {"head", "get"}

\* The transport gives a request up that has waited for its headers too long.
Late == Waiting /\ now >= sent + HeaderTimeout

Expired == phase \in {"head", "get", "body"} /\ now >= CtxEnd

\* Time passes only while the program waits.
Tick ==
    /\ phase \notin {"loop", "done"}
    /\ ~Late
    /\ ~Expired
    /\ now' = now + 1
    /\ UNCHANGED <<deadline, image, began, phase, budget, sent, attempt, left>>

-----------------------------------------------------------------------------
(* The loop.                                                                *)

\* A request with its attempts before it.
Request == sent' = now /\ attempt' = 1

Take ==
    /\ phase = "loop"
    /\ image <= Images
    /\ now < deadline
    /\ phase' = "head"
    /\ began' = now
    /\ budget' = now + ProbeTimeout
    /\ Request
    /\ UNCHANGED <<now, deadline, image, left>>

Stop ==
    /\ phase = "loop"
    /\ image > Images \/ now >= deadline
    /\ phase' = "done"
    /\ UNCHANGED <<now, deadline, image, began, budget, sent, attempt, left>>

\* Nothing of an image outlives it.
NextImage ==
    /\ phase' = "loop"
    /\ image' = image + 1
    /\ began' = now
    /\ budget' = now
    /\ left' = 0
    /\ Request
    /\ UNCHANGED <<now, deadline>>

Hit == phase = "head" /\ ~Late /\ ~Expired /\ NextImage

\* A miss, an error, or a probe that takes too long: the image is warmed.
BeginWarm ==
    /\ phase = "head"
    /\ phase' = "get"
    /\ budget' = now + WarmTimeout
    /\ left' \in Children
    /\ Request
    /\ UNCHANGED <<now, deadline, image, began>>

\* A temporary error, after which the library asks again; the ping it sends
\* before a request is like an attempt.  A time-out is not temporary: it passes
\* for the end of a context.
Retry ==
    /\ Waiting
    /\ ~Late
    /\ ~Expired
    /\ attempt < Attempts
    /\ attempt' = attempt + 1
    /\ sent' = now
    /\ UNCHANGED <<now, deadline, image, began, phase, budget, left>>

Headers ==
    /\ phase = "get"
    /\ ~Late
    /\ ~Expired
    /\ phase' = "body"
    /\ Request
    /\ UNCHANGED <<now, deadline, image, began, budget, left>>

\* Mutant of NextChild: every child has the time of an image.
FreshBudget ==
    /\ phase = "body"
    /\ ~Expired
    /\ left > 0
    /\ phase' = "get"
    /\ left' = left - 1
    /\ budget' = now + WarmTimeout
    /\ Request
    /\ UNCHANGED <<now, deadline, image, began>>

\* The children of an index are fetched under the same context.
NextChild ==
    /\ phase = "body"
    /\ ~Expired
    /\ left > 0
    /\ phase' = "get"
    /\ left' = left - 1
    /\ Request
    /\ UNCHANGED <<now, deadline, image, began, budget>>

Warmed == phase = "body" /\ ~Expired /\ left = 0 /\ NextImage

\* The wait for headers, or the body, has taken too long.
TimesOut == phase \in {"get", "body"} /\ (Late \/ Expired) /\ NextImage

\* Zot answers with an error, before it has the manifest or instead of it.
Refused == phase \in {"get", "body"} /\ ~Late /\ ~Expired /\ NextImage

Step == \/ Take \/ Stop \/ Hit \/ BeginWarm \/ Retry \/ Headers \/ NextChild
        \/ Warmed \/ TimesOut \/ Refused

Next == Tick \/ Step

Spec == Init /\ [][Next]_vars

-----------------------------------------------------------------------------

\* The run is over before the Job's deadline kills it: whatever waits, stalls
\* and is retried, the context of the run ends it in time for the report
\* (run, processImages and the CronJob's activeDeadlineSeconds).
EndsBeforeJob == phase # "done" => now <= deadline /\ now < ActiveDeadline

\* One image cannot use up the run: with all its children, attempts and
\* stalled answers it has one probe time-out and one warm time-out
\* (processImages, WarmMultiArch).
ImageBounded ==
    phase \in {"head", "get", "body"} => now - began <= ProbeTimeout + WarmTimeout

\* What internal/cli/defaults.go:47-49 says: a GET may take minutes, so it is
\* given up, if Zot only takes its time, when its warm time-out ends and not
\* before.
WarmMayTakeMinutes == [][TimesOut => now >= CtxEnd]_vars

=============================================================================
