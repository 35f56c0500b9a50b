---------------------------- MODULE CommandsProofs ----------------------------
(***************************************************************************)
(* What the two commands make of the loop, for every input, registry map   *)
(* and behaviour of Zot.  Both embed the steps of Processor in their own:  *)
(* zot-warm computes an exit code from the last counters, so that LoopInv  *)
(* of ProcessorProofs carries over as it is; the CronJob runs the loop     *)
(* again and again, after runs that were killed, cancelled or complete.    *)
(***************************************************************************)
EXTENDS ZotWarm, ClusterRuns, ProcessorProofs

-----------------------------------------------------------------------------
(* The exit code of zot-warm.                                               *)

CliVarsOK ==
    /\ stage \in Stages
    /\ soft \in BOOLEAN
    /\ exit \in ExitCodes \cup {None}

\* The loop runs in one stage only, and what it comes to is the exit code.
CodeInv ==
    /\ pc = "done" => stage \in {"process", "exited"}
    /\ Reported => exit = ExitCode(stats, soft)

CliInv == LoopInv /\ CliVarsOK /\ CodeInv

-----------------------------------------------------------------------------

\* At the start there is no image and no exit code.
LEMMA CliInitInv == CliInit => CliInv
<1> SUFFICES ASSUME CliInit PROVE CliInv
  OBVIOUS
<1>1. LoopInv
  BY NoImageAssumption, StartLoopInv DEF CliInit
<1>2. pc = "loop"
  BY DEF CliInit, StartRun
<1>3. CliVarsOK
  BY DEF CliInit, CliVarsOK, Stages
<1> QED
  BY <1>1, <1>2, <1>3 DEF CliInv, CodeInv, Reported

\* Whatever the command does, the loop takes one of its own steps, is left
\* alone, or is entered with the list that was read.
LEMMA CliLoopSteps ==
    ASSUME [CliNext]_allVars
    PROVE  [Next]_vars \/ CollectInput
<1>1. SetUp => UNCHANGED vars \/ CollectInput
  BY DEF SetUp, AskHelp, BadArgs, TakeArgs, ConfigError, LoadConfig, InputError
<1>2. Process => Next \/ UNCHANGED vars
  BY DEF Process, InitError, StartLoop, Work, Report, Next
<1>3. CliEnvironment => Next \/ UNCHANGED vars
  BY DEF CliEnvironment, Killed, CliCancel, Next, Environment
<1>4. UNCHANGED allVars => UNCHANGED vars
  BY DEF allVars
<1> QED
  BY <1>1, <1>2, <1>3, <1>4 DEF CliNext

\* Reading the input enters the loop, with Zot as it is.
LEMMA CollectEnters ==
    ASSUME LoopInv, CollectInput
    PROVE  LoopInv' /\ pc' = "loop"
<1>1. PICK list \in ImageLists : EnterLoop(list)
  BY DEF CollectInput
<1>2. ZotTypeOK'
  BY ZotUnchanged DEF CollectInput, LoopInv, Typed, TypeOK
<1> QED
  BY <1>1, <1>2, EnterLoopInv DEF EnterLoop, EnterLoopAt

\* The loop inside the command keeps all that holds of it.
LEMMA CliLoopInv ==
    ASSUME LoopInv, [CliNext]_allVars
    PROVE  LoopInv'
BY CliLoopSteps, CollectEnters, NextLoop

\* Every step keeps the variables of the command typed.
LEMMA CliVarsTyped ==
    ASSUME CliVarsOK, [CliNext]_allVars
    PROVE  CliVarsOK'
<1> USE DEF CliVarsOK, Stages, ExitCodes
<1>1. ASSUME NEW code \in ExitCodes \cup {None}, Exit(code)
      PROVE  CliVarsOK'
  BY <1>1 DEF Exit
<1>2. ASSUME NEW from, NEW to \in Stages, GoOn(from, to)
      PROVE  CliVarsOK'
  BY <1>2 DEF GoOn
<1>3. CASE SetUp
  BY <1>1, <1>2, <1>3
     DEF SetUp, AskHelp, BadArgs, TakeArgs, ConfigError, LoadConfig, InputError,
         CollectInput
<1>4. CASE InitError \/ StartLoop
  BY <1>1, <1>2, <1>4 DEF InitError, StartLoop
<1>5. CASE Report
  <2>1. ExitCode(stats, soft) \in ExitCodes
    BY DEF ExitCode
  <2> QED
    BY <1>1, <1>5, <2>1 DEF Report
<1>6. CASE Killed
  BY <1>1, <1>6 DEF Killed
<1>7. CASE UNCHANGED cliVars
  BY <1>7 DEF cliVars
<1> QED
  BY <1>3, <1>4, <1>5, <1>6, <1>7
     DEF CliNext, Process, Work, CliEnvironment, CliCancel, allVars

\* Nothing but the loop ends the loop, and nothing but its end is reported.
LEMMA CodeKept ==
    ASSUME CliInv, [CliNext]_allVars
    PROVE  CodeInv'
<1> USE DEF CliInv, CodeInv, Reported
<1>1. CASE CollectInput
  BY <1>1, CollectEnters
<1>2. CASE (SetUp /\ ~CollectInput) \/ Killed
  <2>1. stage \in {"args", "config", "input"} /\ UNCHANGED vars
    BY <1>2 DEF SetUp, AskHelp, BadArgs, TakeArgs, ConfigError, LoadConfig,
                InputError, GoOn, Killed
  <2> QED
    BY <2>1 DEF vars, loopVars
<1>3. CASE InitError \/ StartLoop
  <2>1. stage = "ready" /\ UNCHANGED vars
    BY <1>3 DEF InitError, StartLoop, GoOn
  <2> QED
    BY <2>1 DEF vars, loopVars
<1>4. CASE Work
  BY <1>4 DEF Work, cliVars
<1>5. CASE Report
  BY <1>5 DEF Report, Exit, vars, loopVars
<1>6. CASE CliCancel
  BY <1>6 DEF CliCancel, Cancel, cliVars
<1>7. CASE UNCHANGED <<loopVars, cliVars>>
  BY <1>7 DEF loopVars, cliVars
<1> QED
  BY <1>1, <1>2, <1>3, <1>4, <1>5, <1>6, <1>7
     DEF CliNext, Process, CliEnvironment, allVars, vars

\* The invariant of the command holds in every reachable state.
LEMMA AlwaysCli == CliSpec => []CliInv
<1>1. CliInit => CliInv
  BY CliInitInv
<1>2. CliInv /\ [CliNext]_allVars => CliInv'
  BY CliLoopInv, CliVarsTyped, CodeKept DEF CliInv
<1> QED
  BY <1>1, <1>2, PTL DEF CliSpec

-----------------------------------------------------------------------------

\* Every variable of the command and of the loop in it keeps its type.
THEOREM CliTypeCorrect == CliSpec => []CliTypeOK
<1>1. CliInv => CliTypeOK
  BY DEF CliInv, CliVarsOK, CliTypeOK, LoopInv, Typed
<1> QED
  BY <1>1, AlwaysCli, PTL

\* The exit code of a reported run is a function of its verdicts.
LEMMA Classified ==
    ASSUME CliInv, Reported
    PROVE  /\ exit = 1 <=> Ended("parse_error")
           /\ exit = 2 <=> ~soft /\ Ended("warm_error") /\ ~Ended("parse_error")
<1>1. /\ stats.ParseErrors \in Nat /\ stats.WarmErrors \in Nat
      /\ exit = ExitCode(stats, soft)
  BY DEF CliInv, CodeInv, LoopInv, Typed, TypeOK, Stats, Counters
<1>2. /\ stats.ParseErrors = 0 <=> ~Ended("parse_error")
      /\ stats.WarmErrors = 0 <=> ~Ended("warm_error")
  BY DEF CliInv, LoopInv, VerdictInv, Filed, Ended
<1> QED
  BY <1>1, <1>2 DEF ExitCode

\* Of a run that was not interrupted and that Zot let in, 1 means a malformed
\* reference, 2 a failed warm that strict mode does not forgive, and nothing
\* else is taken for either.
THEOREM CodeClassifies == CliSpec => []ExitClassifies
<1>1. CliInv => ExitClassifies
  BY Classified DEF ExitClassifies
<1> QED
  BY <1>1, AlwaysCli, PTL

\* The gate's argument: code 0 without --soft excludes both kinds of error,
\* a run that was not interrupted leaves nothing pending, and what is left,
\* hits and warms, Zot has.
LEMMA Gated == CliInv => GateSound
<1> SUFFICES ASSUME CliInv, Reported, exit = 0, ~soft, ~Cancelled,
                    NEW i \in 1..Len(images)
             PROVE  /\ ~images[i].malformed
                    /\ HasMapping(Parse(images[i])) => Present(RefOf(i))
  BY DEF GateSound
<1>1. ~Ended("parse_error") /\ ~Ended("warm_error")
  BY Classified
<1>2. ledger[i].kind \in Kinds
  BY DEF CliInv, LoopInv, Typed, TypeOK, Verdict
<1>3. ledger[i].kind # "pending"
  BY ListType DEF CliInv, LoopInv, Typed, TypeOK, LedgerInv, Settled, StopInv, Reported
<1>4. ledger[i].kind \in {"skipped", "cached", "warmed"}
  BY <1>1, <1>2, <1>3 DEF Kinds, Ended
<1>5. CASE ledger[i].kind = "skipped"
  BY <1>5 DEF CliInv, LoopInv, VerdictInv
<1>6. CASE ledger[i].kind \in {"cached", "warmed"}
  <2>1. Present(RefOf(i))
    BY <1>6 DEF CliInv, LoopInv, HeldInv, CachedIsPresent, OnceInv, PresentInv
  <2>2. images[i] \in Routed
    BY <1>6 DEF CliInv, LoopInv, VerdictInv
  <2> QED
    BY <2>1, <2>2 DEF Routed
<1> QED
  BY <1>4, <1>5, <1>6

\* A strict run that was not interrupted and exits 0 is a gate: every image of
\* the input that has a mapping is in Zot, whatever its size, its spelling and
\* what Zot's other clients did meanwhile.
THEOREM GateIsSound == CliSpec => []GateSound
BY Gated, AlwaysCli, PTL

-----------------------------------------------------------------------------
(* The steady state of the CronJob.                                         *)

\* What a steady run found in Zot when it began is still there.
StillThere == steady => AllPresent(images)

SteadyInv == Typed /\ StillThere /\ SteadyRun

-----------------------------------------------------------------------------

\* Zot loses nothing, so what was present of a list remains so.
LEMMA AllPresentKept ==
    ASSUME Typed, Grows, images' = images, AllPresent(images)
    PROVE  AllPresent(images)'
<1> SUFFICES ASSUME NEW i \in 1..Len(images), ~images[i].malformed,
                    HasMapping(Parse(images[i]))
             PROVE  Present(ZotRef(Parse(images[i])))'
  BY DEF AllPresent
<1>1. images[i] \in Routed
  BY ListType DEF Typed, TypeOK, Routed
<1> QED
  BY <1>1, RoutedRef, HeldGrows DEF AllPresent

\* In a steady run a HEAD that is answered finds its image.
LEMMA SteadyHit ==
    ASSUME SteadyInv, steady, pc = "probe"
    PROVE  Present(RefOf(next))
<1>1. next \in 1..Len(images) /\ images[next] \in Routed
  BY ListType DEF SteadyInv, Typed, TypeOK, HandInv, Busy, Working
<1> QED
  BY <1>1 DEF SteadyInv, StillThere, AllPresent, Routed, RefOf

\* A warm is counted at the end of one.
LEMMA WarmCounted ==
    ASSUME Typed, [Next]_vars, ~AtWarm
    PROVE  /\ stats'.Warmed = stats.Warmed
           /\ stats'.WarmErrors = stats.WarmErrors
<1>1. stats \in [Counters -> Nat]
  BY DEF Typed, TypeOK, Stats
<1>2. CASE LoopHead
  BY <1>1, <1>2 DEF LoopHead, Finish, StopCancelled, ParseFailure, SkipUnmapped,
                    BeginProbe, Count, Counters
<1>3. CASE Probe
  BY <1>1, <1>3 DEF Probe, ProbeHit, ProbeMiss, ProbeError, Count, Counters
<1>4. ~Warm /\ ~Children
  BY DEF Warm, WarmManifest, WarmIndex, IndexUnreadable, WarmError, Children,
         WarmChild, WarmChildError, ChildrenDone, AtWarm
<1>5. CASE Sleep \/ Environment \/ UNCHANGED vars
  BY <1>5 DEF Sleep, Environment, Cancel, vars, loopVars
<1> QED
  BY <1>2, <1>3, <1>4, <1>5 DEF Next, Step

-----------------------------------------------------------------------------

\* The first run has counted nothing.
LEMMA InitSteady == ClusterInit => SteadyInv
<1> SUFFICES ASSUME ClusterInit PROVE SteadyInv
  OBVIOUS
<1>1. Typed
  BY InitTyped DEF ClusterInit
<1>2. PICK list \in ImageLists : StartRun(list)
  BY DEF ClusterInit, Init
<1>3. SteadyRun
  BY <1>2 DEF StartRun, NewStats, Counters, SteadyRun
<1> QED
  BY <1>1, <1>3 DEF SteadyInv, StillThere, ClusterInit

\* Nor has the next one, whatever became of the one before.
LEMMA NextRunSteady ==
    ASSUME SteadyInv, NextRun
    PROVE  SteadyInv'
<1>1. PICK list \in ImageLists : EnterLoop(list) /\ steady' = AllPresent(list)
  BY DEF NextRun
<1>2. ZotTypeOK' /\ UNCHANGED zotVars
  BY ZotUnchanged DEF NextRun, SteadyInv, Typed, TypeOK
<1>3. Typed'
  BY <1>1, <1>2, EnterLoopInv DEF EnterLoop, LoopInv
<1>4. StillThere'
  BY <1>1, <1>2 DEF EnterLoop, EnterLoopAt, StillThere, AllPresent, Present, zotVars
<1>5. SteadyRun'
  BY <1>1 DEF EnterLoop, EnterLoopAt, NewStats, Counters, SteadyRun
<1> QED
  BY <1>3, <1>4, <1>5 DEF SteadyInv

\* A pod that dies leaves Zot, and the counters of its run, as they are.
LEMMA PodDiesSteady ==
    ASSUME SteadyInv, PodDies
    PROVE  SteadyInv'
<1>1. Typed'
  <2>1. ZotTypeOK'
    BY ZotUnchanged DEF PodDies, SteadyInv, Typed, TypeOK
  <2> QED
    BY <2>1 DEF PodDies, SteadyInv, Typed, TypeOK, HandInv, Busy, Working, Labels
<1>2. StillThere'
  BY DEF PodDies, SteadyInv, StillThere, AllPresent, Present, zotVars
<1>3. SteadyRun'
  BY DEF PodDies, SteadyInv, SteadyRun
<1> QED
  BY <1>1, <1>2, <1>3 DEF SteadyInv

\* A step of a run, or around it, leads a steady run into no warm.
LEMMA StepSteady ==
    ASSUME SteadyInv, [Next]_vars, UNCHANGED steady
    PROVE  SteadyInv'
<1>1. Typed /\ Typed' /\ Grows /\ images' = images
  BY NextTyped, LedgerStep DEF SteadyInv
<1>2. StillThere'
  BY <1>1, AllPresentKept DEF SteadyInv, StillThere
<1>3. SteadyRun'
  <2>1. SUFFICES ASSUME steady, stats'.ProbeErrors = 0
                 PROVE  stats'.Warmed = 0 /\ stats'.WarmErrors = 0 /\ ~AtWarm'
    BY DEF SteadyRun, AtWarm
  <2>2. /\ stats.ProbeErrors = 0 /\ ~ProbeError
        /\ stats.Warmed = 0 /\ stats.WarmErrors = 0 /\ ~AtWarm
    BY <1>1, <2>1, ProbeErrorsGrow DEF SteadyInv, SteadyRun, AtWarm
  <2>3. ~AtWarm'
    BY <1>1, <2>1, <2>2, WarmReached, SteadyHit
  <2> QED
    BY <1>1, <2>2, <2>3, WarmCounted
<1> QED
  BY <1>1, <1>2, <1>3 DEF SteadyInv

\* A run that begins with everything it finds in Zot, and whose probes are
\* answered, warms nothing, after any history of runs and of other clients.
THEOREM SteadyRunsWarmNothing == ClusterSpec => []SteadyRun
<1>1. ClusterInit => SteadyInv
  BY InitSteady
<1>2. SteadyInv /\ [ClusterNext]_clusterVars => SteadyInv'
  <2> SUFFICES ASSUME SteadyInv, [ClusterNext]_clusterVars
               PROVE  SteadyInv'
    OBVIOUS
  <2>1. CASE RunStep \/ (Environment /\ UNCHANGED steady) \/ UNCHANGED clusterVars
    BY <2>1, StepSteady DEF RunStep, Next, clusterVars
  <2> QED
    BY <2>1, NextRunSteady, PodDiesSteady DEF ClusterNext, ClusterEnvironment
<1>3. SteadyInv => SteadyRun
  BY DEF SteadyInv
<1> QED
  BY <1>1, <1>2, <1>3, PTL DEF ClusterSpec

-----------------------------------------------------------------------------
(* What a run has counted, after it has ended as well.                      *)

\* A hit is an image with a place in Zot; the rest of what the ledger of a
\* run says of its position is true until the run ends or the pod dies.
CountedInv ==
    /\ Typed /\ HeldInv
    /\ \A i \in 1..Len(images) : ledger[i].kind = "cached" => images[i] \in Routed
    /\ pc # "done" => LedgerInv

\* A run in progress counts what it should.
LEMMA CountedInRun ==
    ASSUME CountedInv, pc # "done", [Next]_vars
    PROVE  CountedInv'
<1>1. Typed' /\ HeldInv' /\ LedgerInv'
  BY NextTyped, NextChild, NextWarmed, NextCached, NextLedger
     DEF CountedInv, HeldInv
<1> QED
  BY <1>1 DEF CountedInv, LedgerInv

\* After it Zot's other clients take nothing away.
LEMMA CountedAfterRun ==
    ASSUME CountedInv, pc = "done", [Next]_vars
    PROVE  CountedInv'
<1>1. UNCHANGED loopVars
  <2>1. ~Step
    BY GiveUpCases
       DEF CountedInv, Step, LoopHead, Finish, StopCancelled, ParseFailure,
           SkipUnmapped, BeginProbe, TakesImage, Probe, ProbeHit, ProbeMiss,
           ProbeError, Warm, WarmManifest, WarmIndex, IndexUnreadable, WarmError,
           Children, WarmChild, WarmChildError, ChildrenDone, Sleep
  <2> QED
    BY <2>1 DEF Next, Environment, Cancel, vars
<1>2. Typed' /\ Grows
  BY NextTyped DEF CountedInv
<1>3. UNCHANGED <<images, pc, ledger>>
  BY <1>1 DEF loopVars
<1>4. WarmedIsStored'
  BY <1>2, <1>3, HeldGrows DEF CountedInv, HeldInv, WarmedIsStored, RefOf
<1>5. ASSUME NEW i \in 1..Len(images), ledger[i].kind = "cached"
      PROVE  Present(ZotRef(Parse(images[i])))'
  <2>1. images[i] \in Routed /\ Present(ZotRef(Parse(images[i])))
    BY <1>5 DEF CountedInv, HeldInv, CachedIsPresent, RefOf
  <2> QED
    BY <1>2, <1>3, <2>1, RoutedRef, HeldGrows
<1>6. CachedIsPresent'
  BY <1>3, <1>5 DEF CachedIsPresent, RefOf
<1> QED
  BY <1>2, <1>3, <1>4, <1>6 DEF CountedInv, HeldInv, ChildInv

\* A pod that dies has counted what it has.
LEMMA CountedPodDies ==
    ASSUME CountedInv, PodDies
    PROVE  CountedInv'
<1>1. UNCHANGED <<stored, tagged, access, upstream, moves, images, ledger>>
  BY DEF PodDies, zotVars
<1>2. HeldInv' /\ pc' = "done"
  BY <1>1 DEF PodDies, CountedInv, HeldInv, ChildInv, WarmedIsStored,
              CachedIsPresent, Covers, Present, RefOf
<1>3. Typed'
  <2>1. ZotTypeOK'
    BY ZotUnchanged DEF PodDies, CountedInv, Typed, TypeOK
  <2> QED
    BY <2>1 DEF PodDies, CountedInv, Typed, TypeOK, HandInv, Busy, Working, Labels
<1> QED
  BY <1>1, <1>2, <1>3 DEF CountedInv

\* The next run counts anew.
LEMMA CountedNextRun ==
    ASSUME CountedInv, NextRun
    PROVE  CountedInv'
<1>1. PICK list \in ImageLists : EnterLoop(list)
  BY DEF NextRun
<1>2. ZotTypeOK'
  BY ZotUnchanged DEF NextRun, CountedInv, Typed, TypeOK
<1>3. LoopInv'
  BY <1>1, <1>2, EnterLoopInv DEF EnterLoop
<1> QED
  BY <1>3 DEF LoopInv, CountedInv, LedgerInv

\* Whatever run a pod was killed in, and however many ran before: what the
\* run in hand has counted as warmed or cached is in Zot, and remains so.
THEOREM CountedIsHeld == ClusterSpec => [](WarmedIsStored /\ CachedIsPresent)
<1>1. ClusterInit => CountedInv
  BY InitTyped, InitHeld, InitLedger DEF ClusterInit, CountedInv, LedgerInv
<1>2. CountedInv /\ [ClusterNext]_clusterVars => CountedInv'
  <2> SUFFICES ASSUME CountedInv, [ClusterNext]_clusterVars
               PROVE  CountedInv'
    OBVIOUS
  <2>1. CASE RunStep \/ (Environment /\ UNCHANGED steady) \/ UNCHANGED clusterVars
    BY <2>1, CountedInRun, CountedAfterRun DEF RunStep, Next, clusterVars
  <2> QED
    BY <2>1, CountedNextRun, CountedPodDies DEF ClusterNext, ClusterEnvironment
<1>3. CountedInv => WarmedIsStored /\ CachedIsPresent
  BY DEF CountedInv, HeldInv
<1> QED
  BY <1>1, <1>2, <1>3, PTL DEF ClusterSpec

=============================================================================
