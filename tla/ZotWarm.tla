------------------------------- MODULE ZotWarm -------------------------------
(***************************************************************************)
(* One invocation of cmd/zot-warm, the command line tool a CI gate waits   *)
(* for: arguments, configuration and input, each of which may end it; the  *)
(* warming loop of Processor under a context that a signal or the scan     *)
(* time-out cancels; and the exit code.                                    *)
(***************************************************************************)
EXTENDS Processor

\* Until the input has been read there is no image.
ASSUME NoImageAssumption == <<>> \in ImageLists

VARIABLES
    stage,      \* how far run() has got
    soft,       \* --soft
    exit        \* the exit code; None while it runs, or when killed

cliVars == <<stage, soft, exit>>
allVars == <<vars, cliVars>>

Stages    == {"args", "config", "input", "ready", "process", "exited"}
ExitCodes == {0, 1, 2}

CliInit ==
    /\ ZotInit
    /\ StartRun(<<>>)
    /\ stage = "args"
    /\ soft \in BOOLEAN
    /\ exit = None

Exit(code) ==
    /\ stage' = "exited"
    /\ exit' = code
    /\ UNCHANGED soft

GoOn(from, to) ==
    /\ stage = from
    /\ stage' = to
    /\ UNCHANGED <<soft, exit>>

-----------------------------------------------------------------------------
(* Before the context exists.                                               *)

\* --help, -h or --version.
AskHelp == stage = "args" /\ Exit(0) /\ UNCHANGED vars

\* A flag that does not parse, no argument, or more than one.
BadArgs == stage = "args" /\ Exit(1) /\ UNCHANGED vars

TakeArgs == GoOn("args", "config") /\ UNCHANGED vars

ConfigError == stage = "config" /\ Exit(1) /\ UNCHANGED vars

LoadConfig == GoOn("config", "input") /\ UNCHANGED vars

\* The input cannot be read, or holds no image reference.
InputError == stage = "input" /\ Exit(1) /\ UNCHANGED vars

\* The context with its signal handler and its deadline is made here.
CollectInput ==
    /\ GoOn("input", "ready")
    /\ \E list \in ImageLists : list # <<>> /\ EnterLoop(list)
    /\ UNCHANGED zotVars

\* No handler is installed yet: a signal kills the process.
Killed ==
    /\ stage \in {"args", "config", "input"}
    /\ Exit(None)
    /\ UNCHANGED vars

-----------------------------------------------------------------------------
(* Process and the exit code.                                               *)

\* A bad URL, or a transport that cannot be set up.
InitError == stage = "ready" /\ Exit(1) /\ UNCHANGED vars

StartLoop == GoOn("ready", "process") /\ UNCHANGED vars

Work == stage = "process" /\ Step /\ UNCHANGED cliVars

\* Mutant of ExitCode: --soft forgives malformed references as well.
SoftForgivesAll(s, isSoft) ==
    IF isSoft THEN 0
    ELSE IF s.ParseErrors > 0 THEN 1
    ELSE IF s.WarmErrors > 0 THEN 2
    ELSE 0

ExitCode(s, isSoft) ==
    IF s.ParseErrors > 0 THEN 1
    ELSE IF s.WarmErrors > 0 /\ ~isSoft THEN 2
    ELSE 0

Report ==
    /\ stage = "process"
    /\ pc = "done"
    /\ Exit(ExitCode(stats, soft))
    /\ UNCHANGED vars

CliCancel == stage \in {"ready", "process"} /\ Cancel /\ UNCHANGED cliVars

-----------------------------------------------------------------------------

SetUp == \/ AskHelp \/ BadArgs \/ TakeArgs \/ ConfigError \/ LoadConfig
         \/ InputError \/ CollectInput

Process == InitError \/ StartLoop \/ Work \/ Report

CliEnvironment ==
    \/ Killed
    \/ CliCancel
    \/ ZotNext /\ stage # "exited" /\ UNCHANGED <<loopVars, cliVars>>

CliNext == SetUp \/ Process \/ CliEnvironment

\* Set-up gets no fairness: the read of standard input may wait for ever.
CliSpec == CliInit /\ [][CliNext]_allVars /\ WF_allVars(Process)

-----------------------------------------------------------------------------

CliTypeOK ==
    /\ TypeOK
    /\ stage \in Stages
    /\ soft \in BOOLEAN
    /\ exit \in ExitCodes \cup {None}

\* The loop has run to its end and the exit code says how.
Reported == stage = "exited" /\ pc = "done"

Ended(kind) == \E i \in 1..Len(images) : ledger[i].kind = kind

\* A strict run that was not interrupted and exits 0 is a gate one can deploy
\* behind: Zot has a manifest for every image of the input it has a mapping
\* for, however the probes, the warms and the other clients interleaved, and
\* none was malformed (exitCode, "all images cached or successfully warmed").
GateSound ==
    (Reported /\ exit = 0 /\ ~soft /\ ~Cancelled) =>
        \A i \in 1..Len(images) :
            /\ ~images[i].malformed
            /\ HasMapping(Parse(images[i])) => Present(RefOf(i))

\* Of a run that was not interrupted and that Zot let in, the exit code says
\* what became of the single images: 1 means a malformed reference, whatever
\* --soft says and however many warms failed; 2 a failed warm that strict mode
\* does not forgive (exitCode).  It says nothing of other runs, of which the
\* documentation asks for 1: the code leaves them to the same counters.
ExitClassifies ==
    (Reported /\ ~Cancelled /\ access = "ok") =>
        /\ exit = 1 <=> Ended("parse_error")
        /\ exit = 2 <=> ~soft /\ Ended("warm_error") /\ ~Ended("parse_error")

\* Once the input is read the program exits, whatever Zot does and whether or
\* not the context is cancelled (run, Process).
Exits == stage = "ready" ~> stage = "exited"

\* What cmd/zot-warm/main.go:178-179 says: cancellation that left images
\* unprocessed is a hard failure.
DroppedIsHard == (Reported /\ Ended("pending")) => exit = 1

=============================================================================
