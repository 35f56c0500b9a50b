------------------------------ MODULE WarmPass ------------------------------
(***************************************************************************)
(* What processor.Process promises of one pass over a list of images,      *)
(* whatever requests it takes: the images are settled one after the other, *)
(* each once and with a verdict that is true of the registry, a signal     *)
(* lets at most the image in hand be settled, and the pass ends.           *)
(***************************************************************************)
EXTENDS Naturals, Sequences

CONSTANT
    Lists       \* the lists a pass may be given

VARIABLES
    list,       \* the list of this pass
    verdict,    \* position in list -> verdict
    stopping,   \* 0, or the position in hand when the pass was interrupted
    over,       \* the pass has ended
    present,    \* the positions whose reference the registry answers
    covered     \* those the pass fetched with every manifest they stand for

vars == <<list, verdict, stopping, over, present, covered>>

Verdicts == {"parse_error", "skipped", "cached", "warmed", "warm_error"}

Pending(i) == verdict[i] = "pending"

\* All positions before i are settled.
UpTo(i) == \A j \in 1..(i - 1) : ~Pending(j)

Init ==
    /\ list \in Lists
    /\ verdict = [i \in 1..Len(list) |-> "pending"]
    /\ stopping = 0
    /\ over = FALSE
    /\ present \subseteq 1..Len(list)
    /\ covered = {}

\* The registry answers more and more, and forgets nothing.
Grow == present \subseteq present' /\ covered \subseteq covered'

Fill ==
    /\ UNCHANGED <<list, verdict, stopping, over>>
    /\ Grow

Settle(i, kind) ==
    /\ ~over
    /\ Pending(i)
    /\ UpTo(i)
    /\ stopping # 0 => i = stopping /\ kind \in {"warmed", "warm_error"}
    /\ verdict' = [verdict EXCEPT ![i] = kind]
    /\ kind = "cached" => i \in present
    /\ kind = "warmed" => i \in present' \cap covered'
    /\ Grow
    /\ UNCHANGED <<list, stopping, over>>

Interrupt(i) ==
    /\ ~over
    /\ stopping = 0
    /\ UpTo(i)
    /\ stopping' = i
    /\ UNCHANGED <<list, verdict, over, present, covered>>

End ==
    /\ ~over
    /\ stopping # 0 \/ UpTo(Len(list) + 1)
    /\ over' = TRUE
    /\ UNCHANGED <<list, verdict, stopping, present, covered>>

Next ==
    \/ Fill
    \/ \E i \in 1..Len(list), kind \in Verdicts : Settle(i, kind)
    \/ \E i \in 1..(Len(list) + 1) : Interrupt(i)
    \/ End

\* What a pass may do, and that it ends.
Safety == Init /\ [][Next]_vars

Spec == Safety /\ <>over

=============================================================================
