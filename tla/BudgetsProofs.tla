--------------------------- MODULE BudgetsProofs ----------------------------
(***************************************************************************)
(* The budgets of the warming loop, for time-outs of any length, any       *)
(* number of images, children and attempts.                                *)
(***************************************************************************)
EXTENDS Budgets, TLAPS

Phases == {"loop", "head", "get", "body", "done"}

\* Times are numbers.
TimesOK ==
    /\ now \in Nat /\ deadline \in Nat /\ began \in Nat
    /\ budget \in Nat /\ sent \in Nat
    /\ phase \in Phases

\* The run's context ends before the Job does, and no later than it ends, or
\* the budget of what is in hand, the program stops waiting.
Clock ==
    /\ deadline < ActiveDeadline
    /\ phase # "done" => now <= deadline
    /\ phase \in {"head", "get", "body"} => now <= budget

\* The budget of the probe runs from the moment the image is taken, that of
\* the warm from the end of the probe's at the latest.
Budgeted ==
    /\ phase = "head" => budget <= began + ProbeTimeout
    /\ phase \in {"get", "body"} => budget <= began + ProbeTimeout + WarmTimeout

BudgetInv == TimesOK /\ Clock /\ Budgeted

\* A derived context ends when the first of the two does.
LEMMA CtxEndIsFirst ==
    ASSUME TimesOK
    PROVE  /\ CtxEnd \in Nat
           /\ CtxEnd <= budget /\ CtxEnd <= deadline
           /\ CtxEnd = budget \/ CtxEnd = deadline
<1> DEFINE S == {budget, deadline}
<1>1. \E x \in S : \A y \in S : x <= y
  BY DEF TimesOK
<1>2. CtxEnd \in S /\ \A y \in S : CtxEnd <= y
  BY <1>1 DEF CtxEnd, Min
<1> QED
  BY <1>2 DEF TimesOK

\* A run starts within all its budgets.
LEMMA InitBudget == Init => BudgetInv
BY BudgetAssumption, JobAssumption
   DEF Init, BudgetInv, TimesOK, Clock, Budgeted, Phases

\* Time passes only up to the end of the context in hand, and each budget is
\* derived from the moment at which the one before it was still running.
LEMMA NextBudget ==
    ASSUME BudgetInv, [Next]_vars
    PROVE  BudgetInv'
<1> USE BudgetAssumption DEF BudgetInv, TimesOK, Clock, Budgeted, Phases
<1>1. CASE Tick
  BY <1>1, CtxEndIsFirst DEF Tick, Expired
<1>2. CASE Take
  BY <1>2 DEF Take, Request
<1>3. CASE Stop
  BY <1>3 DEF Stop
<1>4. CASE Hit \/ Warmed \/ TimesOut \/ Refused
  BY <1>4 DEF Hit, Warmed, TimesOut, Refused, NextImage, Request
<1>5. CASE BeginWarm
  BY <1>5 DEF BeginWarm, Request
<1>6. CASE Retry
  BY <1>6 DEF Retry, Waiting
<1>7. CASE Headers \/ NextChild
  BY <1>7 DEF Headers, NextChild, Request
<1>8. CASE UNCHANGED vars
  BY <1>8 DEF vars
<1> QED
  BY <1>1, <1>2, <1>3, <1>4, <1>5, <1>6, <1>7, <1>8 DEF Next, Step

\* The budgets hold in every reachable state.
LEMMA AlwaysBudgeted == Spec => []BudgetInv
<1>1. Init => BudgetInv
  BY InitBudget
<1>2. BudgetInv /\ [Next]_vars => BudgetInv'
  BY NextBudget
<1> QED
  BY <1>1, <1>2, PTL DEF Spec

\* The run is over before the Job's deadline, whatever time-outs the program
\* is built with, as long as the scan time-out fits into the Job.
THEOREM RunFitsJob == Spec => []EndsBeforeJob
<1>1. BudgetInv => EndsBeforeJob
  BY BudgetAssumption DEF BudgetInv, TimesOK, Clock, EndsBeforeJob
<1> QED
  BY <1>1, AlwaysBudgeted, PTL

\* No image takes longer than its probe and its warm time-out together, however
\* many children it has and attempts they take.
THEOREM ImagesAreBounded == Spec => []ImageBounded
<1>1. BudgetInv => ImageBounded
  BY BudgetAssumption DEF BudgetInv, TimesOK, Clock, Budgeted, ImageBounded
<1> QED
  BY <1>1, AlwaysBudgeted, PTL

=============================================================================
