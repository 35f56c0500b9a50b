------------------------------ MODULE MCBudgets ------------------------------
(***************************************************************************)
(* The default time-outs in units of ten seconds, for a run of two images  *)
(* of which each may be an index with one child, in a Job whose pod takes  *)
(* up to four minutes and a half to start.                                 *)
(***************************************************************************)
EXTENDS Budgets

MCChildren == {0, 1}
MCStarts   == {0, 27}

=============================================================================
