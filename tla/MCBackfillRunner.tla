--------------------------- MODULE MCBackfillRunner ---------------------------
(***************************************************************************)
(* Instances of BackfillRunner: one run, taken by one worker at a time.    *)
(***************************************************************************)
EXTENDS BackfillRunner
===============================================================================
