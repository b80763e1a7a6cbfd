------------------------------ MODULE MCWebRetry ------------------------------
(***************************************************************************)
(* Instances of WebRetry: tabs are interchangeable.                      *)
(***************************************************************************)
EXTENDS WebRetry, TLC

Symetrie == Permutations(Onglets)
===============================================================================
