----------------------------- MODULE MCMobileStore -----------------------------
(***************************************************************************)
(* An instance of MobileStore: two coroutines that may overlap, every       *)
(* operation that may fail, every value that a kill may truncate.           *)
(***************************************************************************)
EXTENDS MobileStore
===============================================================================
