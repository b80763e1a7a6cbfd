---------------------------- MODULE MCAlertDelivery ----------------------------
(***************************************************************************)
(* Line 1 is an escalation by webhook, line 2 an e-mail, which only w1 is   *)
(* configured to send; any further line has a target that is refused.       *)
(***************************************************************************)
EXTENDS AlertDelivery

MCCanal == [d \in 1..N |-> CASE d = 1 -> "webhook" [] d = 2 -> "email" [] OTHER -> "autre"]
===============================================================================
