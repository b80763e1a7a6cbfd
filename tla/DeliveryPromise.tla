---------------------------- MODULE DeliveryPromise ----------------------------
(***************************************************************************)
(* What the outbox of alerts promises to whoever reads alert_delivery, with *)
(* no word of who delivers: a line moves by whole attempts, each counted    *)
(* once, a line that is settled stays settled, and every line is settled in *)
(* the end.  AlertDelivery implements it.                                   *)
(***************************************************************************)
EXTENDS Naturals

CONSTANTS Livraisons,   \* lines of alert_delivery
          MAX_ATTEMPTS  \* attempts after which a line is dead

VARIABLES status, attempts
vars == <<status, attempts>>

Soldes == {"delivered", "dead", "skipped"}

Init ==
  /\ status = [d \in Livraisons |-> "absent"]
  /\ attempts = [d \in Livraisons |-> 0]

Mettre(d) ==
  /\ status[d] = "absent"
  /\ status' = [status EXCEPT ![d] = "queued"]
  /\ UNCHANGED attempts

\* An attempt succeeds, fails for good, or fails and may be repeated.
Tenter(d) ==
  /\ status[d] \in {"queued", "failed"}
  /\ attempts[d] < MAX_ATTEMPTS
  /\ attempts' = [attempts EXCEPT ![d] = @ + 1]
  /\ \E s \in {"delivered", "dead", "failed"} :
       /\ s = "failed" => attempts[d] + 1 < MAX_ATTEMPTS
       /\ status' = [status EXCEPT ![d] = s]

\* A line nothing can deliver is settled without an attempt.
Renoncer(d) ==
  /\ status[d] \in {"queued", "failed"}
  /\ status' = [status EXCEPT ![d] = "skipped"]
  /\ UNCHANGED attempts

Next == \E d \in Livraisons : Mettre(d) \/ Tenter(d) \/ Renoncer(d)

Fairness == \A d \in Livraisons : WF_vars(Tenter(d) \/ Renoncer(d))

Surete == Init /\ [][Next]_vars

Spec == Surete /\ Fairness
===============================================================================
