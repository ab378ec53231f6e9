----------------------------- MODULE MailDelivery -----------------------------
(***************************************************************************)
(* What the outbox promises about each mail: once queued it is offered     *)
(* until it is settled; it counts as sent only after it arrived at least   *)
(* once; and a mail that is settled is never offered again.                *)
(***************************************************************************)
EXTENDS Naturals

CONSTANT Mails

VARIABLES state, arrived   \* how far each mail is; how often it arrived

mail == <<state, arrived>>

Init ==
  /\ state = [m \in Mails |-> "none"]
  /\ arrived = [m \in Mails |-> 0]

Queue(m) ==
  /\ state[m] = "none"
  /\ state' = [state EXCEPT ![m] = "queued"]
  /\ UNCHANGED arrived

Arrive(m) ==
  /\ state[m] = "queued"
  /\ arrived' = [arrived EXCEPT ![m] = @ + 1]
  /\ UNCHANGED state

Settle(m, end) ==
  /\ state[m] = "queued"
  /\ end = "sent" => arrived[m] > 0
  /\ state' = [state EXCEPT ![m] = end]
  /\ UNCHANGED arrived

Next == \E m \in Mails :
  Queue(m) \/ Arrive(m) \/ \E end \in {"sent", "failed"} : Settle(m, end)

Spec == Init /\ [][Next]_mail
============================================================================
