----------------------------- MODULE ChargeLedger -----------------------------
(***************************************************************************)
(* What billing promises about each charge, whatever the handlers, the     *)
(* webhooks, the sweep and the gateway do in between: a charge is captured *)
(* once, granted once and only after it was captured, paid back at most    *)
(* once and only after it was granted; it is written down as refunded only *)
(* after it was paid back, and from then on its plan is not waiting.       *)
(***************************************************************************)
EXTENDS Naturals

CONSTANTS Charges, NoCharge

VARIABLES
  captured,  \* charges whose money the gateway has taken
  granted,   \* charges the organization has been given its plan for
  paidBack,  \* how many times the gateway returned each charge
  recorded,  \* charges the program shows as refunded
  queued     \* the charge whose plan is waiting for the period to end

ledger == <<captured, granted, paidBack, recorded, queued>>

LedgerTypeOK ==
  /\ captured \subseteq Charges
  /\ granted \subseteq Charges
  /\ paidBack \in [Charges -> Nat]
  /\ recorded \subseteq Charges
  /\ queued \in Charges \union {NoCharge}

Init ==
  /\ captured = {} /\ granted = {} /\ recorded = {}
  /\ paidBack = [c \in Charges |-> 0]
  /\ queued = NoCharge

Capture(c) ==
  /\ c \notin captured
  /\ captured' = captured \union {c}
  /\ UNCHANGED <<granted, paidBack, recorded, queued>>

\* The plan starts at once, or waits in place of whatever was waiting.
Grant(c) ==
  /\ c \in captured \ granted
  /\ granted' = granted \union {c}
  /\ queued' \in {c, NoCharge}
  /\ UNCHANGED <<captured, paidBack, recorded>>

PayBack(c) ==
  /\ c \in granted
  /\ paidBack[c] = 0
  /\ paidBack' = [paidBack EXCEPT ![c] = 1]
  /\ UNCHANGED <<captured, granted, recorded, queued>>

Record(c) ==
  /\ c \notin recorded
  /\ paidBack[c] > 0
  /\ recorded' = recorded \union {c}
  /\ queued' \in {queued, NoCharge} \ {c}
  /\ UNCHANGED <<captured, granted, paidBack>>

\* The waiting plan has started, was replaced by an admin or was given up.
Withdraw ==
  /\ queued' = NoCharge
  /\ UNCHANGED <<captured, granted, paidBack, recorded>>

Next == Withdraw \/ \E c \in Charges : Capture(c) \/ Grant(c) \/ PayBack(c) \/ Record(c)

Spec == Init /\ [][Next]_ledger

\* Each stage of a charge rests on the one before it.
Consistent ==
  /\ granted \subseteq captured
  /\ \A c \in Charges : paidBack[c] <= 1 /\ (paidBack[c] = 1 => c \in granted)
  /\ \A c \in recorded : paidBack[c] = 1
  /\ queued # NoCharge => queued \in granted \ recorded
============================================================================
