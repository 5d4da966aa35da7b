---------------------------- MODULE PaymentLedger ----------------------------
(* What the rest of the backend may rely on of a payment: it is opened     *)
(* once, is settled at most once and a settlement is only ever refunded.   *)
VARIABLE status

Opened == status = "NONE" /\ status' = "OPEN"
Settled == status = "OPEN" /\ status' = "PAID"
Refunded == status \in {"OPEN", "PAID"} /\ status' = "REFUNDED"

Spec == status = "NONE" /\ [][Opened \/ Settled \/ Refunded]_status
=============================================================================
