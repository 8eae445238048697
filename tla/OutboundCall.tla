---------------------------- MODULE OutboundCall ----------------------------
(***************************************************************************)
(* What an outbound call promises its caller, whatever the breaker, the    *)
(* retries and the network do: the rail approves the operation for a       *)
(* payment at most Limit times, a call is answered at most once, and "ok"  *)
(* means the rail has approved.  Nothing is promised of the other answers: *)
(* the rail may have approved a call that returns "unavailable".           *)
(***************************************************************************)
EXTENDS Naturals

CONSTANTS Calls, Payments, PaymentOf, Limit

VARIABLES
    approvals,  \* how often the rail approved the operation for a payment
    answer      \* what each call was told

Answers == {"ok", "declined", "unavailable", "invalid"}

Init ==
    /\ approvals = [p \in Payments |-> 0]
    /\ answer = [c \in Calls |-> "none"]

Approve(p) ==
    /\ approvals[p] < Limit
    /\ approvals' = [approvals EXCEPT ![p] = @ + 1]
    /\ UNCHANGED answer

Return(c, a) ==
    /\ answer[c] = "none"
    /\ a = "ok" => approvals[PaymentOf[c]] > 0
    /\ answer' = [answer EXCEPT ![c] = a]
    /\ UNCHANGED approvals

Next ==
    \/ \E p \in Payments : Approve(p)
    \/ \E c \in Calls, a \in Answers : Return(c, a)

Spec == Init /\ [][Next]_<<approvals, answer>>

=============================================================================
