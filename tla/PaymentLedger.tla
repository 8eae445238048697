---------------------------- MODULE PaymentLedger ----------------------------
(***************************************************************************)
(* What the service promises a client that waits for each answer before it *)
(* sends the next request: a payment is captured only when authorized and  *)
(* refunded only when captured or settled, each change of status and its   *)
(* effect on the net total happen together, and only the rail's own        *)
(* notifications move a payment otherwise.                                 *)
(***************************************************************************)
EXTENDS Integers

CONSTANTS Payments, Amounts, Statuses

VARIABLES
    status,     \* "none" before the first authorization
    net         \* captured minus refunded

Init ==
    /\ status = [p \in Payments |-> "none"]
    /\ net = 0

Move(p, s) == status' = [status EXCEPT ![p] = s]

Authorize(p) == Move(p, "authorized") /\ UNCHANGED net

Capture(p, a) ==
    /\ status[p] = "authorized"
    /\ Move(p, "captured")
    /\ net' = net + a

Refund(p, a) ==
    /\ status[p] \in {"captured", "settled"}
    /\ Move(p, "refunded")
    /\ net' = net - a

Notify(p, s) ==
    /\ status[p] # "none"
    /\ Move(p, s)
    /\ UNCHANGED net

Next ==
    \E p \in Payments :
        \/ Authorize(p)
        \/ \E a \in Amounts : Capture(p, a) \/ Refund(p, a)
        \/ \E s \in Statuses : Notify(p, s)

Spec == Init /\ [][Next]_<<status, net>>

=============================================================================
