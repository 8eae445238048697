---------------------------- MODULE MCRailService ----------------------------
(* Workloads for RailService.                                              *)
EXTENDS RailService, TLC

CONSTANTS h1, h2, h3, h4, p1, p2

Authorize(p, a) == [op |-> "authorize", pid |-> p, amount |-> a, fail |-> FALSE]
AuthorizeFailing(p, a) == [op |-> "authorize", pid |-> p, amount |-> a, fail |-> TRUE]
Capture(p, a) == [op |-> "capture", pid |-> p, amount |-> a]
Refund(p, a) == [op |-> "refund", pid |-> p, amount |-> a]
Poll(p) == [op |-> "status", pid |-> p]
Webhook(p, s) == [op |-> "webhook", pid |-> p, status |-> s]

\* The lifecycle of one payment with its debug flag, a status poll and two
\* notifications that race it.
OnePayment ==
    {Authorize(p1, 2), AuthorizeFailing(p1, 2), Capture(p1, 2), Refund(p1, 1),
     Poll(p1), Webhook(p1, "settled"), Webhook(p1, "failed")}

\* Every kind of request for one payment and two for another one.
TwoPayments == OnePayment \cup {Authorize(p2, 1), Capture(p2, 1)}

\* One authorization and its capture, to be sent again and again.
AuthorizeAndCapture == {Authorize(p1, 1), Capture(p1, 1)}

HandlerSymmetry == Permutations(Handlers)
=============================================================================
