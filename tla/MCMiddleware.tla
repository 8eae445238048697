---------------------------- MODULE MCMiddleware ----------------------------
(* Three calls replay one payment, or two do and the third is for another. *)
EXTENDS Middleware, TLC

CONSTANTS c1, c2, c3, p1, p2

ThreeOnOnePayment == (c1 :> p1) @@ (c2 :> p1) @@ (c3 :> p1)
TwoOnOnePayment == (c1 :> p1) @@ (c2 :> p1) @@ (c3 :> p2)
=============================================================================
