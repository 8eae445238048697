---------------------------- MODULE RailOrders ----------------------------
(***************************************************************************)
(* The rail an adapter talks to, as the adapters and their tests use it: a *)
(* card processor, a bank partner, a SEPA gateway, the Brazilian SPI or    *)
(* NPCI.  It keeps an order per idempotency key: a request with a key it   *)
(* has seen is answered as before and does nothing.  An order's key is     *)
(* also the reference the rail gives back for it; a SEPA message is known  *)
(* by its own id, the key, if the gateway gives none.                      *)
(***************************************************************************)
EXTENDS Naturals

VARIABLES
    family,     \* the rail, chosen at start-up
    orders      \* what the rail has on its books: key -> state

Families == {"card", "ach", "sepa", "pix", "upi"}

OrderStates == {"open",         \* accepted
                "taken",        \* the money has moved
                "repaid",       \* and moved back
                "returned",     \* accepted, and fallen through later
                "refused"}      \* on the books as refused

\* The states a fresh order may have when the rail answers.  Bank files and
\* SEPA messages are accepted first and executed later.  Nobody can ask SPI or
\* NPCI for a refund (Found), so it does not matter when it is executed.
FreshStates(what) ==
    IF family \in {"ach", "sepa"} THEN {"open"}
    ELSE IF what = "capture" THEN {"taken"}
    ELSE IF what = "refund" /\ family \in {"pix", "upi"} THEN {"taken", "refused"}
    ELSE {"open", "taken", "refused"}

\* What the payment named in a request must be for the rail to accept it; a
\* bank or a SEPA gateway sees a file or a message that names no other.
Admits(what, ref) ==
    \/ what = "authorize"
    \/ family \in {"ach", "sepa"}
    \/ /\ ref \in DOMAIN orders
       /\ orders[ref] = (IF what = "capture" THEN "open" ELSE "taken")

\* The books after an accepted request: a capture takes the charge it names,
\* a refund repays it.
Placed(key, ref, state) ==
    [k \in DOMAIN orders \cup {key} |->
        IF k = key THEN state
        ELSE IF k = ref /\ key[1] = "capture" /\ orders[k] = "open" THEN "taken"
        ELSE IF k = ref /\ key[1] = "refund" /\ orders[k] = "taken" /\ state # "refused"
             THEN "repaid"
        ELSE orders[k]]

\* The books after a request that reached the rail.
Request(key, ref) ==
    IF key \in DOMAIN orders THEN {orders}
    ELSE IF Admits(key[1], ref)
         THEN {Placed(key, ref, s) : s \in FreshStates(key[1])}
         ELSE {}

\* A refund is no payment and no collect, so SPI and NPCI do not find it.
Found(ref) ==
    /\ ref \in DOMAIN orders
    /\ ~(family \in {"pix", "upi"} /\ ref[1] = "refund")

\* What the rail may say of an order in a state; "odd" is a word the adapter
\* has no case for.  SEPA knows no reservation and no refund of a message; it calls
\* one that it has not settled pending, accepted for settlement (ACSP, ACCD) or
\* accepted with a change (ACWC, ACCR).
SepaWords(state) ==
    CASE state = "open" -> {"pending", "accepted", "changed"}
      [] state \in {"taken", "repaid"} -> {"captured"}
      [] OTHER -> {"failed"}

OtherWords(state) ==
    CASE state = "open" -> {"authorized", "pending"}
      [] state = "taken" -> {"captured"}
      [] state = "repaid" -> {"captured", "refunded"}
      [] OTHER -> {"failed"}

Words(state) == {"odd"} \cup (IF family = "sepa" THEN SepaWords(state) ELSE OtherWords(state))

\* Time passes on the rail: an open order is executed or falls through, and a
\* bank may return a debit that it has executed.
Progress ==
    \E k \in DOMAIN orders :
        \/ orders[k] = "open" /\ orders' = [orders EXCEPT ![k] = "taken"]
        \/ /\ \/ orders[k] = "open"
              \/ family = "ach" /\ orders[k] = "taken"
           /\ orders' = [orders EXCEPT ![k] = "returned"]

=============================================================================
