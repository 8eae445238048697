---------------------------- MODULE RailAdapter ----------------------------
(***************************************************************************)
(* The rail adapters (internal/card, ach, sepa, pix, upi): concurrent      *)
(* Authorize, Capture, Refund and GetStatus of one payment.  A call reads  *)
(* the payment's row, asks the rail, writes the row and emits an event;    *)
(* each of these is a step, and nothing protects one from the others'.     *)
(* Rows of different payments share nothing, so one payment is enough.     *)
(* Rows are durable; a memory store is one whose statements never fail.    *)
(* A restart that kills calls is a behaviour in which these calls take no  *)
(* further step.  The disputes of UPI are in Settlement.                   *)
(***************************************************************************)
EXTENDS RailOrders, Sequences, FiniteSets

CONSTANTS
    Calls,
    AttemptOf,      \* the attempt number the caller of each gives
    KeyOf,          \* the idempotency key it gives, 0 if none
    MaxInFlight,    \* bound: calls in progress
    MaxDbErrors     \* bound: failing statements

ASSUME AdapterAssumption ==
    /\ AttemptOf \in [Calls -> Nat \ {0}]
    /\ KeyOf \in [Calls -> Nat]
    /\ {MaxInFlight, MaxDbErrors} \subseteq Nat

VARIABLES
    row,            \* the payment's row in rail_requests
    pc,             \* the next step of each call
    op,             \* its operation
    ref,            \* the rail reference it read from the row
    todo,           \* the writes it has not made
    answer,         \* what it answers: status, error, and the reference it stores
    told,           \* whether it has an event to emit
    log,            \* calls whose event is in the audit log
    dbErrors

vars == <<family, orders, row, pc, op, ref, todo, answer, told, log, dbErrors>>

rail == <<family, orders>>
plan == <<todo, answer, told>>

Ops == {"authorize", "capture", "refund", "status"}
Statuses == {"unknown", "pending", "authorized", "captured", "refunded", "failed"}
Keys == {"authorize", "capture", "refund"} \X (Nat \ {0})
NoRef == <<"none", 0>>
Refs == Keys \cup {NoRef}
NoRow == [op |-> "none", key |-> NoRef, status |-> "unknown", ref |-> NoRef]

\* What an error tells the caller: that the rail declined (one of the codes for
\* funds, fraud, expiry or no detail), or no more than that something went wrong
\* (INVALID_REQUEST, RAIL_UNAVAILABLE).
Errors == {"none", "declined", "unclear"}
NoAnswer == [status |-> "unknown", ref |-> NoRef, error |-> "none"]
Rows == [op : Ops \ {"status"}, key : Keys, status : Statuses, ref : Refs]

\* A write of the row; that of a status query carries no operation.
WriteCalls ==
    [how : {"Upsert", "SetStatus"},
     row : Rows \cup [op : {"status"}, key : {NoRef}, status : Statuses, ref : Refs]]

Known == row # NoRow

TypeOK ==
    /\ family \in Families
    /\ DOMAIN orders \subseteq Keys
    /\ \A k \in DOMAIN orders : orders[k] \in OrderStates
    /\ row \in Rows \cup {NoRow}
    /\ pc \in [Calls -> {"idle", "read", "call", "write", "done"}]
    /\ op \in [Calls -> Ops \cup {"none"}]
    /\ ref \in [Calls -> Refs]
    /\ todo \in [Calls -> Seq(WriteCalls)]
    /\ answer \in [Calls -> [status : Statuses, ref : Refs, error : Errors]]
    /\ told \in [Calls -> BOOLEAN]
    /\ log \subseteq Calls
    /\ dbErrors \in 0 .. MaxDbErrors

Init ==
    /\ family \in Families
    /\ orders = <<>>
    /\ row = NoRow
    /\ pc = [c \in Calls |-> "idle"]
    /\ op = [c \in Calls |-> "none"]
    /\ ref = [c \in Calls |-> NoRef]
    /\ todo = [c \in Calls |-> <<>>]
    /\ answer = [c \in Calls |-> NoAnswer]
    /\ told = [c \in Calls |-> FALSE]
    /\ log = {}
    /\ dbErrors = 0

-----------------------------------------------------------------------------
(* What a call sends, and what it makes of an answer                         *)

\* The key of attempt n is the number n, whoever derives it: a caller that gives
\* keys (the retrying one of Middleware does) may give those of attempts.

\* The idempotency key: the caller's, or one that is derived, in which only
\* Authorize uses the attempt number.
Key(c) ==
    IF op[c] = "status" THEN NoRef
    ELSE <<op[c], IF KeyOf[c] # 0 THEN KeyOf[c]
                  ELSE IF op[c] = "authorize" THEN AttemptOf[c] ELSE 1>>

\* The rail's word as a status.  The card adapter takes for pending what it does
\* not know, the others for unknown.
CardStatus(word) == IF word = "odd" THEN "pending" ELSE word

\* SEPA's acceptance for settlement is a capture, that with a change a failure.
SepaStatus(word) ==
    CASE word = "accepted" -> "captured"
      [] word = "changed" -> "failed"
      [] word = "odd" -> "unknown"
      [] OTHER -> word

\* Mutant: a pending payment is taken for a settled one.
MapStatusPendingIsCaptured(word) ==
    CASE family = "card" -> CardStatus(word)
      [] family = "sepa" -> SepaStatus(word)
      [] OTHER -> IF word = "odd" THEN "unknown"
                  ELSE IF word = "pending" THEN "captured" ELSE word

\* Mutant: the rail's word is stored as it is.
MapStatusRaw(word) == word

MapStatus(word) ==
    CASE family = "card" -> CardStatus(word)
      [] family = "sepa" -> SepaStatus(word)
      [] OTHER -> IF word = "odd" THEN "unknown" ELSE word

\* The answer to a card refund.  "succeeded" is refunded here, and so is the
\* "received" of an order that is still open; an unknown word is pending.
MapRefundStatus(state) ==
    {"pending", IF state \in {"open", "taken"} THEN "refunded" ELSE "failed"}

Row(c, status, r) == [op |-> op[c], key |-> Key(c), status |-> status, ref |-> r]
Upsert(c, status, r) == [how |-> "Upsert", row |-> Row(c, status, r)]
SetStatus(c, status, r) == [how |-> "SetStatus", row |-> Row(c, status, r)]

\* Mutant: a capture or a refund leaves the row's other columns alone.
WritesStatusOnly(c, status, r) ==
    CASE op[c] = "authorize" -> <<Upsert(c, status, r), Upsert(c, status, r)>>
      [] OTHER -> <<SetStatus(c, status, r)>>

\* The writes after an answer, in their order.  Authorize writes its row twice,
\* and so does the ACH Capture after it has set the status.
Writes(c, status, r) ==
    CASE op[c] = "authorize" -> <<Upsert(c, status, r), Upsert(c, status, r)>>
      [] op[c] = "capture" /\ family = "ach" ->
            <<SetStatus(c, status, r), Upsert(c, status, r), Upsert(c, status, r)>>
      [] op[c] \in {"capture", "refund"} ->
            <<SetStatus(c, status, r), Upsert(c, status, r)>>
      [] op[c] = "status" -> <<SetStatus(c, status, r)>>

\* What the call has read is of no use from here on.
Does(c, writes, status, r, error, tells) ==
    /\ todo' = [todo EXCEPT ![c] = writes]
    /\ answer' = [answer EXCEPT ![c] = [status |-> status, ref |-> r, error |-> error]]
    /\ told' = [told EXCEPT ![c] = tells]
    /\ pc' = [pc EXCEPT ![c] = "write"]
    /\ ref' = [ref EXCEPT ![c] = NoRef]

Succeed(c, status, r) ==
    Does(c, Writes(c, status, r), status, r, "none", op[c] # "status")

\* Mutant: the key stands in for a reference the rail did not give.
FailWithKey(c, r, errors) ==
    \E e \in errors :
        Does(c, <<Upsert(c, "failed", Key(c))>>, "failed", Key(c), e, FALSE)

\* An error is written to the row and not announced.
Fail(c, r, errors) ==
    \E e \in errors : Does(c, <<Upsert(c, "failed", r)>>, "failed", r, e, FALSE)

\* What a code of the rail tells: most of them, and every unknown one, a decline.
MapCode == {"declined", "unclear"}

\* The error a failed request ends in.  A refusal (4xx) with a code is mapped by
\* it, whatever it is the rail refuses, a reference it does not know or a request
\* too many.  One without a code, a 5xx answer, one that cannot be read, a timeout
\* and a broken connection leave it open.
CardErrors(refused) == IF refused THEN MapCode ELSE {"unclear"}

\* A refused bank file is an INVALID_REQUEST.
AchErrors(refused) == {"unclear"}

ClearingErrors(refused) == IF refused THEN MapCode ELSE {"unclear"}

\* Mutant: what is no answer of the rail is a decline without detail.
MapErrNeverUnclear(refused) == {"declined"}

MapErr(refused) ==
    CASE family = "card" -> CardErrors(refused)
      [] family = "ach" -> AchErrors(refused)
      [] family \in {"sepa", "pix", "upi"} -> ClearingErrors(refused)

\* A call that ends without a trace is forgotten.
Leave(c) ==
    /\ pc' = [pc EXCEPT ![c] = "done"]
    /\ op' = [op EXCEPT ![c] = "none"]
    /\ ref' = [ref EXCEPT ![c] = NoRef]
    /\ UNCHANGED plan

\* A failed poll answers an error and writes nothing.
PollFails(c) == IF op[c] = "status" THEN Leave(c) ELSE Fail(c, ref[c], MapErr(TRUE)) /\ UNCHANGED op

-----------------------------------------------------------------------------
(* The store.  A failing statement is swallowed.                             *)

Works == UNCHANGED dbErrors
Fails == dbErrors < MaxDbErrors /\ dbErrors' = dbErrors + 1

Applied(write) ==
    IF write.how = "Upsert" THEN write.row
    ELSE IF Known THEN [row EXCEPT !.status = write.row.status]
    ELSE row

-----------------------------------------------------------------------------
(* The steps of a call                                                       *)

Begin(c) ==
    /\ pc[c] = "idle"
    /\ Cardinality({d \in Calls : pc[d] \in {"read", "call", "write"}}) < MaxInFlight
    /\ \E what \in Ops :
          /\ op' = [op EXCEPT ![c] = what]
          /\ pc' = [pc EXCEPT ![c] = IF what = "authorize" THEN "call" ELSE "read"]
    /\ UNCHANGED <<rail, row, ref, plan, log, dbErrors>>

Goto(c, step) == pc' = [pc EXCEPT ![c] = step]

\* What needs a reference to go on: without one GetStatus answers what the row
\* says, and a card capture is refused.
NeedsRef(c) == op[c] = "status" \/ (op[c] = "capture" /\ family = "card")

\* The row is read once, before the rail is asked.  A read that fails finds none.
Read(c) ==
    /\ pc[c] = "read"
    /\ \/ Leave(c)
       \/ /\ Known
          /\ NeedsRef(c) => row.ref # NoRef
          /\ ref' = [ref EXCEPT ![c] = row.ref]
          /\ Goto(c, "call")
          /\ UNCHANGED <<op, plan>>
    /\ UNCHANGED <<rail, row, log, dbErrors>>

\* A capture or refund whose bank file or SEPA message cannot be built is
\* refused without a trace.
RejectIncomplete(c) ==
    /\ pc[c] = "call"
    /\ \/ family = "ach" /\ op[c] \in {"capture", "refund"}
       \/ family = "sepa" /\ op[c] = "refund"
    /\ Leave(c)
    /\ UNCHANGED <<rail, row, log, dbErrors>>

\* SEPA, PIX and UPI capture by asking whether the payment went through.
Polls(c) == op[c] = "status" \/ (op[c] = "capture" /\ family \in {"sepa", "pix", "upi"})

\* What an adapter makes of the answer to its request, by the order's state.

CardAnswers(c, state) ==
    IF op[c] = "refund"
       THEN \E status \in MapRefundStatus(state) : Succeed(c, status, ref[c])
       ELSE \E word \in Words(state) :
               Succeed(c, MapStatus(word), IF op[c] = "capture" THEN ref[c] ELSE Key(c))

\* A file that the bank has accepted is as good as executed.
AchAnswers(c) ==
    Succeed(c, CASE op[c] = "authorize" -> "authorized"
                 [] op[c] = "capture" -> "captured"
                 [] op[c] = "refund" -> "refunded", Key(c))

\* So is a message that the gateway has accepted.  If its answer names no message,
\* an authorization stores its own key and a refund what the row named before.
SepaAnswers(c) ==
    IF op[c] = "authorize"
       THEN Succeed(c, "authorized", Key(c))
       ELSE Succeed(c, "refunded", Key(c)) \/ Succeed(c, "refunded", ref[c])

\* A payment may be refused with a return code, whatever its status but for one
\* word of the two for confirmed; of the answer to a refund neither is looked at.
PixAnswers(c, state) ==
    IF op[c] = "refund"
       THEN Succeed(c, "refunded", Key(c))
       ELSE \E word \in Words(state) :
               \/ Succeed(c, MapStatus(word), Key(c))
               \/ Fail(c, Key(c), MapCode)

\* Likewise with the response code of a collect; NPCI gives a confirmed one "00".
UpiAnswers(c, state) ==
    IF op[c] = "refund"
       THEN Succeed(c, "refunded", Key(c))
       ELSE \E word \in Words(state) :
               \/ Succeed(c, MapStatus(word), Key(c))
               \/ word # "captured" /\ Fail(c, Key(c), MapCode)

Answers(c, state) ==
    CASE family = "card" -> CardAnswers(c, state)
      [] family = "ach" -> AchAnswers(c)
      [] family = "sepa" -> SepaAnswers(c)
      [] family = "pix" -> PixAnswers(c, state)
      [] family = "upi" -> UpiAnswers(c, state)

\* What it makes of the answer to a poll.  A SEPA reason makes a rejection of an
\* unknown word too, and an error of a capture that is taken for failed.  A UPI capture takes any
\* response code but "00" for an error; PIX does not look at the return code here.

SepaPolled(c, word) ==
    \/ Succeed(c, MapStatus(word), ref[c])
    \/ /\ MapStatus(word) \in {"failed", "unknown"}
       /\ IF op[c] = "capture" THEN Fail(c, ref[c], MapCode) ELSE Succeed(c, "failed", ref[c])

UpiPolled(c, word) ==
    \/ Succeed(c, MapStatus(word), ref[c])
    \/ op[c] = "capture" /\ word # "captured" /\ Fail(c, ref[c], MapCode)

PixPolled(c, word) == Succeed(c, MapStatus(word), ref[c])

\* A return code is an error to the caller and failed in the row, whatever the
\* batch's status says.
\* A refused poll (4xx, but not 404) is read as a status with no word.
AchPolled(c, word) ==
    \/ Succeed(c, MapStatus(word), ref[c])
    \/ \E e \in MapCode : Does(c, Writes(c, "failed", ref[c]), "failed", ref[c], e, FALSE)

CardPolled(c, word) == Succeed(c, MapStatus(word), ref[c])

Polled(c, word) ==
    CASE family = "card" -> CardPolled(c, word)
      [] family = "ach" -> AchPolled(c, word)
      [] family = "sepa" -> SepaPolled(c, word)
      [] family = "pix" -> PixPolled(c, word)
      [] family = "upi" -> UpiPolled(c, word)

\* A request is lost, or refused with an error.  An Authorize that lacks a detail
\* of its rail and a PIX key that does not resolve fail alike, before the request.
NotPlaced(c) == Fail(c, ref[c], MapErr(TRUE)) /\ UNCHANGED orders

\* Mutant: the request may be repeated under the key of the next attempt.
ReachedAgain(c) ==
    \E n \in {0, 1} :
        LET key == <<op[c], Key(c)[2] + n>> IN
        \E books \in Request(key, ref[c]) :
            /\ orders' = books
            /\ \/ Fail(c, ref[c], MapErr(books[key] = "refused"))
               \/ Answers(c, books[key])

\* Or it reaches the rail; then its answer may be lost.
Reached(c) ==
    \E books \in Request(Key(c), ref[c]) :
        /\ orders' = books
        /\ \/ Fail(c, ref[c], MapErr(books[Key(c)] = "refused"))
           \/ Answers(c, books[Key(c)])

Submit(c) ==
    /\ pc[c] = "call"
    /\ ~Polls(c)
    /\ NotPlaced(c) \/ Reached(c)
    /\ UNCHANGED <<family, row, op, log, dbErrors>>

Poll(c) ==
    /\ pc[c] = "call"
    /\ Polls(c)
    /\ \/ PollFails(c)
       \/ /\ Found(ref[c])
          /\ \E word \in Words(orders[ref[c]]) : Polled(c, word)
          /\ UNCHANGED op
    /\ UNCHANGED <<rail, row, log, dbErrors>>

\* A call that has no event to emit returns after its last write.
Write(c) ==
    /\ pc[c] = "write"
    /\ todo[c] # <<>>
    /\ \/ Works /\ row' = Applied(Head(todo[c]))
       \/ Fails /\ UNCHANGED row
    /\ todo' = [todo EXCEPT ![c] = Tail(@)]
    /\ Goto(c, IF Len(todo[c]) = 1 /\ ~told[c] THEN "done" ELSE "write")
    /\ UNCHANGED <<rail, op, ref, answer, told, log>>

\* The event, and the answer to the caller.
Finish(c) ==
    /\ pc[c] = "write"
    /\ todo[c] = <<>>
    /\ log' = log \cup {c}
    /\ told' = [told EXCEPT ![c] = FALSE]
    /\ Goto(c, "done")
    /\ UNCHANGED <<rail, row, op, ref, todo, answer, dbErrors>>

RailProgress ==
    /\ Progress
    /\ UNCHANGED <<family, row, pc, op, ref, plan, log, dbErrors>>

Step(c) ==
    \/ Begin(c)
    \/ Read(c)
    \/ RejectIncomplete(c)
    \/ Submit(c)
    \/ Poll(c)
    \/ Write(c)
    \/ Finish(c)

Next == (\E c \in Calls : Step(c)) \/ RailProgress

Spec == Init /\ [][Next]_vars

-----------------------------------------------------------------------------
(* Safety *)

OnBooks(r) == r \in DOMAIN orders /\ orders[r] # "refused"

\* The orders that take the payer's money, and those that give it back.  The bank
\* file of an ACH refund says the same as the capture's, a debit: it is counted as
\* the refund it is meant for.
Debits == {k \in DOMAIN orders :
              OnBooks(k) /\ k[1] = (IF family = "ach" THEN "capture" ELSE "authorize")}
Refunds == {k \in DOMAIN orders : OnBooks(k) /\ k[1] = "refund"}

\* The money of the payment has left the payer.
MoneyTaken == \E k \in Debits : orders[k] \in {"taken", "repaid"}

\* The order a call asks about: the one its row named, or the one it placed.
Asked(c) == IF Polls(c) THEN answer[c].ref ELSE Key(c)

\* What a call announces is the rail's word on the order it asked about, however
\* late the call writes and whatever the others do meanwhile: an authorization is
\* on the rail's books, a capture by card, PIX or UPI has taken the money, one by
\* ACH or SEPA is on the books, where it may yet fall through, and a refund by card,
\* ACH or SEPA was not refused.  A card capture may name another order, a later
\* authorization, because captures share their keys.
AnnouncementsAreHonest ==
    \A c \in log :
        LET a == answer[c] IN
        /\ a.status = "authorized" => OnBooks(Asked(c))
        /\ a.status = "captured" =>
              /\ OnBooks(Asked(c))
              /\ family \in {"card", "pix", "upi"} =>
                    orders[Asked(c)] \in {"taken", "repaid"} /\ MoneyTaken
        /\ a.status = "refunded" /\ op[c] = "refund" /\ family \notin {"pix", "upi"} =>
              OnBooks(Asked(c))

Doing(what) == {c \in Calls : op[c] = what}

\* What names an authorization: its caller's key, or else its attempt number.
Given(c) == <<KeyOf[c], IF KeyOf[c] = 0 THEN AttemptOf[c] ELSE 0>>

\* However often captures, refunds and authorizations are repeated, after lost
\* answers and restarts and at the same time, the payer is charged at most once
\* for each key that authorizations are given, and for each attempt number of those
\* that are given none (ACH: for each key that captures are given, and once for all
\* that are given none), and is refunded at most once for each key that refunds are
\* given and once for all that are given none.
MoneyMovesOnce ==
    /\ Cardinality(Debits) <=
          IF family = "ach" THEN Cardinality({KeyOf[c] : c \in Doing("capture")})
          ELSE Cardinality({Given(c) : c \in Doing("authorize")})
    /\ Cardinality(Refunds) <= Cardinality({KeyOf[c] : c \in Doing("refund")})

\* A stored reference names an order that the rail has received, the rail's own or
\* the adapter's in its place: no lost or failed request leaves one to nothing.
ReferenceNamesAnOrder == row.ref # NoRef => row.ref \in DOMAIN orders

\* Between two writes of a call, or after an error there, a row may mix the
\* answers of two calls.
Torn ==
    \/ dbErrors > 0
    \/ \E c \in Calls : pc[c] = "write" /\ todo[c] # <<>>

\* Otherwise operation, key and reference of the row are those of one call and the
\* status is that call's answer or a later poll's.
RowIsOneAnswer ==
    Known /\ ~Torn =>
        \E c \in Calls :
            /\ row.op = op[c] /\ row.key = Key(c) /\ row.ref = answer[c].ref
            /\ \E d \in Calls : (d = c \/ op[d] = "status") /\ row.status = answer[d].status

\* A row says captured only if the money was taken, also after repeated, crossing
\* and failed calls: by card, PIX and UPI, where a reference names one payment.
CapturedMeansTaken ==
    family \in {"card", "pix", "upi"} /\ row.status = "captured" => MoneyTaken

\* A caller who is told that a request was declined may have the payer pay in
\* another way: the request has no order on the rail's books that takes or may yet
\* take the money, unless another call has asked with the same key.  PIX and UPI can
\* decline in the answer itself, by a code next to the order's reference, and an
\* order so answered may still go through: UPI's "ZP" is pending.
CodeInAnswer(c) == family \in {"pix", "upi"} /\ answer[c].ref = Key(c)

DeclinedTookNothing ==
    \A c \in Calls :
        /\ pc[c] \in {"write", "done"} /\ answer[c].error = "declined"
        /\ ~Polls(c) /\ ~CodeInAnswer(c)
        /\ OnBooks(Key(c)) /\ orders[Key(c)] # "returned"
        => \E d \in Calls \ {c} : pc[d] \in {"write", "done"} /\ Key(d) = Key(c)

-----------------------------------------------------------------------------
(* What the documents say and the code does not do *)

\* "Refund returns a captured / settled amount to the payer": nothing is refunded
\* of a payment that was never debited.
RefundsAreCovered == Refunds # {} => Debits # {}

=============================================================================
