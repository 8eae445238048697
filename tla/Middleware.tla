----------------------------- MODULE Middleware -----------------------------
(***************************************************************************)
(* middleware.Call: concurrent outbound calls on one scope, each a bounded *)
(* retry loop whose attempts pass the shared circuit breaker.  The rail is *)
(* outside: it receives requests named by their idempotency key            *)
(* <payment>:<operation>:<attempt>, decides each key once, at any moment   *)
(* after it was sent, and its answer may be lost.                          *)
(***************************************************************************)
EXTENDS CircuitBreaker, FiniteSets

CONSTANTS
    Calls,          \* invocations of Middleware.Call, each used once
    Payments,
    PaymentOf,      \* the payment a call is made for
    MaxAttempts     \* RETRY_MAX_ATTEMPTS

ASSUME CallAssumption ==
    /\ PaymentOf \in [Calls -> Payments]
    /\ MaxAttempts \in Nat \ {0}

VARIABLES
    pc,         \* where each call is, one of Places
    attempt,    \* the loop counter of retry.Do, 0 before the loop
    result,     \* what the caller was told
    verdict,    \* what the rail did with each idempotency key
    late        \* history: the calls that have sent a request since the breaker
                \* opened; nothing reads it but the properties

callVars == <<pc, attempt, result, verdict, late>>
vars == <<state, failures, elapsed, opens, pc, attempt, result, verdict, late>>

\* "try" is the top of an attempt, before it asks the breaker; "admitted" is
\* between the breaker's yes and the request; "inflight" waits for the answer.
Places == {"idle", "try", "admitted", "inflight", "backoff", "done"}

Keys == Payments \X (1 .. MaxAttempts)

\* The error classes the loop and the caller tell apart: a rail error that is
\* final, RAIL_UNAVAILABLE, and any other error, which AsError turns into
\* INVALID_REQUEST.
Results == {"none", "ok", "declined", "unavailable", "invalid"}

TypeOK ==
    /\ BreakerTypeOK
    /\ pc \in [Calls -> Places]
    /\ attempt \in [Calls -> 0 .. MaxAttempts]
    /\ result \in [Calls -> Results]
    /\ verdict \in [Keys -> {"unsent", "pending", "approved", "declined"}]
    /\ late \subseteq Calls

Init ==
    /\ BreakerInit
    /\ pc = [c \in Calls |-> "idle"]
    /\ attempt = [c \in Calls |-> 0]
    /\ result = [c \in Calls |-> "none"]
    /\ verdict = [k \in Keys |-> "unsent"]
    /\ late = {}

IdempotencyKey(c) == <<PaymentOf[c], attempt[c]>>

\* The history of a step: requests are remembered while the breaker is open.
RememberLate ==
    late' = IF state' = "open"
               THEN late \cup {c \in Calls : state = "open" /\ pc[c] = "admitted"
                                                 /\ pc'[c] = "inflight"}
               ELSE {}

\* Mutant: the loop stores the answer and goes on.
ReturnForgotten(c, r) ==
    /\ result' = [result EXCEPT ![c] = r]
    /\ UNCHANGED pc

Return(c, r) ==
    /\ pc' = [pc EXCEPT ![c] = "done"]
    /\ result' = [result EXCEPT ![c] = r]

\* Mutant: the loop runs once more than MaxAttempts.
RetryOnceMore(c) ==
    IF attempt[c] <= MaxAttempts
       THEN pc' = [pc EXCEPT ![c] = "backoff"] /\ UNCHANGED result
       ELSE Return(c, "unavailable")

\* Mutant: the loop falls through without its last error.
GiveUpSilently(c) ==
    IF attempt[c] < MaxAttempts
       THEN pc' = [pc EXCEPT ![c] = "backoff"] /\ UNCHANGED result
       ELSE Return(c, "ok")

\* A retryable error ends the loop at the last attempt, else the call sleeps.
RetryOrGiveUp(c) ==
    IF attempt[c] < MaxAttempts
       THEN pc' = [pc EXCEPT ![c] = "backoff"] /\ UNCHANGED result
       ELSE Return(c, "unavailable")

\* Call consults the breaker before it enters the loop.
Start(c) ==
    /\ pc[c] = "idle"
    /\ \/ /\ Allow
          /\ pc' = [pc EXCEPT ![c] = "try"]
          /\ attempt' = [attempt EXCEPT ![c] = 1]
          /\ UNCHANGED result
       \/ /\ Refuse
          /\ Return(c, "unavailable")
          /\ UNCHANGED attempt
    /\ RememberLate
    /\ UNCHANGED verdict

\* Mutant: only Call consults the breaker, the attempts do not.
AdmitUnguarded(c) ==
    /\ pc[c] = "try"
    /\ pc' = [pc EXCEPT ![c] = "admitted"]
    /\ UNCHANGED breakerVars
    /\ RememberLate
    /\ UNCHANGED <<attempt, result, verdict>>

\* An attempt consults the breaker again; a refusal is a RAIL_UNAVAILABLE of
\* the attempt, so it uses the attempt up.
Admit(c) ==
    /\ pc[c] = "try"
    /\ \/ /\ Allow
          /\ pc' = [pc EXCEPT ![c] = "admitted"]
          /\ UNCHANGED result
       \/ /\ Refuse
          /\ RetryOrGiveUp(c)
    /\ RememberLate
    /\ UNCHANGED <<attempt, verdict>>

\* The request goes out.  The breaker's lock was released when Allow returned,
\* so by now another call's failure may have opened it.
Dispatch(c) ==
    /\ pc[c] = "admitted"
    /\ pc' = [pc EXCEPT ![c] = "inflight"]
    /\ verdict' = [verdict EXCEPT ![IdempotencyKey(c)] =
                            IF @ = "unsent" THEN "pending" ELSE @]
    /\ UNCHANGED breakerVars
    /\ RememberLate
    /\ UNCHANGED <<attempt, result>>

\* The rail decides a key it received, even after its sender stopped waiting.
RailDecides(k) ==
    /\ verdict[k] = "pending"
    /\ \E v \in {"approved", "declined"} : verdict' = [verdict EXCEPT ![k] = v]
    /\ UNCHANGED <<breakerVars, pc, attempt, result, late>>

AnswerApproved(c) ==
    /\ pc[c] = "inflight"
    /\ verdict[IdempotencyKey(c)] = "approved"
    /\ RecordSuccess
    /\ Return(c, "ok")
    /\ RememberLate
    /\ UNCHANGED <<attempt, verdict>>

\* A final rail error is returned at once and leaves the breaker alone.
AnswerDeclined(c) ==
    /\ pc[c] = "inflight"
    /\ verdict[IdempotencyKey(c)] = "declined"
    /\ Return(c, "declined")
    /\ UNCHANGED <<breakerVars, attempt, verdict, late>>

\* A 5xx or a recognised transport error, whatever the rail did.
AnswerUnavailable(c) ==
    /\ pc[c] = "inflight"
    /\ RecordFailure
    /\ RetryOrGiveUp(c)
    /\ RememberLate
    /\ UNCHANGED <<attempt, verdict>>

\* An error the loop does not recognise (a cancelled context, a broken
\* connection), whatever the rail did.
AnswerUnrecognised(c) ==
    /\ pc[c] = "inflight"
    /\ Return(c, "invalid")
    /\ UNCHANGED <<breakerVars, attempt, verdict, late>>

\* Mutant: the loop counter does not advance.
WakeSameAttempt(c) ==
    /\ pc[c] = "backoff"
    /\ pc' = [pc EXCEPT ![c] = "try"]
    /\ UNCHANGED <<breakerVars, attempt, result, verdict, late>>

Wake(c) ==
    /\ pc[c] = "backoff"
    /\ pc' = [pc EXCEPT ![c] = "try"]
    /\ attempt' = [attempt EXCEPT ![c] = @ + 1]
    /\ UNCHANGED <<breakerVars, result, verdict, late>>

\* The loop sees its context done, before an attempt or while it sleeps.
ContextDone(c) ==
    /\ pc[c] \in {"try", "backoff"}
    /\ Return(c, "invalid")
    /\ UNCHANGED <<breakerVars, attempt, verdict, late>>

Answer(c) ==
    \/ AnswerApproved(c)
    \/ AnswerDeclined(c)
    \/ AnswerUnavailable(c)
    \/ AnswerUnrecognised(c)

Next ==
    \/ \E c \in Calls :
          \/ Start(c)
          \/ Admit(c)
          \/ Dispatch(c)
          \/ Answer(c)
          \/ Wake(c)
          \/ ContextDone(c)
    \/ \E k \in Keys : RailDecides(k)
    \/ Tick /\ UNCHANGED callVars

\* Clients answer within their 30 s timeout, timers fire, goroutines run.
\* Nothing makes the rail decide, a new call arrive or a context end.
Fairness ==
    \A c \in Calls :
        /\ WF_vars(Admit(c))
        /\ WF_vars(Dispatch(c))
        /\ WF_vars(Answer(c))
        /\ WF_vars(Wake(c))

Spec == Init /\ [][Next]_vars
FairSpec == Spec /\ Fairness

-----------------------------------------------------------------------------
(* Safety *)

\* The breaker is closed exactly while fewer than MaxFailures failures
\* followed the last success, whatever late answers of earlier calls do to it:
\* it never trips early and never stays closed past the threshold.
ClosedIffBelowThreshold == state = "closed" <=> failures < MaxFailures

\* A half-open breaker has sat out a whole cool-down since it last opened.
HalfOpenOnlyAfterCoolDown == state = "halfopen" => CooledDown

\* A call that is told "ok" or "declined" was told the rail's verdict on the
\* very key of its last attempt, with lost answers, retries and replays of the
\* same payment by other calls in between.
AnswersAreHonest ==
    \A c \in Calls :
        /\ result[c] = "ok" => verdict[IdempotencyKey(c)] = "approved"
        /\ result[c] = "declined" => verdict[IdempotencyKey(c)] = "declined"

\* The breaker's answer is used after its lock is released, so a request can go
\* out while the breaker is open.  What the second check leaves of that is one
\* request per call and opening, the one admitted before the breaker tripped,
\* however many attempts the call still has and however often a late failure
\* opens the breaker again.
OneRequestPerOpening ==
    [][\A c \in Calls :
          state = "open" /\ pc[c] = "admitted" /\ pc'[c] = "inflight"
              => c \notin late]_vars

(* Liveness *)

\* A call that entered the retry loop returns to its caller.
EveryCallReturns == \A c \in Calls : pc[c] = "try" ~> pc[c] = "done"

-----------------------------------------------------------------------------
(* Refinement *)

\* The attempts of a payment the rail approved.
Approved(p) == {n \in 1 .. MaxAttempts : verdict[<<p, n>>] = "approved"}

Approvals(p) == Cardinality(Approved(p))

Outbound == INSTANCE OutboundCall WITH
    Limit <- MaxAttempts,
    approvals <- [p \in Payments |-> Approvals(p)],
    answer <- result

\* The middleware keeps what an outbound call promises: replays of a payment by
\* other calls share their keys with it, so the rail approves the payment at
\* most MaxAttempts times however many calls are made for it.
KeepsOutboundPromise == Outbound!Spec

-----------------------------------------------------------------------------
(* What the documents say and the code does not do *)

\* "the breaker opens for the cool-down duration": it leaves the open state
\* only after the cool-down.
OpenLastsCoolDown == [][state = "open" /\ state' # "open" => CooledDown]_vars

\* "retries are idempotent via the outbound idempotency key": the retries of a
\* payment are approved by the rail at most once.
AtMostOneApproval ==
    \A p \in Payments :
        \A m, n \in 1 .. MaxAttempts :
            verdict[<<p, m>>] = "approved" /\ verdict[<<p, n>>] = "approved"
                => m = n

=============================================================================
