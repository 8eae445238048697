-------------------------- MODULE MiddlewareProofs --------------------------
(***************************************************************************)
(* Proofs about Middleware for any number of calls and payments and any    *)
(* MaxFailures, CoolDown and MaxAttempts the assumptions allow.            *)
(***************************************************************************)
EXTENDS Middleware, FiniteSetTheorems, TLAPS

\* The breaker's half of the inductive invariant.
BreakerInv ==
    /\ ClosedIffBelowThreshold
    /\ HalfOpenOnlyAfterCoolDown

\* A call has an answer only once it is done; before the loop it has made no
\* attempt and inside the loop at least one.
Progress ==
    \A c \in Calls :
        /\ result[c] # "none" => pc[c] = "done"
        /\ pc[c] \in {"try", "admitted", "inflight", "backoff"} => attempt[c] \in 1 .. MaxAttempts
        /\ pc[c] = "backoff" => attempt[c] < MaxAttempts
        /\ result[c] \in {"ok", "declined"} => attempt[c] \in 1 .. MaxAttempts

\* While the breaker is open nobody is admitted, so a call that has sent its
\* request since the breaker opened is not about to send another.
LateAreOut == late # {} => state = "open" /\ \A c \in late : pc[c] # "admitted"

IInv == TypeOK /\ BreakerInv /\ Progress /\ AnswersAreHonest /\ LateAreOut

-----------------------------------------------------------------------------

\* The initial state satisfies the invariant: a new breaker is closed with no
\* failure, and MaxFailures is at least one.
LEMMA InitInv == Init => IInv
<1>. USE BreakerAssumption, CallAssumption
<1>. QED
  BY DEF Init, IInv, TypeOK, BreakerInv, Progress, AnswersAreHonest,
         LateAreOut, BreakerInit, BreakerTypeOK, ClosedIffBelowThreshold,
         HalfOpenOnlyAfterCoolDown, CooledDown, Results, Keys, Places

\* What the breaker's operations preserve on their own, whoever calls them.
BreakerIInv == BreakerTypeOK /\ BreakerInv

LEMMA BreakerStep ==
  ASSUME BreakerIInv,
         Allow \/ Refuse \/ RecordSuccess \/ RecordFailure \/ Tick
            \/ UNCHANGED breakerVars
  PROVE  BreakerIInv'
<1>. USE BreakerAssumption
           DEF BreakerIInv, BreakerTypeOK, BreakerInv, ClosedIffBelowThreshold,
               HalfOpenOnlyAfterCoolDown, CooledDown
<1>1. CASE Allow
  BY <1>1 DEF Allow
<1>2. CASE Refuse
  BY <1>2 DEF Refuse, breakerVars
<1>3. CASE RecordSuccess
  BY <1>3 DEF RecordSuccess
<1>4. CASE RecordFailure
  BY <1>4 DEF RecordFailure, Open
<1>5. CASE Tick
  BY <1>5 DEF Tick
<1>6. CASE UNCHANGED breakerVars
  BY <1>6 DEF breakerVars
<1>. QED
  BY <1>1, <1>2, <1>3, <1>4, <1>5, <1>6

-----------------------------------------------------------------------------

\* The calls' half of the invariant.
CallTypeOK ==
    /\ pc \in [Calls -> Places]
    /\ attempt \in [Calls -> 0 .. MaxAttempts]
    /\ result \in [Calls -> Results]
    /\ verdict \in [Keys -> {"unsent", "pending", "approved", "declined"}]

CallIInv == CallTypeOK /\ Progress /\ AnswersAreHonest

\* The part that is about both.
LateIInv == late \subseteq Calls /\ LateAreOut

LEMMA SplitIInv == IInv <=> BreakerIInv /\ CallIInv /\ LateIInv
  BY DEF IInv, TypeOK, BreakerIInv, CallIInv, CallTypeOK, LateIInv

\* The steps of one call.
CallActs(c) ==
    \/ Start(c)
    \/ Admit(c)
    \/ Dispatch(c)
    \/ Answer(c)
    \/ Wake(c)
    \/ ContextDone(c)

\* Every step of a call is a step of the breaker or leaves it alone.
LEMMA NextIsBreakerStep ==
  ASSUME [Next]_vars
  PROVE  Allow \/ Refuse \/ RecordSuccess \/ RecordFailure \/ Tick
            \/ UNCHANGED breakerVars
  BY DEF Next, vars, breakerVars, Start, Admit, Dispatch, Answer, AnswerApproved,
         AnswerDeclined, AnswerUnavailable, AnswerUnrecognised, Wake,
         ContextDone, RailDecides

\* The key of an attempt the loop has made is a key of the rail.
LEMMA KeyType ==
  ASSUME CallTypeOK, NEW c \in Calls, attempt[c] \in 1 .. MaxAttempts
  PROVE  IdempotencyKey(c) \in Keys
  BY CallAssumption DEF CallTypeOK, IdempotencyKey, Keys

\* A step of one call keeps the calls' half of the invariant: the other calls'
\* keys keep their verdicts, because a verdict once given never changes.
LEMMA CallStep ==
  ASSUME CallIInv, NEW c \in Calls,
         CallActs(c)
  PROVE  CallIInv'
<1>. USE CallAssumption
<1>. USE DEF CallIInv, CallTypeOK, Progress, AnswersAreHonest, Results, Return,
             IdempotencyKey, Places
<1>1. CASE Start(c)
  BY <1>1 DEF Start
<1>2. CASE Admit(c)
  BY <1>2 DEF Admit, RetryOrGiveUp
<1>3. CASE Dispatch(c)
  <2>1. IdempotencyKey(c) \in Keys
    BY <1>3, KeyType DEF Dispatch
  <2>2. \A k \in Keys : verdict[k] \in {"approved", "declined"}
                            => verdict'[k] = verdict[k]
    BY <1>3, <2>1 DEF Dispatch
  <2>3. CallTypeOK'
    BY <1>3, <2>1 DEF Dispatch
  <2>4. Progress'
    BY <1>3 DEF Dispatch
  <2>5. \A d \in Calls : result'[d] \in {"ok", "declined"}
                            => result[d] = result'[d] /\ attempt'[d] = attempt[d]
    BY <1>3 DEF Dispatch
  <2>6. \A d \in Calls : result[d] \in {"ok", "declined"}
                            => IdempotencyKey(d) \in Keys
    BY KeyType
  <2>7. AnswersAreHonest'
    BY <2>2, <2>5, <2>6
  <2>. QED
    BY <2>3, <2>4, <2>7
<1>4. CASE AnswerApproved(c)
  BY <1>4 DEF AnswerApproved
<1>5. CASE AnswerDeclined(c)
  BY <1>5 DEF AnswerDeclined
<1>6. CASE AnswerUnavailable(c)
  BY <1>6 DEF AnswerUnavailable, RetryOrGiveUp
<1>7. CASE AnswerUnrecognised(c)
  BY <1>7 DEF AnswerUnrecognised
<1>8. CASE Wake(c)
  BY <1>8 DEF Wake
<1>9. CASE ContextDone(c)
  BY <1>9 DEF ContextDone
<1>. QED
  BY <1>1, <1>2, <1>3, <1>4, <1>5, <1>6, <1>7, <1>8, <1>9 DEF Answer, CallActs

\* A decision of the rail is about a pending key, so no answer already given
\* rests on it.
LEMMA RailStep ==
  ASSUME CallIInv, NEW k \in Keys, RailDecides(k)
  PROVE  CallIInv'
<1>. USE DEF CallIInv, CallTypeOK
<1>1. CallTypeOK'
  BY DEF RailDecides
<1>2. Progress'
  BY DEF RailDecides, Progress
<1>3. \A l \in Keys : verdict[l] \in {"approved", "declined"}
                          => verdict'[l] = verdict[l]
  BY DEF RailDecides
<1>4. \A c \in Calls : result[c] \in {"ok", "declined"} => IdempotencyKey(c) \in Keys
  BY KeyType DEF Progress
<1>5. AnswersAreHonest'
  BY <1>3, <1>4 DEF AnswersAreHonest, RailDecides, IdempotencyKey
<1>. QED
  BY <1>1, <1>2, <1>5

\* A yes of an open breaker makes it half-open, so no call is admitted and the
\* breaker left open in one step; a call that sends its request leaves
\* "admitted".
LEMMA LateStep ==
  ASSUME CallTypeOK, LateIInv, [Next]_vars
  PROVE  LateIInv'
<1>. USE DEF LateIInv, LateAreOut, CallTypeOK
<1>1. ASSUME NEW c \in Calls, CallActs(c)
      PROVE  LateIInv'
  <2>. USE DEF Return, RetryOrGiveUp, RememberLate
  <2>1. CASE Start(c)
    BY <2>1 DEF Start, Allow, Refuse, breakerVars
  <2>2. CASE Admit(c)
    BY <2>2 DEF Admit, Allow, Refuse, breakerVars
  <2>3. CASE Dispatch(c)
    BY <2>3 DEF Dispatch, breakerVars
  <2>4. CASE AnswerApproved(c)
    BY <2>4 DEF AnswerApproved, RecordSuccess
  <2>5. CASE AnswerUnavailable(c)
    <3>1. /\ pc'[c] # "admitted" /\ pc[c] # "admitted"
          /\ \A d \in Calls : d # c => pc'[d] = pc[d]
          /\ \A d \in Calls : pc'[d] = "inflight" => pc[d] # "admitted"
      BY <2>5 DEF AnswerUnavailable
    <3>2. late' = IF state' = "open" THEN late ELSE {}
      BY <2>5, <3>1 DEF AnswerUnavailable
    <3>. QED
      BY <3>1, <3>2
  <2>6. CASE AnswerDeclined(c) \/ AnswerUnrecognised(c) \/ Wake(c) \/ ContextDone(c)
    BY <2>6 DEF AnswerDeclined, AnswerUnrecognised, Wake, ContextDone, breakerVars
  <2>. QED
    BY <1>1, <2>1, <2>2, <2>3, <2>4, <2>5, <2>6 DEF CallActs, Answer
<1>2. CASE \E k \in Keys : RailDecides(k)
  BY <1>2 DEF RailDecides, breakerVars
<1>3. CASE Tick /\ UNCHANGED callVars
  BY <1>3 DEF Tick, callVars
<1>4. CASE UNCHANGED vars
  BY <1>4 DEF vars
<1>. QED
  BY <1>1, <1>2, <1>3, <1>4 DEF Next, CallActs

\* The invariant is inductive: the breaker's half and the calls' half are each
\* preserved, whatever the other does.
LEMMA NextInv == IInv /\ [Next]_vars => IInv'
<1>. SUFFICES ASSUME BreakerIInv, CallIInv, LateIInv, [Next]_vars
              PROVE  BreakerIInv' /\ CallIInv' /\ LateIInv'
  BY SplitIInv DEF IInv, TypeOK, BreakerIInv, CallIInv, CallTypeOK, LateIInv
<1>1. BreakerIInv'
  BY NextIsBreakerStep, BreakerStep
<1>2. LateIInv'
  BY LateStep DEF CallIInv
<1>3. CASE \E c \in Calls : CallActs(c)
  <2>. PICK c \in Calls : CallActs(c)
    BY <1>3
  <2>. QED
    BY <1>1, <1>2, CallStep
<1>4. CASE \E k \in Keys : RailDecides(k)
  <2>. PICK k \in Keys : RailDecides(k)
    BY <1>4
  <2>. QED
    BY <1>1, <1>2, RailStep
<1>5. CASE UNCHANGED callVars
  BY <1>1, <1>5, <1>2 DEF callVars, CallIInv, CallTypeOK, Progress, AnswersAreHonest,
              IdempotencyKey
<1>. QED
  BY <1>1, <1>2, <1>3, <1>4, <1>5 DEF Next, CallActs, vars, callVars

LEMMA Invariance == Spec => []IInv
  BY InitInv, NextInv, PTL DEF Spec

-----------------------------------------------------------------------------

\* Every reachable state has its type.
THEOREM TypeCorrect == Spec => []TypeOK
  BY Invariance, PTL DEF IInv

\* The breaker is closed exactly while fewer than MaxFailures failures followed
\* the last success, for any number of concurrent calls.
THEOREM BreakerThreshold == Spec => []ClosedIffBelowThreshold
<1>1. IInv => ClosedIffBelowThreshold
  BY DEF IInv, BreakerInv
<1>. QED
  BY <1>1, Invariance, PTL

\* A half-open breaker has sat out a whole cool-down.
THEOREM HalfOpenIsCooled == Spec => []HalfOpenOnlyAfterCoolDown
<1>1. IInv => HalfOpenOnlyAfterCoolDown
  BY DEF IInv, BreakerInv
<1>. QED
  BY <1>1, Invariance, PTL

\* What a call is told of the rail's decision is the rail's decision.
THEOREM HonestAnswers == Spec => []AnswersAreHonest
<1>1. IInv => AnswersAreHonest
  BY DEF IInv
<1>. QED
  BY <1>1, Invariance, PTL

\* Between the breaker's yes and the request another call can trip the breaker:
\* a call then sends that one request, and no second one until the breaker has
\* left the open state.
THEOREM OneLateRequest == Spec => OneRequestPerOpening
<1>1. IInv /\ [Next]_vars
        => [\A c \in Calls :
               state = "open" /\ pc[c] = "admitted" /\ pc'[c] = "inflight"
                  => c \notin late]_vars
  BY DEF IInv, LateAreOut
<1>. QED
  BY <1>1, Invariance, PTL DEF Spec, OneRequestPerOpening

-----------------------------------------------------------------------------
(* Refinement *)

\* Approvals counts a set of attempts, so it is a number up to MaxAttempts, and
\* less when some attempt is not approved.
LEMMA ApprovalsBound ==
  ASSUME NEW p
  PROVE  /\ IsFiniteSet(Approved(p))
         /\ Approvals(p) \in 0 .. MaxAttempts
         /\ (\E n \in 1 .. MaxAttempts : n \notin Approved(p))
                => Approvals(p) < MaxAttempts
         /\ (\E n \in 1 .. MaxAttempts : n \in Approved(p)) => Approvals(p) > 0
<1>1. IsFiniteSet(1 .. MaxAttempts) /\ Cardinality(1 .. MaxAttempts) = MaxAttempts
  BY FS_Interval, CallAssumption
<1>2. Approved(p) \subseteq 1 .. MaxAttempts
  BY DEF Approved
<1>3. /\ IsFiniteSet(Approved(p))
      /\ Cardinality(Approved(p)) \in Nat
      /\ Cardinality(Approved(p)) <= MaxAttempts
      /\ Cardinality(Approved(p)) = MaxAttempts => Approved(p) = 1 .. MaxAttempts
  BY <1>1, <1>2, FS_Subset, FS_CardinalityType
<1>4. Approved(p) # {} => Cardinality(Approved(p)) > 0
  BY <1>3, FS_EmptySet
<1>. QED
  BY <1>2, <1>3, <1>4, CallAssumption DEF Approvals

\* The approval of one more attempt counts one more.
LEMMA ApprovalCounts ==
  ASSUME NEW p, NEW n \in 1 .. MaxAttempts, n \notin Approved(p),
         Approved(p)' = Approved(p) \cup {n}
  PROVE  Approvals(p)' = Approvals(p) + 1
<1>1. IsFiniteSet(Approved(p))
  BY ApprovalsBound
<1>2. Cardinality(Approved(p) \cup {n}) = Cardinality(Approved(p)) + 1
  BY <1>1, FS_AddElement
<1>. QED
  BY <1>2 DEF Approvals

\* A step that leaves the approved attempts alone leaves their number alone.
LEMMA ApprovalsKept ==
  ASSUME NEW p, Approved(p)' = Approved(p)
  PROVE  Approvals(p)' = Approvals(p)
  BY DEF Approvals

\* Only the rail's decisions approve anything.
LEMMA OnlyRailApproves ==
  ASSUME CallIInv, NEW c \in Calls,
         CallActs(c)
  PROVE  \A p \in Payments : Approvals(p)' = Approvals(p)
<1>. SUFFICES ASSUME NEW p \in Payments
              PROVE  Approved(p)' = Approved(p)
  BY ApprovalsKept
<1>1. CASE Dispatch(c)
  <2>1. IdempotencyKey(c) \in Keys
    BY <1>1, KeyType DEF Dispatch, CallIInv, Progress
  <2>2. \A k \in Keys : verdict'[k] = "approved" <=> verdict[k] = "approved"
    BY <1>1, <2>1 DEF Dispatch, CallIInv, CallTypeOK
  <2>. QED
    BY <2>2 DEF Approved, Keys
<1>2. CASE ~Dispatch(c)
  BY <1>2 DEF CallActs, Approved, Start, Admit, Answer, AnswerApproved, AnswerDeclined,
              AnswerUnavailable, AnswerUnrecognised, Wake, ContextDone
<1>. QED
  BY <1>1, <1>2

\* A step of a call either leaves its answer alone or gives its only answer, and
\* "ok" only when the rail has approved the payment.
LEMMA CallAnswersOnce ==
  ASSUME CallIInv, NEW c \in Calls,
         CallActs(c)
  PROVE  \/ UNCHANGED result
         \/ /\ result[c] = "none"
            /\ \E a \in Outbound!Answers :
                  /\ result' = [result EXCEPT ![c] = a]
                  /\ a = "ok" => Approvals(PaymentOf[c]) > 0
<1>. USE DEF CallIInv, CallTypeOK, Progress, Results, Return, Outbound!Answers
<1>1. CASE AnswerApproved(c)
  <2>1. attempt[c] \in 1 .. MaxAttempts /\ attempt[c] \in Approved(PaymentOf[c])
    BY <1>1 DEF AnswerApproved, Approved, IdempotencyKey
  <2>2. Approvals(PaymentOf[c]) > 0
    BY <2>1, ApprovalsBound
  <2>. QED
    BY <1>1, <2>2 DEF AnswerApproved
<1>2. CASE ~AnswerApproved(c)
  BY <1>2 DEF CallActs, Start, Admit, Dispatch, RetryOrGiveUp, Answer, AnswerDeclined,
              AnswerUnavailable, AnswerUnrecognised, Wake, ContextDone
<1>. QED
  BY <1>1, <1>2

\* A decision of the rail approves one more attempt of one payment, or none.
LEMMA RailApproves ==
  ASSUME CallIInv, NEW k \in Keys, RailDecides(k)
  PROVE  \/ \A p \in Payments : Approvals(p)' = Approvals(p)
         \/ \E p \in Payments :
               /\ Approvals(p) < MaxAttempts
               /\ \A q \in Payments :
                     Approvals(q)' = IF q = p THEN Approvals(p) + 1 ELSE Approvals(q)
<1>. USE DEF CallIInv, CallTypeOK
<1>1. PICK p \in Payments, n \in 1 .. MaxAttempts : k = <<p, n>>
  BY DEF Keys
<1>2. n \notin Approved(p)
  BY <1>1 DEF RailDecides, Approved
<1>3. \A q \in Payments : q # p => Approved(q)' = Approved(q)
  BY <1>1 DEF RailDecides, Approved, Keys
<1>4. \A q \in Payments : q # p => Approvals(q)' = Approvals(q)
  BY <1>3, ApprovalsKept
<1>5. Approvals(p) < MaxAttempts
  BY <1>2, ApprovalsBound
<1>6. CASE verdict'[k] = "approved"
  <2>1. Approved(p)' = Approved(p) \cup {n}
    BY <1>1, <1>6 DEF RailDecides, Approved, Keys
  <2>2. Approvals(p)' = Approvals(p) + 1
    BY <1>2, <2>1, ApprovalCounts
  <2>. QED
    BY <1>4, <1>5, <2>2
<1>7. CASE verdict'[k] # "approved"
  <2>1. Approved(p)' = Approved(p)
    BY <1>1, <1>7 DEF RailDecides, Approved, Keys
  <2>. QED
    BY <1>4, <2>1, ApprovalsKept
<1>. QED
  BY <1>6, <1>7

\* The middleware implements the abstract call: every step maps to an approval,
\* to the one answer of a call, or to a stutter.
THEOREM Refinement == Spec => KeepsOutboundPromise
<1>1. Init => Outbound!Init
  <2>. SUFFICES ASSUME Init, NEW p \in Payments
                PROVE  Approvals(p) = 0
    BY DEF Init, Outbound!Init
  <2>1. Approved(p) = {}
    BY DEF Init, Approved, Keys
  <2>. QED
    BY <2>1, FS_EmptySet DEF Approvals
<1>2. IInv /\ [Next]_vars
        => [Outbound!Next]_<<[p \in Payments |-> Approvals(p)], result>>
  <2>. SUFFICES ASSUME CallIInv, [Next]_vars
                PROVE  [Outbound!Next]_<<[p \in Payments |-> Approvals(p)], result>>
    BY SplitIInv
  <2>. DEFINE approvals == [p \in Payments |-> Approvals(p)]
  <2>. USE DEF Outbound!Next, Outbound!Approve, Outbound!Return
  <2>1. CASE \E c \in Calls :
               CallActs(c)
    <3>1. PICK c \in Calls :
                 CallActs(c)
      BY <2>1
    <3>2. approvals' = approvals
      BY <3>1, OnlyRailApproves
    <3>3. PaymentOf[c] \in Payments
      BY CallAssumption
    <3>. QED
      BY <3>1, <3>2, <3>3, CallAnswersOnce
  <2>2. CASE \E k \in Keys : RailDecides(k)
    <3>1. PICK k \in Keys : RailDecides(k)
      BY <2>2
    <3>2. UNCHANGED result
      BY <3>1 DEF RailDecides
    <3>3. CASE \A p \in Payments : Approvals(p)' = Approvals(p)
      BY <3>2, <3>3
    <3>4. CASE \E p \in Payments :
                 /\ Approvals(p) < MaxAttempts
                 /\ \A q \in Payments :
                       Approvals(q)' = IF q = p THEN Approvals(p) + 1 ELSE Approvals(q)
      <4>1. PICK p \in Payments :
                   /\ Approvals(p) < MaxAttempts
                   /\ \A q \in Payments :
                         Approvals(q)' = IF q = p THEN Approvals(p) + 1 ELSE Approvals(q)
        BY <3>4
      <4>2. approvals' = [approvals EXCEPT ![p] = @ + 1]
        BY <4>1
      <4>. QED
        BY <3>2, <4>1, <4>2
    <3>. QED
      BY <3>1, <3>3, <3>4, RailApproves
  <2>3. CASE UNCHANGED callVars
    <3>1. \A p \in Payments : Approvals(p)' = Approvals(p)
      BY <2>3, ApprovalsKept DEF callVars, Approved
    <3>. QED
      BY <2>3, <3>1 DEF callVars
  <2>. QED
    BY <2>1, <2>2, <2>3 DEF Next, CallActs, vars, callVars
<1>. QED
  BY <1>1, <1>2, Invariance, PTL DEF Spec, KeepsOutboundPromise, Outbound!Spec

=============================================================================
