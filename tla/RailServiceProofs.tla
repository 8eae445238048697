-------------------------- MODULE RailServiceProofs --------------------------
(***************************************************************************)
(* Proofs about RailService for any number of concurrent requests, any     *)
(* workload, both stores, any number of restarts and failing statements.   *)
(***************************************************************************)
EXTENDS RailService, SumLemmas

\* Which requests stand at which section, and what they have decided there.
Positions ==
    \A h \in Handlers :
        /\ pc[h] \notin {"idle", "done"} => req[h] \in Workload
        /\ pc[h] = "setfail" => req[h].op = "authorize"
        /\ pc[h] = "lookup" => req[h].op \in {"capture", "refund"}
        /\ pc[h] = "checkfail" => req[h].op \in {"authorize", "capture", "refund"}
        /\ pc[h] = "read" => req[h].op \in {"capture", "refund", "status"}
        /\ pc[h] = "write" => req[h].op \in {"authorize", "capture", "refund", "webhook"}
        /\ pc[h] = "write" /\ req[h].op # "authorize" => outcome[h] \in Statuses
        /\ pc[h] = "write" /\ req[h].op \in {"capture", "refund"} => outcome[h] # "failed"
        /\ pc[h] = "track" => req[h].op \in {"capture", "refund"} /\ outcome[h] # "failed"
        /\ pc[h] \in {"track", "emit"} => outcome[h] \in Statuses
        /\ pc[h] = "emit" => req[h].op # "status"

Inv == TypeOK /\ Positions

\* The fields of a request, by operation.
LEMMA RequestShape ==
  ASSUME NEW r \in Workload
  PROVE  /\ r.pid \in Payments
         /\ r.op \in {"authorize", "capture", "refund", "status", "webhook"}
         /\ r.op \in {"authorize", "capture", "refund"} => r.amount \in Amounts
         /\ r.op = "webhook" => r.status \in Statuses
  BY ServiceAssumption DEF Requests

\* Where a request starts, by operation.
LEMMA FirstSectionShape ==
  ASSUME NEW r \in Workload
  PROVE  /\ r.op = "authorize" => FirstSection(r) \in {"setfail", "checkfail"}
         /\ r.op \in {"capture", "refund"} => FirstSection(r) = "lookup"
         /\ r.op = "status" => FirstSection(r) = "read"
         /\ r.op = "webhook" => FirstSection(r) = "write"
<1>1. CASE r.op = "authorize"
  BY <1>1, ServiceAssumption DEF FirstSection, Requests
<1>2. CASE r.op \in {"capture", "refund", "status", "webhook"}
  BY <1>2 DEF FirstSection
<1>. QED
  BY <1>1, <1>2, RequestShape

\* The fields an event gets.
LEMMA EventShape ==
  ASSUME NEW h \in Handlers, req[h] \in Workload, req[h].op # "status",
         outcome[h] \in Statuses
  PROVE  Event(h) \in Events
  BY RequestShape DEF Event, Events

LEMMA InitInv == Init => Inv
<1>. SUFFICES ASSUME Init PROVE Inv
  OBVIOUS
<1>. USE ServiceAssumption DEF Init
<1>1. DOMAIN rows = {}
  OBVIOUS
<1>2. audit \in Seq(Events)
  OBVIOUS
<1>3. TypeOK
  <2>1. /\ DOMAIN rows \subseteq Payments
        /\ \A p \in DOMAIN rows : rows[p] \in [status : Statuses, amount : Amounts]
    BY <1>1
  <2>2. pc \in [Handlers -> Sections \cup {"idle", "done", "dead", "silenced"}]
    OBVIOUS
  <2>3. req \in [Handlers -> Workload \cup {NoRequest}]
    OBVIOUS
  <2>4. answer \in [Handlers ->
           {"none", "ok", "failed", "rejected", "notfound", "malformed"}]
    OBVIOUS
  <2>5. outcome \in [Handlers -> Statuses \cup {"none"}]
    OBVIOUS
  <2>6. total \in Int
    OBVIOUS
  <2>8. failFlag \in BOOLEAN
    BY Zenon
  <2>7. crashes \in 0 .. MaxCrashes /\ dbErrors \in 0 .. MaxDbErrors
    OBVIOUS
  <2>9. writer \in [DOMAIN rows -> Handlers]
    OBVIOUS
  <2>. QED
    BY <1>2, <2>1, <2>2, <2>3, <2>4, <2>5, <2>6, <2>7, <2>8, <2>9 DEF TypeOK
<1>4. Positions
  BY DEF Positions
<1>. QED
  BY <1>3, <1>4 DEF Inv

\* The store keeps typed rows for known payments.
LEMMA UpsertType ==
  ASSUME TypeOK, NEW p \in Payments, NEW s \in Statuses, NEW a \in Amounts,
         Upsert(p, s, a)
  PROVE  /\ DOMAIN rows' \subseteq Payments
         /\ \A q \in DOMAIN rows' : rows'[q] \in [status : Statuses, amount : Amounts]
         /\ dbErrors' \in 0 .. MaxDbErrors
<1>. USE ServiceAssumption DEF TypeOK
<1>1. CASE Fails /\ UNCHANGED rows
  BY <1>1 DEF Fails
<1>2. CASE Works /\ rows' = [q \in DOMAIN rows \cup {p} |->
                    IF q = p THEN [status |-> s, amount |-> a] ELSE rows[q]]
  BY <1>2 DEF Works
<1>. QED
  BY <1>1, <1>2 DEF Upsert

LEMMA SetStatusType ==
  ASSUME TypeOK, NEW p \in Payments, NEW s \in Statuses, SetStatus(p, s)
  PROVE  /\ DOMAIN rows' = DOMAIN rows
         /\ \A q \in DOMAIN rows' : rows'[q] \in [status : Statuses, amount : Amounts]
         /\ dbErrors' \in 0 .. MaxDbErrors
<1>. USE ServiceAssumption DEF TypeOK
<1>1. CASE UNCHANGED rows
  BY <1>1 DEF SetStatus, Works, Fails
<1>2. CASE Works /\ Known(p) /\ rows' = [rows EXCEPT ![p].status = s]
  BY <1>2 DEF Works, Known
<1>. QED
  BY <1>1, <1>2 DEF SetStatus

\* A write adds at most its own payment to the rows, so every row has a writer.
LEMMA RowsGrow ==
  ASSUME NEW h \in Handlers, Write(h)
  PROVE  DOMAIN rows' \subseteq DOMAIN rows \cup {req[h].pid}
         /\ (dbErrors' # dbErrors => rows' = rows)
         /\ (req[h].pid \in DOMAIN rows' \ DOMAIN rows => Works)
  BY DEF Write, Upsert, SetStatus, Works

LEMMA SignType ==
  ASSUME TypeOK, NEW h \in Handlers, Sign(h),
         DOMAIN rows' \subseteq DOMAIN rows \cup {req[h].pid},
         req[h].pid \in DOMAIN rows' \ DOMAIN rows => Works
  PROVE  writer' \in [DOMAIN rows' -> Handlers]
  BY DEF TypeOK, Sign

\* Every section keeps the types and the positions.
LEMMA HandleInv ==
  ASSUME Inv, NEW h \in Handlers, Handle(h)
  PROVE  Inv'
<1>. USE ServiceAssumption
<1>. USE DEF Inv, TypeOK, Positions, Sections, Goto, Reply, Announce
<1>1. CASE SetFail(h)
  BY <1>1 DEF SetFail
<1>2. CASE Lookup(h)
  BY <1>2 DEF Lookup, GetFinds, GetMisses, Works, Fails
<1>3. CASE CheckFail(h)
  BY <1>3 DEF CheckFail, Statuses
<1>4. CASE Read(h)
  <2>1. dbErrors' \in 0 .. MaxDbErrors
    BY <1>4 DEF Read, GetFinds, GetMisses, Works, Fails
  <2>2. TypeOK'
    BY <1>4, <2>1 DEF Read, Statuses
  <2>3. Positions'
    BY <1>4 DEF Read, Statuses
  <2>. QED
    BY <2>2, <2>3
<1>5. CASE Write(h)
  <2>1. req[h] \in Workload
    BY <1>5 DEF Write
  <2>2. req[h].pid \in Payments
    BY <2>1, RequestShape
  <2>3. writer' \in [DOMAIN rows' -> Handlers]
    BY <1>5, RowsGrow, SignType DEF Write
  <2>4. CASE req[h].op = "authorize"
    <3>1. req[h].amount \in Amounts
      BY <2>1, <2>4, RequestShape
    <3>2. Upsert(req[h].pid, "authorized", req[h].amount)
      BY <1>5, <2>4 DEF Write
    <3>3. /\ DOMAIN rows' \subseteq Payments
          /\ \A q \in DOMAIN rows' : rows'[q] \in [status : Statuses, amount : Amounts]
          /\ dbErrors' \in 0 .. MaxDbErrors
      BY <2>2, <3>1, <3>2, UpsertType DEF Statuses
    <3>4. TypeOK'
      <4>1. /\ UNCHANGED <<total, failFlag, audit, req, answer, crashes>>
            /\ pc' = [pc EXCEPT ![h] = "emit"]
            /\ outcome' = [outcome EXCEPT ![h] = "authorized"]
        BY <1>5, <2>4 DEF Write
      <4>2. outcome' \in [Handlers -> Statuses \cup {"none"}]
        BY <4>1 DEF Statuses
      <4>3. pc' \in [Handlers -> Sections \cup {"idle", "done", "dead", "silenced"}]
        BY <4>1
      <4>. QED
        BY <2>3, <3>3, <4>1, <4>2, <4>3
    <3>5. Positions'
      BY <1>5, <2>1, <2>4 DEF Write, Statuses
    <3>. QED
      BY <3>4, <3>5
  <2>5. CASE req[h].op # "authorize"
    <3>1. SetStatus(req[h].pid, outcome[h]) /\ outcome[h] \in Statuses
      BY <1>5, <2>5 DEF Write
    <3>2. /\ DOMAIN rows' = DOMAIN rows
          /\ \A q \in DOMAIN rows' : rows'[q] \in [status : Statuses, amount : Amounts]
          /\ dbErrors' \in 0 .. MaxDbErrors
      BY <2>2, <3>1, SetStatusType
    <3>. QED
      BY <1>5, <2>1, <2>3, <2>5, <3>2 DEF Write
  <2>. QED
    BY <2>4, <2>5
<1>6. CASE Track(h)
  <2>1. req[h] \in Workload /\ req[h].op \in {"capture", "refund"}
    BY <1>6 DEF Track
  <2>2. req[h].amount \in Int
    BY <2>1, RequestShape
  <2>3. Effect(h) \in Int
    BY <2>2 DEF Effect
  <2>. QED
    BY <1>6, <2>1, <2>3 DEF Track
<1>7. CASE Emit(h)
  <2>1. Event(h) \in Events
    BY <1>7, EventShape DEF Emit
  <2>. QED
    BY <1>7, <2>1 DEF Emit
<1>. QED
  BY <1>1, <1>2, <1>3, <1>4, <1>5, <1>6, <1>7 DEF Handle

\* So do arrivals, malformed requests and restarts.
LEMMA ArrivalInv ==
  ASSUME Inv, NEW h \in Handlers, NEW r \in Workload, Receive(h, r)
  PROVE  Inv'
<1>1. /\ r.op \in {"authorize", "capture", "refund", "status", "webhook"}
      /\ r.op = "webhook" => r.status \in Statuses
  BY RequestShape
<1>2. /\ r.op = "authorize" => FirstSection(r) \in {"setfail", "checkfail"}
      /\ r.op \in {"capture", "refund"} => FirstSection(r) = "lookup"
      /\ r.op = "status" => FirstSection(r) = "read"
      /\ r.op = "webhook" => FirstSection(r) = "write"
  BY FirstSectionShape
<1>3. TypeOK'
  BY <1>1, <1>2 DEF Inv, TypeOK, Receive, Goto, Announce, Sections
<1>4. Positions'
  BY <1>1, <1>2 DEF Inv, TypeOK, Positions, Receive, Goto, Announce
<1>. QED
  BY <1>3, <1>4 DEF Inv

LEMMA MalformedInv ==
  ASSUME Inv, NEW h \in Handlers, AnswerAtOnce(h)
  PROVE  Inv'
<1>1. CASE RejectMalformed(h)
  <2>1. failFlag' \in BOOLEAN
    BY <1>1, Zenon DEF RejectMalformed, Inv, TypeOK
  <2>. QED
    BY <1>1, <2>1 DEF Inv, TypeOK, Positions, RejectMalformed, Reply, Goto
<1>2. CASE Acknowledge(h)
  <2>1. Notice \in Workload \cup {NoRequest, Notice}
    OBVIOUS
  <2>2. req' \in [Handlers -> Workload \cup {NoRequest, Notice}]
    BY <1>2, <2>1 DEF Acknowledge, Inv, TypeOK
  <2>. QED
    BY <1>2, <2>2 DEF Inv, TypeOK, Positions, Acknowledge, Reply, Goto
<1>. QED
  BY <1>1, <1>2 DEF AnswerAtOnce

LEMMA CrashInv ==
  ASSUME Inv, Crash
  PROVE  Inv'
<1>. USE ServiceAssumption DEF Inv, Crash
<1>1. /\ DOMAIN rows' \subseteq Payments
      /\ \A p \in DOMAIN rows' : rows'[p] \in [status : Statuses, amount : Amounts]
  BY DEF TypeOK
<1>2. pc' \in [Handlers -> Sections \cup {"idle", "done", "dead", "silenced"}]
  BY DEF TypeOK, Sections
<1>3. total' \in Int /\ crashes' \in 0 .. MaxCrashes
  BY DEF TypeOK
<1>4. failFlag' \in BOOLEAN
  BY Zenon
<1>7. writer' \in [DOMAIN rows' -> Handlers]
  BY DEF TypeOK
<1>5. TypeOK'
  BY <1>1, <1>2, <1>3, <1>4, <1>7 DEF TypeOK
<1>6. Positions'
  BY DEF TypeOK, Positions, Sections
<1>. QED
  BY <1>5, <1>6

LEMMA NextInv == Inv /\ [Next]_vars => Inv'
<1>. SUFFICES ASSUME Inv, [Next]_vars PROVE Inv'
  OBVIOUS
<1>1. ASSUME NEW h \in Handlers, NEW r \in Workload, Receive(h, r) PROVE Inv'
  BY <1>1, ArrivalInv
<1>2. ASSUME NEW h \in Handlers, AnswerAtOnce(h) PROVE Inv'
  BY <1>2, MalformedInv
<1>3. ASSUME NEW h \in Handlers, Handle(h) PROVE Inv'
  BY <1>3, HandleInv
<1>4. CASE Crash
  BY <1>4, CrashInv
<1>5. CASE UNCHANGED vars
  BY <1>5 DEF vars, Inv, TypeOK, Positions
<1>. QED
  BY <1>1, <1>2, <1>3, <1>4, <1>5 DEF Next

LEMMA Invariance == Spec => []Inv
BY InitInv, NextInv, PTL DEF Spec

\* Every reachable state of store, tracker, log and handlers has its type,
\* whatever requests interleave, restarts happen and statements fail.
THEOREM TypeCorrect == Spec => []TypeOK
BY Invariance, PTL DEF Inv

-----------------------------------------------------------------------------
(* Rows that were looked up or acknowledged stay *)

\* A row disappears only in a restart of a service that keeps rows in memory.
LEMMA RowsStay ==
  ASSUME Inv, [Next]_vars
  PROVE  (DOMAIN rows \subseteq DOMAIN rows') \/ (Crash /\ ~Durable)
<1>1. ASSUME NEW h \in Handlers, Handle(h) PROVE DOMAIN rows \subseteq DOMAIN rows'
  <2>1. CASE Write(h)
    BY <2>1 DEF Write, Upsert, SetStatus
  <2>2. CASE ~Write(h)
    BY <1>1, <2>2 DEF Handle, SetFail, Lookup, CheckFail, Read, Track, Emit
  <2>. QED
    BY <2>1, <2>2
<1>2. ASSUME NEW h \in Handlers, NEW r \in Workload, Receive(h, r)
      PROVE  DOMAIN rows \subseteq DOMAIN rows'
  BY <1>2 DEF Receive
<1>3. ASSUME NEW h \in Handlers, AnswerAtOnce(h)
      PROVE  DOMAIN rows \subseteq DOMAIN rows'
  BY <1>3 DEF AnswerAtOnce, RejectMalformed, Acknowledge
<1>4. CASE Crash
  BY <1>4 DEF Crash
<1>5. CASE UNCHANGED vars
  BY <1>5 DEF vars
<1>. QED
  BY <1>1, <1>2, <1>3, <1>4, <1>5 DEF Next

LEMMA ConnectorStep ==
  Inv /\ Inv' /\ ConnectorMeetsARow /\ [Next]_vars => ConnectorMeetsARow'
<1>. SUFFICES ASSUME Inv, ConnectorMeetsARow, [Next]_vars
              PROVE  ConnectorMeetsARow'
  OBVIOUS
<1>. USE DEF Inv, TypeOK, ConnectorMeetsARow, Known
<1>1. CASE Crash
  BY <1>1 DEF Crash, Sections
<1>2. CASE DOMAIN rows \subseteq DOMAIN rows'
  <2>1. ASSUME NEW h \in Handlers, Handle(h) PROVE ConnectorMeetsARow'
    <3>. USE DEF Goto, Reply
    <3>1. CASE SetFail(h)
      BY <1>2, <3>1 DEF SetFail, Positions
    <3>2. CASE Lookup(h)
      BY <1>2, <3>2 DEF Lookup, GetFinds, GetMisses
    <3>3. CASE CheckFail(h)
      BY <1>2, <3>3 DEF CheckFail
    <3>4. CASE Read(h)
      BY <1>2, <3>4 DEF Read
    <3>5. CASE Write(h)
      BY <1>2, <3>5 DEF Write
    <3>6. CASE Track(h) \/ Emit(h)
      BY <1>2, <3>6 DEF Track, Emit
    <3>. QED
      BY <2>1, <3>1, <3>2, <3>3, <3>4, <3>5, <3>6 DEF Handle
  <2>2. ASSUME NEW h \in Handlers, NEW r \in Workload, Receive(h, r)
        PROVE  ConnectorMeetsARow'
    BY <1>2, <2>2, FirstSectionShape DEF Receive, Goto
  <2>3. ASSUME NEW h \in Handlers, AnswerAtOnce(h) PROVE ConnectorMeetsARow'
    BY <1>2, <2>3 DEF AnswerAtOnce, RejectMalformed, Acknowledge, Reply, Goto
  <2>4. CASE UNCHANGED vars
    BY <1>2, <2>4 DEF vars
  <2>. QED
    BY <1>1, <2>1, <2>2, <2>3, <2>4 DEF Next
<1>. QED
  BY <1>1, <1>2, RowsStay

\* The connector never meets an unknown payment on capture or refund, under
\* any interleaving and any restarts: the guard is the server's own lookup, and
\* rows outlive every handler that saw them.
THEOREM ConnectorHasRow == Spec => []ConnectorMeetsARow
<1>1. Init => ConnectorMeetsARow
  BY DEF Init, ConnectorMeetsARow
<1>. QED
  BY <1>1, Invariance, ConnectorStep, PTL DEF Spec

-----------------------------------------------------------------------------
(* What a client was told is recorded *)

\* The store keeps what this handler's Upsert wrote, unless memory was lost or
\* a statement failed.
Trusted == dbErrors = 0 /\ (Durable \/ crashes = 0)

WrittenIsRecorded ==
    \A h \in Handlers :
        /\ answer[h] # "none" => pc[h] = "done"
        /\ pc[h] = "emit" /\ req[h].op = "authorize" /\ outcome[h] # "failed" /\ Trusted
              => Known(req[h].pid)

RecordedInv == AuthorizedIsRecorded /\ WrittenIsRecorded

\* A step back to a trusted state starts in one, and loses no row.
LEMMA TrustedBefore ==
  ASSUME Inv, Inv', [Next]_vars, Trusted'
  PROVE  Trusted /\ DOMAIN rows \subseteq DOMAIN rows'
<1>. USE ServiceAssumption DEF Inv, TypeOK, Trusted
<1>1. ASSUME NEW h \in Handlers, Handle(h) PROVE Trusted
  BY <1>1 DEF Handle, SetFail, Lookup, CheckFail, Read, Write, Track, Emit,
              Upsert, SetStatus, GetFinds, GetMisses, Works, Fails
<1>2. ASSUME NEW h \in Handlers, NEW r \in Workload, Receive(h, r) PROVE Trusted
  BY <1>2 DEF Receive
<1>3. ASSUME NEW h \in Handlers, AnswerAtOnce(h) PROVE Trusted
  BY <1>3 DEF AnswerAtOnce, RejectMalformed, Acknowledge
<1>4. CASE Crash
  BY <1>4 DEF Crash
<1>5. CASE UNCHANGED vars
  BY <1>5 DEF vars
<1>6. Trusted
  BY <1>1, <1>2, <1>3, <1>4, <1>5 DEF Next
<1>7. ~(Crash /\ ~Durable)
  BY DEF Crash
<1>. QED
  BY <1>6, <1>7, RowsStay

LEMMA RecordedStep ==
  Inv /\ Inv' /\ RecordedInv /\ [Next]_vars => RecordedInv'
<1>. SUFFICES ASSUME Inv, Inv', RecordedInv, [Next]_vars PROVE RecordedInv'
  OBVIOUS
<1>. USE DEF Inv, TypeOK, RecordedInv, AuthorizedIsRecorded, WrittenIsRecorded, Known
<1>1. Trusted' => Trusted /\ DOMAIN rows \subseteq DOMAIN rows'
  BY TrustedBefore
<1>2. ASSUME NEW h \in Handlers, Handle(h) PROVE RecordedInv'
  <2>. USE DEF Goto, Reply, Announce
  <2>1. CASE SetFail(h)
    BY <1>1, <2>1 DEF SetFail, Trusted
  <2>2. CASE Lookup(h)
    BY <1>1, <2>2 DEF Lookup, Trusted
  <2>3. CASE CheckFail(h)
    BY <1>1, <2>3 DEF CheckFail, Trusted
  <2>4. CASE Read(h)
    BY <1>1, <2>4 DEF Read, Positions, Trusted
  <2>5. CASE Write(h)
    <3>1. req[h].op = "authorize" /\ Trusted' => Known(req[h].pid)'
      BY <1>1, <2>5, ServiceAssumption DEF Write, Upsert, Works, Fails, Trusted
    <3>. QED
      BY <1>1, <2>5, <3>1 DEF Write, Trusted
  <2>6. CASE Track(h)
    BY <1>1, <2>6 DEF Track, Positions, Trusted
  <2>7. CASE Emit(h)
    BY <1>1, <2>7 DEF Emit, Trusted
  <2>. QED
    BY <1>2, <2>1, <2>2, <2>3, <2>4, <2>5, <2>6, <2>7 DEF Handle
<1>3. ASSUME NEW h \in Handlers, NEW r \in Workload, Receive(h, r) PROVE RecordedInv'
  <2>1. FirstSection(r) \in {"setfail", "checkfail", "lookup", "read", "write"}
    BY FirstSectionShape, RequestShape
  <2>2. AuthorizedIsRecorded'
    <3>1. \A g \in Handlers : answer'[g] = "ok" => g # h
      BY <1>3 DEF Receive
    <3>2. \A g \in Handlers : g # h => req'[g] = req[g]
      BY <1>3 DEF Receive
    <3>. QED
      BY <1>1, <1>3, <3>1, <3>2 DEF Receive, Trusted
  <2>3. WrittenIsRecorded'
    <3>1. pc[h] = "idle" /\ pc'[h] # "emit"
      BY <1>3, <2>1 DEF Receive, Goto
    <3>2. answer' = answer /\ rows' = rows
      BY <1>3 DEF Receive
    <3>3. \A g \in Handlers : g # h =>
             pc'[g] = pc[g] /\ req'[g] = req[g] /\ outcome'[g] = outcome[g]
      BY <1>3 DEF Receive, Goto, Announce
    <3>. QED
      BY <1>1, <3>1, <3>2, <3>3
  <2>. QED
    BY <2>2, <2>3
<1>4. ASSUME NEW h \in Handlers, AnswerAtOnce(h) PROVE RecordedInv'
  <2>1. CASE RejectMalformed(h)
    BY <1>1, <2>1 DEF RejectMalformed, Reply, Goto, Trusted
  <2>2. CASE Acknowledge(h)
    BY <1>1, <2>2 DEF Acknowledge, Reply, Goto, Trusted, Notice
  <2>. QED
    BY <1>4, <2>1, <2>2 DEF AnswerAtOnce
<1>5. CASE Crash
  BY <1>1, <1>5 DEF Crash, Sections, Trusted
<1>6. CASE UNCHANGED vars
  BY <1>6 DEF vars, Trusted
<1>. QED
  BY <1>2, <1>3, <1>4, <1>5, <1>6 DEF Next

\* An authorization the client was told of is in the store, for any number of
\* concurrent requests and, with durable rows, any number of restarts.
THEOREM AuthorizationsAreRecorded == Spec => []AuthorizedIsRecorded
<1>1. Init => RecordedInv
  BY DEF Init, RecordedInv, AuthorizedIsRecorded, WrittenIsRecorded
<1>. QED
  BY <1>1, Invariance, RecordedStep, PTL DEF Spec, RecordedInv

-----------------------------------------------------------------------------
(* The log explains the state *)

\* How a handler explains the status s of the row of p: it has announced it, or
\* stands between its write and its event, or was killed there.
Explains(h, p, s) ==
    /\ req[h].pid = p
    /\ outcome[h] = s
    /\ ~Forced(Event(h))
    /\ \/ pc[h] \in {"track", "emit", "silenced"}
       \/ pc[h] = "done" /\ \E i \in DOMAIN audit : audit[i] = Event(h)

WritersExplain ==
    \A p \in DOMAIN rows : Explains(writer[p], p, rows[p].status)

LEMMA WritersExplainState == WritersExplain => StateExplained
  BY DEF WritersExplain, StateExplained, Explains, EventsBy, Event

LEMMA AppendKeeps ==
  ASSUME Inv, NEW e \in Events, audit' = Append(audit, e)
  PROVE  /\ audit' \in Seq(Events)
         /\ DOMAIN audit' = DOMAIN audit \cup {Len(audit) + 1}
         /\ Len(audit) + 1 \notin DOMAIN audit
         /\ \A i \in DOMAIN audit : audit'[i] = audit[i]
         /\ audit'[Len(audit) + 1] = e
BY DEF Inv, TypeOK

\* A writer goes on explaining what it wrote: it announces it, or is killed, or
\* keeps its request and outcome for good.
LEMMA ExplanationStays ==
  ASSUME Inv, [Next]_vars, NEW h \in Handlers, NEW p, NEW s, Explains(h, p, s)
  PROVE  Explains(h, p, s)'
<1>. USE DEF Inv, TypeOK
<1>1. CASE Emit(h)
  <2>1. Event(h) \in Events
    BY <1>1, EventShape DEF Emit, Positions
  <2>2. audit'[Len(audit) + 1] = Event(h) /\ Len(audit) + 1 \in DOMAIN audit'
    BY <1>1, <2>1, AppendKeeps DEF Emit
  <2>3. req' = req /\ outcome' = outcome /\ pc'[h] = "done"
    BY <1>1 DEF Emit, Reply, Goto
  <2>4. Event(h)' = Event(h)
    BY <2>3 DEF Event
  <2>. QED
    BY <2>2, <2>3, <2>4 DEF Explains, Forced
<1>2. ASSUME \A i \in DOMAIN audit : i \in DOMAIN audit' /\ audit'[i] = audit[i],
             req'[h] = req[h], outcome'[h] = outcome[h],
             \/ pc'[h] = pc[h]
             \/ pc[h] # "done" /\ pc'[h] \in {"track", "emit", "silenced"}
      PROVE  Explains(h, p, s)'
  <2>1. Event(h)' = Event(h)
    BY <1>2 DEF Event
  <2>. QED
    BY <1>2, <2>1 DEF Explains, Forced
<1>3. ASSUME NEW g \in Handlers, Emit(g), g # h PROVE Explains(h, p, s)'
  <2>1. Event(g) \in Events
    BY <1>3, EventShape DEF Emit, Positions
  <2>2. \A i \in DOMAIN audit : i \in DOMAIN audit' /\ audit'[i] = audit[i]
    BY <1>3, <2>1, AppendKeeps DEF Emit
  <2>. QED
    BY <1>2, <1>3, <2>2 DEF Emit, Reply, Goto
<1>4. ASSUME NEW g \in Handlers, Handle(g), ~Emit(g) PROVE Explains(h, p, s)'
  <2>1. audit' = audit /\ req' = req
    BY <1>4 DEF Handle, SetFail, Lookup, CheckFail, Read, Write, Track
  <2>2. CASE g # h
    BY <1>2, <1>4, <2>1, <2>2 DEF Handle, SetFail, Lookup, CheckFail, Read, Write, Track,
                                  Goto, Reply, Announce
  <2>3. CASE g = h
    <3>1. Track(h)
      BY <1>4, <2>3 DEF Explains, Handle, SetFail, Lookup, CheckFail, Read, Write
    <3>. QED
      BY <1>2, <2>1, <3>1 DEF Track, Goto
  <2>. QED
    BY <2>2, <2>3
<1>5. ASSUME NEW g \in Handlers, NEW r \in Workload, Receive(g, r)
      PROVE  Explains(h, p, s)'
  BY <1>2, <1>5 DEF Explains, Receive, Goto, Announce
<1>6. ASSUME NEW g \in Handlers, AnswerAtOnce(g)
      PROVE  Explains(h, p, s)'
  BY <1>2, <1>6 DEF Explains, AnswerAtOnce, RejectMalformed, Acknowledge, Reply, Goto
<1>7. CASE Crash
  BY <1>2, <1>7 DEF Explains, Crash, Sections
<1>8. CASE UNCHANGED vars
  BY <1>2, <1>8 DEF vars
<1>. QED
  BY <1>1, <1>3, <1>4, <1>5, <1>6, <1>7, <1>8 DEF Next

\* Only a statement that ran gives a row another writer or another status.
LEMMA WriterStays ==
  ASSUME Inv, [Next]_vars, NEW p \in DOMAIN rows'
  PROVE  \/ /\ p \in DOMAIN rows
            /\ writer'[p] = writer[p]
            /\ rows'[p].status = rows[p].status
         \/ \E h \in Handlers : Write(h) /\ Works /\ req[h].pid = p /\ writer'[p] = h
<1>. USE DEF Inv, TypeOK
<1>1. ASSUME NEW h \in Handlers, Write(h)
      PROVE  \/ /\ p \in DOMAIN rows
                /\ writer'[p] = writer[p]
                /\ rows'[p].status = rows[p].status
             \/ Works /\ req[h].pid = p /\ writer'[p] = h
  <2>1. writer'[p] = IF p = req[h].pid /\ Works THEN h ELSE writer[p]
    BY <1>1 DEF Write, Sign
  <2>2. CASE p = req[h].pid /\ Works
    BY <2>1, <2>2
  <2>3. CASE ~(p = req[h].pid /\ Works)
    <3>1. p \in DOMAIN rows
      BY <1>1, <2>3, RowsGrow
    <3>2. rows'[p].status = rows[p].status
      BY <1>1, <2>3, <3>1 DEF Write, Upsert, SetStatus
    <3>. QED
      BY <2>1, <2>3, <3>1, <3>2
  <2>. QED
    BY <2>2, <2>3
<1>2. CASE ~\E h \in Handlers : Write(h)
  <2>1. (rows' = rows /\ writer' = writer) \/ Crash
    BY <1>2 DEF Next, vars, Receive, AnswerAtOnce, RejectMalformed, Acknowledge, Handle,
                SetFail, Lookup, CheckFail, Read, Track, Emit
  <2>. QED
    BY <2>1 DEF Crash
<1>. QED
  BY <1>1, <1>2

\* A handler whose statement ran explains the row it wrote.
LEMMA WriterExplains ==
  ASSUME Inv, NEW h \in Handlers, Write(h), Works, NEW p \in DOMAIN rows',
         req[h].pid = p, NEW s, s = rows'[p].status
  PROVE  Explains(h, p, s)'
<1>. USE DEF Inv, TypeOK
<1>1. s = outcome'[h]
  <2>1. ~Fails
    BY DEF Works, Fails
  <2>2. CASE req[h].op = "authorize"
    BY <2>1, <2>2 DEF Write, Upsert, Announce
  <2>3. CASE req[h].op # "authorize"
    BY <2>1, <2>3 DEF Write, SetStatus, Known
  <2>. QED
    BY <2>2, <2>3
<1>2. ~(req[h].op # "webhook" /\ outcome'[h] = "failed")
  BY DEF Write, Positions, Announce
<1>3. pc'[h] \in {"track", "emit"} /\ req' = req
  BY DEF Write, Goto
<1>. QED
  BY <1>1, <1>2, <1>3 DEF Explains, Forced, Event

LEMMA ExplainedStep == Inv /\ WritersExplain /\ [Next]_vars => WritersExplain'
<1>. SUFFICES ASSUME Inv, WritersExplain, [Next]_vars, NEW p \in DOMAIN rows',
                     NEW w, w = writer'[p], NEW s, s = rows'[p].status
              PROVE  Explains(w, p, s)'
  BY DEF WritersExplain, Explains, Forced, Event
<1>1. CASE /\ p \in DOMAIN rows
           /\ writer'[p] = writer[p]
           /\ rows'[p].status = rows[p].status
  <2>1. Explains(w, p, s) /\ w \in Handlers
    BY <1>1 DEF WritersExplain, Inv, TypeOK
  <2>. QED
    BY <2>1, ExplanationStays
<1>2. CASE \E h \in Handlers : Write(h) /\ Works /\ req[h].pid = p /\ writer'[p] = h
  BY <1>2, WriterExplains
<1>. QED
  BY <1>1, <1>2, WriterStays

\* Whatever overwrites whatever, the status of every row is what its last writer
\* announced, or will announce, unless a restart killed it in between.
THEOREM LogExplainsState == Spec => []StateExplained
<1>1. Init => WritersExplain
  BY DEF Init, WritersExplain
<1>. QED
  BY <1>1, Invariance, ExplainedStep, WritersExplainState, PTL DEF Spec

-----------------------------------------------------------------------------
(* The answers agree with the log *)

Announces(h) ==
    /\ pc[h] = "done"
    /\ answer[h] \in {"ok", "failed"}
    /\ req[h].op \notin {"status", "notice"}

\* A handler has one event once it has announced, and none before.
OneEvent ==
    \A h \in Handlers :
        /\ answer[h] # "none" => pc[h] = "done"
        /\ Announces(h) =>
              \E n \in DOMAIN audit :
                  /\ EventsBy(h) = {n}
                  /\ Forced(audit[n]) <=> answer[h] = "failed"
        /\ ~Announces(h) => EventsBy(h) = {}

LEMMA OneEventSuffices == OneEvent => AnswersMatchAudit
<1>. SUFFICES ASSUME OneEvent, NEW h \in Handlers, pc[h] = "done"
              PROVE  IF answer[h] \in {"ok", "failed"} /\ req[h].op \notin {"status", "notice"}
                        THEN /\ Cardinality(EventsBy(h)) = 1
                             /\ \A i \in EventsBy(h) :
                                   Forced(audit[i]) <=> answer[h] = "failed"
                        ELSE EventsBy(h) = {}
  BY DEF AnswersMatchAudit
<1>1. CASE Announces(h)
  <2>1. PICK n \in DOMAIN audit :
           EventsBy(h) = {n} /\ (Forced(audit[n]) <=> answer[h] = "failed")
    BY <1>1 DEF OneEvent
  <2>2. Cardinality(EventsBy(h)) = 1
    BY <2>1, FS_Singleton
  <2>. QED
    BY <1>1, <2>1, <2>2 DEF Announces
<1>2. CASE ~Announces(h)
  BY <1>2 DEF OneEvent, Announces
<1>. QED
  BY <1>1, <1>2

LEMMA EmitOneEvent ==
  ASSUME Inv, OneEvent, NEW h \in Handlers, Emit(h)
  PROVE  OneEvent'
<1>. DEFINE n == Len(audit) + 1
<1>. USE DEF Inv, TypeOK
<1>1. Event(h) \in Events
  BY EventShape DEF Emit, Positions
<1>2. /\ DOMAIN audit' = DOMAIN audit \cup {n}
      /\ n \notin DOMAIN audit
      /\ \A i \in DOMAIN audit : audit'[i] = audit[i]
      /\ audit'[n] = Event(h)
  BY <1>1, AppendKeeps DEF Emit
<1>. HIDE DEF n
<1>3. ASSUME NEW g \in Handlers, g # h
      PROVE  /\ EventsBy(g)' = EventsBy(g)
             /\ Announces(g)' <=> Announces(g)
             /\ answer'[g] = answer[g] /\ pc'[g] = pc[g]
  <2>1. EventsBy(g)' = EventsBy(g)
    BY <1>2, <1>3 DEF EventsBy, Event
  <2>2. answer'[g] = answer[g] /\ pc'[g] = pc[g] /\ req' = req
    BY <1>3 DEF Emit, Reply, Goto
  <2>. QED
    BY <2>1, <2>2 DEF Announces
<1>4. EventsBy(h) = {}
  BY DEF OneEvent, Announces, Emit
<1>5. EventsBy(h)' = {n}
  BY <1>2, <1>4 DEF EventsBy, Event
<1>6. Announces(h)'
  <2>1. req[h].op \notin {"status", "notice"}
    BY RequestShape DEF Emit, Positions
  <2>. QED
    BY <2>1 DEF Announces, Emit, Reply, Goto
<1>7. Forced(audit'[n]) <=> answer'[h] = "failed"
  BY <1>2 DEF Forced, Event, Emit, Reply
<1>8. n \in DOMAIN audit'
  BY <1>2
<1>9. ASSUME NEW g \in Handlers
      PROVE  /\ answer'[g] # "none" => pc'[g] = "done"
             /\ Announces(g)' =>
                   \E m \in DOMAIN audit' :
                       /\ EventsBy(g)' = {m}
                       /\ Forced(audit'[m]) <=> answer'[g] = "failed"
             /\ ~Announces(g)' => EventsBy(g)' = {}
  <2>1. CASE g = h
    BY <1>5, <1>6, <1>7, <1>8, <2>1 DEF Announces
  <2>2. CASE g # h
    <3>1. Announces(g) =>
             \E m \in DOMAIN audit :
                 EventsBy(g) = {m} /\ (Forced(audit'[m]) <=> answer[g] = "failed")
      BY <1>2 DEF OneEvent, Forced
    <3>. QED
      BY <1>2, <1>3, <2>2, <3>1 DEF OneEvent
  <2>. QED
    BY <2>1, <2>2
<1>. QED
  BY <1>9 DEF OneEvent, Forced

LEMMA OneEventStep == Inv /\ OneEvent /\ [Next]_vars => OneEvent'
<1>. SUFFICES ASSUME Inv, OneEvent, [Next]_vars PROVE OneEvent'
  OBVIOUS
<1>. USE DEF Inv, TypeOK
\* A step that leaves the log alone must not make a handler announce, nor
\* touch the answer of one that has.
<1>1. ASSUME audit' = audit,
             \A g \in Handlers :
                 /\ answer'[g] # "none" => pc'[g] = "done"
                 /\ Announces(g)' <=> Announces(g)
                 /\ Announces(g) => answer'[g] = answer[g]
      PROVE  OneEvent'
  <2>1. \A g \in Handlers : EventsBy(g)' = EventsBy(g)
    BY <1>1 DEF EventsBy
  <2>2. ASSUME NEW g \in Handlers, Announces(g)
        PROVE  \E n \in DOMAIN audit' :
                  EventsBy(g)' = {n} /\ (Forced(audit[n])' <=> answer'[g] = "failed")
    BY <1>1, <2>1, <2>2 DEF OneEvent, Forced
  <2>. QED
    BY <1>1, <2>1, <2>2 DEF OneEvent
<1>2. ASSUME NEW h \in Handlers, Handle(h) PROVE OneEvent'
  <2>. USE DEF OneEvent, Announces, Goto, Reply
  <2>1. CASE SetFail(h)
    BY <1>1, <2>1 DEF SetFail
  <2>2. CASE Lookup(h)
    BY <1>1, <2>2 DEF Lookup
  <2>3. CASE CheckFail(h)
    BY <1>1, <2>3 DEF CheckFail
  <2>4. CASE Read(h)
    BY <1>1, <2>4 DEF Read
  <2>5. CASE Write(h)
    BY <1>1, <2>5 DEF Write
  <2>6. CASE Track(h)
    BY <1>1, <2>6 DEF Track
  <2>7. CASE Emit(h)
    BY <2>7, EmitOneEvent
  <2>. QED
    BY <1>2, <2>1, <2>2, <2>3, <2>4, <2>5, <2>6, <2>7 DEF Handle
<1>3. ASSUME NEW h \in Handlers, NEW r \in Workload, Receive(h, r) PROVE OneEvent'
  <2>1. FirstSection(r) # "done"
    BY FirstSectionShape, RequestShape
  <2>2. pc[h] = "idle" /\ pc'[h] # "done" /\ audit' = audit /\ answer' = answer
    BY <1>3, <2>1 DEF Receive, Goto
  <2>3. \A g \in Handlers : g # h => pc'[g] = pc[g] /\ req'[g] = req[g]
    BY <1>3 DEF Receive, Goto
  <2>. QED
    BY <1>1, <2>2, <2>3 DEF OneEvent, Announces
<1>4. ASSUME NEW h \in Handlers, AnswerAtOnce(h) PROVE OneEvent'
  <2>1. CASE RejectMalformed(h)
    BY <1>1, <2>1 DEF RejectMalformed, Reply, Goto, OneEvent, Announces
  <2>2. CASE Acknowledge(h)
    <3>1. ~Announces(h)' /\ ~Announces(h) /\ pc'[h] = "done"
      BY <2>2 DEF Acknowledge, Reply, Goto, Announces, Notice
    <3>2. \A g \in Handlers : g # h => pc'[g] = pc[g] /\ req'[g] = req[g] /\ answer'[g] = answer[g]
      BY <2>2 DEF Acknowledge, Reply, Goto
    <3>3. audit' = audit
      BY <2>2 DEF Acknowledge
    <3>. QED
      BY <1>1, <3>1, <3>2, <3>3 DEF OneEvent, Announces
  <2>. QED
    BY <1>4, <2>1, <2>2 DEF AnswerAtOnce
<1>5. CASE Crash
  BY <1>1, <1>5 DEF Crash, Sections, OneEvent, Announces
<1>6. CASE UNCHANGED vars
  BY <1>1, <1>6 DEF vars, OneEvent, Announces
<1>. QED
  BY <1>2, <1>3, <1>4, <1>5, <1>6 DEF Next

\* Every client that got an answer finds the log agreeing with it, and a
\* refused request left no event, under any interleaving and restarts.
THEOREM AnswersAgreeWithLog == Spec => []AnswersMatchAudit
<1>1. Init => OneEvent
  BY DEF Init, OneEvent, Announces, EventsBy
<1>. QED
  BY <1>1, Invariance, OneEventStep, OneEventSuffices, PTL DEF Spec

-----------------------------------------------------------------------------
(* The tracker *)

\* The status an authorization, capture or refund has decided on is its own or
\* "failed", and "failed" is never tracked; only requests in flight are counted,
\* and these are finitely many.
Decisions ==
    /\ \A h \in Handlers :
          /\ pc[h] \in {"track", "emit"} /\ req[h].op = "authorize" =>
                outcome[h] \in {"authorized", "failed"}
          /\ pc[h] \in {"write", "track", "emit"} /\ req[h].op = "capture" =>
                outcome[h] \in {"captured", "failed"}
          /\ pc[h] \in {"write", "track", "emit"} /\ req[h].op = "refund" =>
                outcome[h] \in {"refunded", "failed"}
    /\ IsFiniteSet(Active)

TrackerInv == Decisions /\ TrackerMatchesAudit

LEMMA DecisionsStep == Inv /\ Decisions /\ [Next]_vars => Decisions'
<1>. SUFFICES ASSUME Inv, Decisions, [Next]_vars PROVE Decisions'
  OBVIOUS
<1>. USE DEF Inv, TypeOK, Decisions
<1>1. ASSUME NEW h \in Handlers, Active' \subseteq Active \cup {h}
      PROVE  IsFiniteSet(Active')
  BY <1>1, FS_AddElement, FS_Subset
<1>2. ASSUME NEW h \in Handlers, Handle(h) PROVE Decisions'
  <2>1. IsFiniteSet(Active')
    <3>1. Active' \subseteq Active \cup {h}
      BY <1>2 DEF Handle, SetFail, Lookup, CheckFail, Read, Write, Track, Emit, Goto, Reply,
                  Active
    <3>. QED
      BY <1>1, <3>1
  <2>. USE <2>1 DEF Positions, Goto, Reply, Announce
  <2>2. CASE SetFail(h)
    BY <2>2 DEF SetFail
  <2>3. CASE Lookup(h)
    BY <2>3 DEF Lookup
  <2>4. CASE CheckFail(h)
    BY <2>4 DEF CheckFail
  <2>5. CASE Read(h)
    BY <2>5 DEF Read
  <2>6. CASE Write(h)
    BY <2>6 DEF Write
  <2>7. CASE Track(h)
    BY <2>7 DEF Track
  <2>8. CASE Emit(h)
    BY <2>8 DEF Emit
  <2>. QED
    BY <1>2, <2>2, <2>3, <2>4, <2>5, <2>6, <2>7, <2>8 DEF Handle
<1>3. ASSUME NEW h \in Handlers, NEW r \in Workload, Receive(h, r) PROVE Decisions'
  <2>1. Active' \subseteq Active \cup {h}
    BY <1>3 DEF Receive, Goto, Active
  <2>2. /\ pc' = [pc EXCEPT ![h] = FirstSection(r)] /\ req' = [req EXCEPT ![h] = r]
        /\ \A g \in Handlers : g # h => outcome'[g] = outcome[g]
    BY <1>3 DEF Receive, Goto, Announce
  <2>3. r.op = "webhook" \/ FirstSection(r) \notin {"write", "track", "emit"}
    BY RequestShape, FirstSectionShape
  <2>4. r.op = "webhook" => FirstSection(r) = "write"
    BY FirstSectionShape
  <2>. QED
    BY <1>1, <2>1, <2>2, <2>3, <2>4
<1>4. ASSUME NEW h \in Handlers, AnswerAtOnce(h) PROVE Decisions'
  <2>1. Active' \subseteq Active \cup {h}
    BY <1>4 DEF AnswerAtOnce, RejectMalformed, Acknowledge, Reply, Goto, Active
  <2>. QED
    BY <1>1, <1>4, <2>1 DEF AnswerAtOnce, RejectMalformed, Acknowledge, Reply, Goto
<1>5. CASE Crash
  <2>1. Active' = {}
    BY <1>5 DEF Crash, Active, Sections
  <2>. QED
    BY <1>5, <2>1, FS_EmptySet DEF Crash, Sections
<1>6. CASE UNCHANGED vars
  BY <1>6 DEF vars, Active
<1>. QED
  BY <1>2, <1>3, <1>4, <1>5, <1>6 DEF Next

\* What a capture or refund adds to the total.
LEMMA EffectType ==
  ASSUME NEW h \in Handlers, req[h] \in Workload, req[h].op \in {"capture", "refund"}
  PROVE  Effect(h) \in Int
<1>1. req[h].amount \in Int
  BY RequestShape, ServiceAssumption
<1>. QED
  BY <1>1 DEF Effect

\* Both sums are of finitely many integers.
LEMMA SummandsAreInts ==
  ASSUME Inv, Decisions
  PROVE  /\ \A h \in Counted : Effect(h) \in Int
         /\ \A i \in DOMAIN audit : SignedAmount(audit[i]) \in Int
         /\ IsFiniteSet(Counted) /\ IsFiniteSet(DOMAIN audit)
<1>1. ASSUME NEW h \in Counted PROVE Effect(h) \in Int
  <2>1. h \in Handlers /\ req[h] \in Workload /\ req[h].op \in {"capture", "refund"}
    BY DEF Counted, Inv, Positions
  <2>. QED
    BY <2>1, EffectType
<1>2. ASSUME NEW i \in DOMAIN audit PROVE SignedAmount(audit[i]) \in Int
  <2>1. audit[i] \in Events
    BY DEF Inv, TypeOK
  <2>2. audit[i].amount \in Amounts \cup {0}
    BY <2>1, Zenon DEF Events
  <2>3. Amounts \cup {0} \subseteq Int
    BY ServiceAssumption
  <2>4. audit[i].amount \in Int
    BY <2>2, <2>3, Zenon
  <2>. QED
    BY <2>4 DEF SignedAmount
<1>3. IsFiniteSet(Counted)
  <2>1. Counted \subseteq Active
    BY DEF Counted, Active, Sections
  <2>. QED
    BY <2>1, FS_Subset DEF Decisions
<1>4. IsFiniteSet(DOMAIN audit)
  <2>1. DOMAIN audit = 1 .. Len(audit) /\ Len(audit) \in Nat
    BY DEF Inv, TypeOK
  <2>. QED
    BY <2>1, FS_Interval
<1>. QED
  BY <1>1, <1>2, <1>3, <1>4

\* A step that leaves the log and the counted handlers alone leaves both sums alone.
LEMMA SameSums ==
  ASSUME Inv, Decisions, audit' = audit, Counted' = Counted,
         \A h \in Counted : req'[h] = req[h]
  PROVE  /\ Audited' = Audited
         /\ SumFunction([h \in Counted |-> Effect(h)])' = SumFunction([h \in Counted |-> Effect(h)])
<1>1. Audited' = Audited
  BY DEF Audited, SignedAmount
<1>2. [h \in Counted |-> Effect(h)]' = [h \in Counted |-> Effect(h)]
  BY DEF Effect
<1>. QED
  BY <1>1, <1>2

\* A capture or refund that is tracked becomes counted, with its amount.
LEMMA TrackCounts ==
  ASSUME Inv, Decisions, NEW e \in Handlers, Track(e)
  PROVE  SumFunction([h \in Counted |-> Effect(h)])'
            = SumFunction([h \in Counted |-> Effect(h)]) + Effect(e)
<1>. DEFINE f == [h \in Counted |-> Effect(h)]
            g == [h \in Counted' |-> Effect(h)']
<1>1. req[e].op \in {"capture", "refund"} /\ outcome[e] \in {"captured", "refunded"}
  BY DEF Track, Inv, Positions, Decisions
<1>2. Counted' = Counted \cup {e} /\ e \notin Counted
  BY <1>1 DEF Track, Goto, Counted, Inv, TypeOK
<1>3. \A h \in Handlers : Effect(h)' = Effect(h)
  BY DEF Track, Effect
<1>4. Effect(e) \in Int
  <2>1. req[e] \in Workload
    BY DEF Track, Inv, Positions
  <2>. QED
    BY <1>1, <2>1, EffectType
<1>5. /\ IsFiniteSet(Counted) /\ e \notin Counted /\ g[e] \in Int
      /\ \A h \in Counted : f[h] \in Int /\ g[h] = f[h]
      /\ g[e] = Effect(e)
  BY <1>2, <1>3, <1>4, SummandsAreInts DEF Counted
<1>6. SumFunctionOnSet(g, Counted \cup {e}) = SumFunctionOnSet(f, Counted) + g[e]
  <2>. HIDE DEF f, g
  <2>. QED
    BY <1>5, SumGrows
<1>7. DOMAIN g = Counted \cup {e} /\ DOMAIN f = Counted
  BY <1>2
<1>. QED
  BY <1>5, <1>6, <1>7, Zenon DEF SumFunction

\* The amount of an emitted event is what its handler was counted with.
LEMMA EventIsCounted ==
  ASSUME Inv, Decisions, NEW e \in Handlers, Emit(e)
  PROVE  IF e \in Counted THEN SignedAmount(Event(e)) = Effect(e)
                          ELSE SignedAmount(Event(e)) = 0
<1>1. /\ req[e] \in Workload /\ req[e].op # "status"
      /\ pc[e] = "emit"
  BY DEF Emit, Inv, Positions
<1>2. req[e].op \in {"authorize", "capture", "refund", "webhook"}
  BY <1>1, RequestShape
<1>3. CASE req[e].op = "webhook"
  BY <1>3 DEF SignedAmount, Event, Counted
<1>4. CASE req[e].op = "authorize"
  BY <1>4 DEF SignedAmount, Event, Counted
<1>5. CASE req[e].op = "capture"
  BY <1>1, <1>5 DEF SignedAmount, Event, Counted, Effect, Decisions
<1>6. CASE req[e].op = "refund"
  BY <1>1, <1>6 DEF SignedAmount, Event, Counted, Effect, Decisions
<1>. QED
  BY <1>2, <1>3, <1>4, <1>5, <1>6

\* The log grows by the amount of its new event.
LEMMA EmitAudits ==
  ASSUME Inv, Decisions, NEW e \in Handlers, Emit(e)
  PROVE  Audited' = Audited + SignedAmount(Event(e))
<1>. DEFINE D == DOMAIN audit
            f == [i \in DOMAIN audit |-> SignedAmount(audit[i])]
            g == [i \in DOMAIN audit' |-> SignedAmount(audit[i])']
            n == Len(audit) + 1
<1>1. /\ Event(e) \in Events /\ audit' = Append(audit, Event(e)) /\ audit \in Seq(Events)
  BY EventShape DEF Emit, Inv, TypeOK, Positions
<1>2. DOMAIN audit' = DOMAIN audit \cup {n} /\ n \notin DOMAIN audit
  BY <1>1
<1>3. audit'[n] = Event(e) /\ \A i \in DOMAIN audit : audit'[i] = audit[i]
  BY <1>1
<1>4. SignedAmount(Event(e)) \in Int
  <2>1. Event(e).amount \in Amounts \cup {0}
    BY <1>1 DEF Events
  <2>2. Amounts \cup {0} \subseteq Int
    BY ServiceAssumption
  <2>3. Event(e).amount \in Int
    BY <2>1, <2>2, Zenon
  <2>. QED
    BY <2>3 DEF SignedAmount
<1>5. /\ g[n] = SignedAmount(Event(e)) /\ g[n] \in Int
      /\ \A i \in DOMAIN audit : f[i] \in Int /\ g[i] = f[i]
  BY <1>2, <1>3, <1>4, SummandsAreInts DEF SignedAmount
<1>6. SumFunctionOnSet(g, D \cup {n}) = SumFunctionOnSet(f, D) + g[n]
  <2>1. IsFiniteSet(D) /\ n \notin D
    BY <1>2, SummandsAreInts
  <2>2. \A i \in D : f[i] \in Int /\ g[i] = f[i]
    BY <1>5
  <2>3. g[n] \in Int
    BY <1>5
  <2>. HIDE DEF f, g, n, D
  <2>. QED
    BY <2>1, <2>2, <2>3, SumGrows, Zenon
<1>7. DOMAIN g = DOMAIN audit \cup {n} /\ DOMAIN f = DOMAIN audit
  BY <1>2
<1>. QED
  BY <1>5, <1>6, <1>7, Zenon DEF SumFunction, Audited

\* Its handler stops being counted.
LEMMA EmitUncounts ==
  ASSUME Inv, Decisions, NEW e \in Handlers, Emit(e), e \in Counted
  PROVE  SumFunction([h \in Counted |-> Effect(h)])
            = Effect(e) + SumFunction([h \in Counted |-> Effect(h)])'
<1>. DEFINE f == [h \in Counted |-> Effect(h)]
            g == [h \in Counted' |-> Effect(h)']
<1>1. Counted' = Counted \ {e}
  BY DEF Emit, Reply, Goto, Counted, Inv, TypeOK
<1>2. \A h \in Handlers : Effect(h)' = Effect(h)
  BY DEF Emit, Effect
<1>3. /\ IsFiniteSet(Counted) /\ \A h \in Counted : f[h] \in Int
      /\ \A h \in Counted \ {e} : g[h] = f[h]
      /\ f[e] = Effect(e)
  BY <1>1, <1>2, SummandsAreInts DEF Counted
<1>4. SumFunctionOnSet(f, Counted) = f[e] + SumFunctionOnSet(f, Counted \ {e})
  <2>. HIDE DEF f
  <2>. QED
    BY <1>3, SumRemove, Zenon
<1>5. SumFunctionOnSet(g, Counted \ {e}) = SumFunctionOnSet(f, Counted \ {e})
  <2>1. IsFiniteSet(Counted \ {e})
    BY <1>3, FS_RemoveElement
  <2>. HIDE DEF f, g
  <2>. QED
    BY <1>3, <2>1, SumSame, Zenon
<1>6. DOMAIN g = Counted \ {e} /\ DOMAIN f = Counted
  BY <1>1
<1>. QED
  BY <1>3, <1>4, <1>5, <1>6, Zenon DEF SumFunction

LEMMA TrackerStep == Inv /\ TrackerInv /\ [Next]_vars => TrackerInv'
<1>. SUFFICES ASSUME Inv, Decisions, TrackerMatchesAudit, [Next]_vars
              PROVE  TrackerMatchesAudit'
  BY DecisionsStep DEF TrackerInv
<1>. DEFINE sum == SumFunction([h \in Counted |-> Effect(h)])
<1>1. /\ Audited \in Int
      /\ sum \in Int
      /\ \A h \in Counted : Effect(h) \in Int
  <2>1. SumFunctionOnSet([i \in DOMAIN audit |-> SignedAmount(audit[i])], DOMAIN audit) \in Int
    <3>. DEFINE f == [i \in DOMAIN audit |-> SignedAmount(audit[i])]
    <3>1. \A i \in DOMAIN audit : f[i] \in Int
      BY SummandsAreInts
    <3>. HIDE DEF f
    <3>. QED
      BY <3>1, SummandsAreInts, SumType, Zenon
  <2>2. SumFunctionOnSet([h \in Counted |-> Effect(h)], Counted) \in Int
    <3>. DEFINE f == [h \in Counted |-> Effect(h)]
    <3>1. \A h \in Counted : f[h] \in Int
      BY SummandsAreInts
    <3>. HIDE DEF f
    <3>. QED
      BY <3>1, SummandsAreInts, SumType, Zenon
  <2>. QED
    BY <2>1, <2>2, SummandsAreInts DEF SumFunction, Audited
<1>2. ASSUME total' = total, crashes' = crashes, audit' = audit, Counted' = Counted,
             \A h \in Counted : req'[h] = req[h]
      PROVE  TrackerMatchesAudit'
  BY <1>2, SameSums DEF TrackerMatchesAudit
<1>3. ASSUME NEW e \in Handlers, Handle(e) PROVE TrackerMatchesAudit'
  <2>1. CASE Track(e)
    <3>1. total' = total + Effect(e) /\ crashes' = crashes /\ Audited' = Audited
      BY <2>1 DEF Track, Audited, SignedAmount
    <3>2. sum' = sum + Effect(e)
      BY <2>1, TrackCounts
    <3>3. Effect(e) \in Int
      <4>1. req[e] \in Workload /\ req[e].op \in {"capture", "refund"}
        BY <2>1 DEF Track, Inv, Positions
      <4>. QED
        BY <4>1, EffectType
    <3>. HIDE DEF sum
    <3>4. crashes = 0 => total = Audited + sum
      BY DEF TrackerMatchesAudit, sum
    <3>5. crashes' = 0 => total' = Audited' + sum'
      BY <1>1, <3>1, <3>2, <3>3, <3>4
    <3>. QED
      BY <3>5 DEF TrackerMatchesAudit, sum
  <2>2. CASE Emit(e)
    <3>1. total' = total /\ crashes' = crashes
      BY <2>2 DEF Emit
    <3>2. Audited' = Audited + SignedAmount(Event(e))
      BY <2>2, EmitAudits
    <3>3. CASE e \in Counted
      <4>1. sum = Effect(e) + sum' /\ SignedAmount(Event(e)) = Effect(e)
        BY <2>2, <3>3, EmitUncounts, EventIsCounted
      <4>2. crashes = 0 => total = Audited + (Effect(e) + sum')
        BY <4>1 DEF TrackerMatchesAudit
      <4>3. sum' \in Int
        <5>1. Inv' /\ Decisions'
          BY NextInv, DecisionsStep
        <5>2. (\A h \in Counted : Effect(h) \in Int)' /\ IsFiniteSet(Counted)'
          BY <5>1, SummandsAreInts, PTL
        <5>. DEFINE f == [h \in Counted' |-> Effect(h)']
        <5>3. \A h \in Counted' : f[h] \in Int
          BY <5>2
        <5>4. SumFunctionOnSet(f, Counted') \in Int
          <6>. HIDE DEF f
          <6>. QED
            BY <5>2, <5>3, SumType, Zenon
        <5>. QED
          BY <5>4 DEF SumFunction
      <4>. HIDE DEF sum
      <4>4. crashes' = 0 => total' = Audited' + sum'
        BY <1>1, <3>1, <3>2, <3>3, <4>1, <4>2, <4>3
      <4>. QED
        BY <4>4 DEF TrackerMatchesAudit, sum
    <3>4. CASE e \notin Counted
      <4>1. Counted' = Counted /\ \A h \in Counted : req'[h] = req[h]
        BY <2>2, <3>4 DEF Emit, Reply, Goto, Counted, Inv, TypeOK
      <4>2. [h \in Counted |-> Effect(h)]' = [h \in Counted |-> Effect(h)]
        BY <4>1 DEF Effect
      <4>3. sum' = sum /\ Audited' = Audited + 0
        BY <2>2, <3>2, <3>4, <4>2, EventIsCounted
      <4>4. crashes = 0 => total = Audited + sum
        BY DEF TrackerMatchesAudit
      <4>. HIDE DEF sum
      <4>5. crashes' = 0 => total' = Audited' + sum'
        BY <1>1, <3>1, <4>3, <4>4
      <4>. QED
        BY <4>5 DEF TrackerMatchesAudit, sum
    <3>. QED
      BY <3>3, <3>4
  <2>. USE <1>2 DEF Goto, Reply, Announce, Counted, Inv, TypeOK, Positions
  <2>3. CASE SetFail(e)
    BY <2>3 DEF SetFail
  <2>4. CASE Lookup(e)
    BY <2>4 DEF Lookup
  <2>5. CASE CheckFail(e)
    BY <2>5 DEF CheckFail
  <2>6. CASE Read(e)
    BY <2>6 DEF Read
  <2>7. CASE Write(e)
    BY <2>7 DEF Write
  <2>. QED
    BY <1>3, <2>1, <2>2, <2>3, <2>4, <2>5, <2>6, <2>7 DEF Handle
<1>4. ASSUME NEW h \in Handlers, NEW r \in Workload, Receive(h, r)
      PROVE  TrackerMatchesAudit'
  <2>1. FirstSection(r) # "emit"
    BY RequestShape, FirstSectionShape
  <2>. QED
    BY <1>2, <1>4, <2>1 DEF Receive, Goto, Announce, Counted, Inv, TypeOK
<1>5. ASSUME NEW h \in Handlers, AnswerAtOnce(h) PROVE TrackerMatchesAudit'
  BY <1>2, <1>5 DEF AnswerAtOnce, RejectMalformed, Acknowledge, Reply, Goto, Counted, Inv, TypeOK
<1>6. CASE Crash
  <2>1. crashes' # 0
    BY <1>6 DEF Crash, Inv, TypeOK
  <2>. QED
    BY <2>1 DEF TrackerMatchesAudit
<1>7. CASE UNCHANGED vars
  BY <1>2, <1>7 DEF vars, Counted
<1>. QED
  BY <1>3, <1>4, <1>5, <1>6, <1>7 DEF Next

\* Until a restart the net total is what the log adds up to, with the captures and
\* refunds that are about to be announced, whatever races, fails or is forced to.
THEOREM TotalIsAudited == Spec => []TrackerMatchesAudit
<1>1. Init => TrackerInv
  <2>. SUFFICES ASSUME Init PROVE TrackerInv
    OBVIOUS
  <2>1. Active = {} /\ Counted = {} /\ DOMAIN audit = {} /\ total = 0
    BY DEF Init, Active, Sections, Counted
  <2>2. Decisions
    BY <2>1, FS_EmptySet DEF Init, Decisions
  <2>3. Audited = 0
    BY <2>1, SumOfNone, Zenon DEF Audited, SumFunction
  <2>4. SumFunction([h \in Counted |-> Effect(h)]) = 0
    BY <2>1, SumOfNone, Zenon DEF SumFunction
  <2>. QED
    BY <2>1, <2>2, <2>3, <2>4 DEF TrackerInv, TrackerMatchesAudit
<1>2. TrackerInv => TrackerMatchesAudit
  BY DEF TrackerInv
<1>. QED
  BY <1>1, <1>2, Invariance, TrackerStep, PTL DEF Spec

=============================================================================
