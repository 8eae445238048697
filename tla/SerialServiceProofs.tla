------------------------ MODULE SerialServiceProofs -------------------------
(***************************************************************************)
(* Proofs about RailService when the client waits for each answer before   *)
(* it sends the next request: the log replays to the rows, and the service *)
(* implements PaymentLedger.  For any number of requests and payments.     *)
(***************************************************************************)
EXTENDS RailServiceProofs

\* One request at a time, statements that work, and no restart that leaves a row
\* whose writer it silenced.
Serial ==
    /\ MaxInFlight = 1
    /\ MaxDbErrors = 0
    /\ Durable => MaxCrashes = 0

\* The bound on requests in flight, as the handlers show it.
OneActive ==
    /\ IsFiniteSet(Active)
    /\ \A g, h \in Active : g = h

\* What the connector decided on what it read is still true when it writes.
Decided ==
    \A h \in Handlers : pc[h] = "write" =>
        /\ req[h].op = "capture" =>
              Known(req[h].pid) /\ MayCapture(req[h].pid) /\ outcome[h] = "captured"
        /\ req[h].op = "refund" =>
              Known(req[h].pid) /\ MayRefund(req[h].pid) /\ outcome[h] = "refunded"

\* An event that says what the row of a payment is.
Says(i, p) == audit[i].pid = p /\ ~Forced(audit[i])

LastSays(p) ==
    \E i \in DOMAIN audit :
        /\ Says(i, p)
        /\ audit[i].status = rows[p].status
        /\ \A j \in DOMAIN audit : Says(j, p) => j <= i

\* A handler that has written a payment and not said so yet.
Due(h, p) == pc[h] \in {"track", "emit"} /\ req[h].pid = p /\ ~Forced(Event(h))

Replays ==
    \A p \in DOMAIN rows :
        \/ \E h \in Handlers : Due(h, p) /\ outcome[h] = rows[p].status
        \/ (\A h \in Handlers : ~Due(h, p)) /\ LastSays(p)

SerialInv == Inv /\ OneActive /\ Decided /\ Replays
-----------------------------------------------------------------------------
(* One request at a time                                                     *)

\* A handler that works is active.
LEMMA HandlerIsActive ==
  ASSUME NEW h \in Handlers, Handle(h)
  PROVE  h \in Active
  BY DEF Handle, SetFail, Lookup, CheckFail, Read, Write, Track, Emit, Active, Sections

\* No set of fewer members than one has any.
LEMMA NoneActive ==
  ASSUME IsFiniteSet(Active), Cardinality(Active) < 1
  PROVE  Active = {}
<1>1. Cardinality(Active) \in Nat
  BY FS_CardinalityType
<1>2. Cardinality(Active) = 0
  BY <1>1
<1>. QED
  BY <1>2, FS_EmptySet

LEMMA OneActiveStep ==
  ASSUME Inv, Serial, OneActive, [Next]_vars
  PROVE  OneActive'
<1>. USE DEF Inv, TypeOK
<1>1. CASE \E h \in Handlers, r \in Workload : Receive(h, r)
  <2>1. PICK h \in Handlers, r \in Workload : Receive(h, r)
    BY <1>1
  <2>2. Active = {}
    BY <2>1, NoneActive DEF Receive, Serial, OneActive
  <2>3. Active' \subseteq {h}
    BY <2>1, <2>2 DEF Receive, Goto, Active
  <2>4. IsFiniteSet({h})
    BY FS_Singleton
  <2>5. IsFiniteSet(Active')
    BY <2>3, <2>4, FS_Subset
  <2>6. \A f, g \in Active' : f = g
    BY <2>3
  <2>. QED
    BY <2>5, <2>6 DEF OneActive
<1>2. ASSUME Active' \subseteq Active PROVE OneActive'
  BY <1>2, FS_Subset DEF OneActive
<1>3. CASE \E h \in Handlers : Handle(h)
  <2>1. PICK h \in Handlers : Handle(h)
    BY <1>3
  <2>2. Active' \subseteq Active
    BY <2>1, HandlerIsActive DEF Handle, SetFail, Lookup, CheckFail, Read, Write, Track,
                                 Emit, Goto, Reply, Active
  <2>. QED
    BY <1>2, <2>2
<1>4. CASE \E h \in Handlers : AnswerAtOnce(h)
  BY <1>2, <1>4 DEF AnswerAtOnce, RejectMalformed, Acknowledge, Reply, Goto, Active, Sections
<1>5. CASE Crash
  BY <1>2, <1>5 DEF Crash, Active, Sections
<1>6. CASE UNCHANGED vars
  BY <1>2, <1>6 DEF vars, Active
<1>. QED
  BY <1>1, <1>3, <1>4, <1>5, <1>6 DEF Next

\* While one handler works, no other is between two sections.
LEMMA OthersIdle ==
  ASSUME OneActive, NEW h \in Handlers, Handle(h), NEW g \in Handlers, g # h
  PROVE  pc[g] \notin Sections
<1>1. h \in Active
  BY HandlerIsActive
<1>. QED
  BY <1>1 DEF OneActive, Active

\* No statement fails.
LEMMA NoFailure ==
  ASSUME Inv, Serial
  PROVE  ~Fails
  BY DEF Inv, TypeOK, Serial, Fails

\* What a handler's write does to the rows.
LEMMA WriteOfRow ==
  ASSUME Inv, Serial, NEW h \in Handlers, Write(h)
  PROVE  LET p == req[h].pid IN
         /\ DOMAIN rows \subseteq DOMAIN rows' /\ DOMAIN rows' \subseteq DOMAIN rows \cup {p}
         /\ \A q \in DOMAIN rows' \ {p} : rows'[q].status = rows[q].status
         /\ p \in DOMAIN rows' => rows'[p].status = outcome'[h]
         /\ req[h].op # "authorize" => DOMAIN rows' = DOMAIN rows
         /\ req[h].op = "authorize" => p \in DOMAIN rows'
<1>1. ~Fails
  BY NoFailure
<1>2. CASE req[h].op = "authorize"
  <2>1. /\ rows' = [q \in DOMAIN rows \cup {req[h].pid} |->
               IF q = req[h].pid THEN [status |-> "authorized", amount |-> req[h].amount]
               ELSE rows[q]]
        /\ outcome'[h] = "authorized"
    BY <1>1, <1>2 DEF Write, Upsert, Announce, Inv, TypeOK
  <2>. QED
    BY <1>2, <2>1
<1>3. CASE req[h].op # "authorize"
  <2>1. /\ rows' = IF Known(req[h].pid)
                      THEN [rows EXCEPT ![req[h].pid].status = outcome[h]] ELSE rows
        /\ outcome'[h] = outcome[h]
    BY <1>1, <1>3 DEF Write, SetStatus
  <2>2. \A q \in DOMAIN rows : rows[q] \in [status : Statuses, amount : Amounts]
    BY DEF Inv, TypeOK
  <2>. QED
    BY <1>3, <2>1, <2>2 DEF Known
<1>. QED
  BY <1>2, <1>3

\* What was decided stays decided: nobody else writes in between.
LEMMA DecidedStep ==
  ASSUME Inv, Serial, OneActive, Decided, [Next]_vars
  PROVE  Decided'
<1>. USE DEF Inv, TypeOK
<1>1. ASSUME rows' = rows,
             \A h \in Handlers : pc'[h] = "write" =>
                /\ pc[h] = "write" \/ req'[h].op \notin {"capture", "refund"}
                /\ pc[h] = "write" => req'[h] = req[h] /\ outcome'[h] = outcome[h]
      PROVE  Decided'
  BY <1>1 DEF Decided, Known, MayCapture, MayRefund
<1>2. CASE \E h \in Handlers, r \in Workload : Receive(h, r)
  <2>1. PICK h \in Handlers, r \in Workload : Receive(h, r)
    BY <1>2
  <2>2. FirstSection(r) = "write" => r.op \notin {"capture", "refund"}
    BY FirstSectionShape
  <2>. QED
    BY <1>1, <2>1, <2>2 DEF Receive, Goto, Announce
<1>3. CASE \E h \in Handlers : Handle(h)
  <2>1. PICK h \in Handlers : Handle(h)
    BY <1>3
  <2>2. \A g \in Handlers \ {h} : pc[g] # "write" /\ pc'[g] = pc[g]
    BY <2>1, OthersIdle DEF Handle, SetFail, Lookup, CheckFail, Read, Write, Track, Emit,
                            Goto, Reply, Sections
  <2>3. CASE Read(h)
    BY <2>2, <2>3 DEF Read, Goto, Reply, Announce, GetFinds, GetMisses, Decided, Known,
                      MayCapture, MayRefund
  <2>4. CASE CheckFail(h)
    BY <2>2, <2>4 DEF CheckFail, Goto, Announce, Decided
  <2>5. CASE SetFail(h) \/ Lookup(h) \/ Write(h) \/ Track(h) \/ Emit(h)
    BY <2>2, <2>5 DEF SetFail, Lookup, Write, Track, Emit, Goto, Reply, Decided
  <2>. QED
    BY <2>1, <2>3, <2>4, <2>5 DEF Handle
<1>4. CASE \E h \in Handlers : AnswerAtOnce(h)
  BY <1>1, <1>4 DEF AnswerAtOnce, RejectMalformed, Acknowledge, Reply, Goto
<1>5. CASE Crash
  BY <1>5 DEF Crash, Decided, Sections
<1>6. CASE UNCHANGED vars
  BY <1>1, <1>6 DEF vars
<1>. QED
  BY <1>2, <1>3, <1>4, <1>5, <1>6 DEF Next
-----------------------------------------------------------------------------
(* The log replays                                                           *)

\* A step that neither writes a row nor emits, and changes nobody's due event.
LEMMA ReplaysStand ==
  ASSUME Replays, rows' = rows, audit' = audit,
         \A h \in Handlers : \A p \in DOMAIN rows :
            /\ Due(h, p)' <=> Due(h, p)
            /\ Due(h, p) => outcome'[h] = outcome[h]
  PROVE  Replays'
<1>1. \A p \in DOMAIN rows : LastSays(p)' <=> LastSays(p)
  BY DEF LastSays, Says, Forced
<1>. QED
  BY <1>1 DEF Replays

\* The events that are due while one handler works.
LEMMA OnlyOneDue ==
  ASSUME Inv, OneActive, NEW h \in Handlers, Handle(h)
  PROVE  \A g \in Handlers \ {h} : \A p : ~Due(g, p) /\ ~Due(g, p)'
<1>. SUFFICES ASSUME NEW g \in Handlers, g # h, NEW p
              PROVE  ~Due(g, p) /\ ~Due(g, p)'
  OBVIOUS
<1>1. pc[g] \notin {"track", "emit"}
  BY OthersIdle DEF Sections
<1>2. pc'[g] = pc[g]
  BY DEF Inv, TypeOK, Handle, SetFail, Lookup, CheckFail, Read, Write, Track, Emit, Goto, Reply
<1>. QED
  BY <1>1, <1>2 DEF Due

\* The handler that writes a row is due to say so, and no other is.
LEMMA WriteReplays ==
  ASSUME Inv, Serial, OneActive, Replays, NEW h \in Handlers, Write(h)
  PROVE  Replays'
<1>. DEFINE p == req[h].pid
<1>. SUFFICES ASSUME NEW q \in DOMAIN rows'
              PROVE  \/ \E g \in Handlers : Due(g, q)' /\ outcome'[g] = rows'[q].status
                     \/ (\A g \in Handlers : ~Due(g, q)') /\ LastSays(q)'
  BY DEF Replays
<1>1. \A g \in Handlers \ {h} : \A r : ~Due(g, r) /\ ~Due(g, r)'
  BY OnlyOneDue DEF Handle
<1>2. /\ pc[h] = "write" /\ pc'[h] \in {"track", "emit"}
      /\ req' = req /\ audit' = audit
  BY DEF Write, Goto, Inv, TypeOK
<1>3. ~(req[h].op # "webhook" /\ outcome'[h] = "failed")
  BY DEF Write, Announce, Inv, TypeOK, Positions
<1>4. Due(h, p)' /\ \A r : r # p => ~Due(h, r)'
  BY <1>2, <1>3 DEF Due, Forced, Event
<1>5. CASE q = p
  <2>1. outcome'[h] = rows'[p].status
    BY <1>5, WriteOfRow
  <2>. QED
    BY <1>4, <1>5, <2>1
<1>6. CASE q # p
  <2>1. q \in DOMAIN rows /\ rows'[q].status = rows[q].status
    BY <1>6, WriteOfRow
  <2>2. \A g \in Handlers : ~Due(g, q)
    BY <1>1, <1>2 DEF Due
  <2>3. LastSays(q)
    BY <2>1, <2>2 DEF Replays
  <2>4. LastSays(q)'
    BY <1>2, <2>1, <2>3 DEF LastSays, Says, Forced
  <2>. QED
    BY <1>1, <1>4, <1>6, <2>4
<1>. QED
  BY <1>5, <1>6

\* The event of a handler says what the row says; an event of a forced failure
\* leaves the last word to an earlier one.
LEMMA EmitReplays ==
  ASSUME Inv, OneActive, Replays, NEW h \in Handlers, Emit(h)
  PROVE  Replays'
<1>0. PICK n : n = Len(audit) + 1
  OBVIOUS
<1>1. \A g \in Handlers \ {h} : \A r : ~Due(g, r) /\ ~Due(g, r)'
  BY OnlyOneDue DEF Handle
<1>2. /\ pc[h] = "emit" /\ pc'[h] = "done" /\ req[h] \in Workload
      /\ req[h].op # "status" /\ outcome[h] \in Statuses
      /\ UNCHANGED <<rows, req, outcome>>
  BY DEF Emit, Reply, Goto, Inv, TypeOK, Positions
<1>3. Event(h) \in Events
  BY <1>2, EventShape
<1>4. /\ DOMAIN audit' = DOMAIN audit \cup {n}
      /\ n \notin DOMAIN audit /\ \A i \in DOMAIN audit : i <= n
      /\ \A i \in DOMAIN audit : audit'[i] = audit[i]
      /\ audit'[n] = Event(h) /\ n \in Nat
  <2>1. audit \in Seq(Events) /\ audit' = Append(audit, Event(h))
    BY DEF Emit, Inv, TypeOK
  <2>2. n \in Nat /\ \A i \in DOMAIN audit : i <= n
    BY <1>0, <2>1
  <2>. QED
    BY <1>0, <1>3, <2>1, <2>2, AppendKeeps
<1>5. Event(h).pid = req[h].pid /\ Event(h).status = outcome[h]
  BY DEF Event
<1>6. \A g \in Handlers : \A r : ~Due(g, r)'
  BY <1>1, <1>2 DEF Due
<1>7. ASSUME NEW q \in DOMAIN rows PROVE LastSays(q)'
  <2>1. \A i \in DOMAIN audit : Says(i, q)' <=> Says(i, q)
    BY <1>4 DEF Says, Forced
  <2>2. Says(n, q)' <=> req[h].pid = q /\ ~Forced(Event(h))
    BY <1>4, <1>5 DEF Says, Forced
  <2>3. Says(n, q)' <=> Due(h, q)
    BY <1>2, <2>2 DEF Due
  <2>4. CASE Due(h, q)
    <3>1. outcome[h] = rows[q].status
      BY <1>1, <2>4 DEF Replays
    <3>2. audit'[n].status = rows'[q].status
      BY <1>2, <1>4, <1>5, <3>1
    <3>3. \A j \in DOMAIN audit' : j <= n
      BY <1>4
    <3>. QED
      BY <1>4, <2>3, <2>4, <3>2, <3>3 DEF LastSays
  <2>5. CASE ~Due(h, q)
    <3>1. LastSays(q)
      BY <1>1, <2>5 DEF Replays
    <3>2. PICK i \in DOMAIN audit :
             /\ Says(i, q) /\ audit[i].status = rows[q].status
             /\ \A j \in DOMAIN audit : Says(j, q) => j <= i
      BY <3>1 DEF LastSays
    <3>3. /\ i \in DOMAIN audit' /\ Says(i, q)' /\ audit'[i].status = rows'[q].status
          /\ \A j \in DOMAIN audit' : Says(j, q)' => j <= i
      BY <1>2, <1>4, <2>1, <2>3, <2>5, <3>2
    <3>. QED
      BY <3>3 DEF LastSays
  <2>. QED
    BY <2>4, <2>5
<1>. QED
  BY <1>2, <1>6, <1>7 DEF Replays

LEMMA ReplaysStep ==
  ASSUME Inv, Serial, OneActive, Replays, [Next]_vars
  PROVE  Replays'
<1>. USE DEF Inv, TypeOK
<1>1. CASE \E h \in Handlers, r \in Workload : Receive(h, r)
  <2>1. PICK h \in Handlers, r \in Workload : Receive(h, r)
    BY <1>1
  <2>2. FirstSection(r) \notin {"track", "emit"}
    BY FirstSectionShape, RequestShape
  <2>3. pc[h] = "idle" /\ pc'[h] = FirstSection(r)
    BY <2>1 DEF Receive, Goto
  <2>4. \A g \in Handlers \ {h} : pc'[g] = pc[g] /\ req'[g] = req[g] /\ outcome'[g] = outcome[g]
    BY <2>1 DEF Receive, Goto, Announce
  <2>5. \A g \in Handlers : \A p : (Due(g, p)' <=> Due(g, p)) /\ (Due(g, p) => outcome'[g] = outcome[g])
    BY <2>2, <2>3, <2>4 DEF Due, Forced, Event
  <2>. QED
    BY <2>1, <2>5, ReplaysStand DEF Receive
<1>2. CASE \E h \in Handlers : Write(h)
  BY <1>2, WriteReplays
<1>3. CASE \E h \in Handlers : Emit(h)
  BY <1>3, EmitReplays
<1>4. CASE \E h \in Handlers : Handle(h) /\ ~Write(h) /\ ~Emit(h)
  <2>1. PICK h \in Handlers : Handle(h) /\ ~Write(h) /\ ~Emit(h)
    BY <1>4
  <2>2. \A g \in Handlers \ {h} : pc'[g] = pc[g] /\ outcome'[g] = outcome[g]
    BY <2>1 DEF Handle, SetFail, Lookup, CheckFail, Read, Track, Goto, Reply, Announce
  <2>3. req' = req /\ rows' = rows /\ audit' = audit
    BY <2>1 DEF Handle, SetFail, Lookup, CheckFail, Read, Track
  <2>4. \A p : (Due(h, p)' <=> Due(h, p)) /\ (Due(h, p) => outcome'[h] = outcome[h])
    <3>1. CASE Track(h)
      BY <3>1 DEF Track, Goto, Due, Forced, Event
    <3>2. CASE CheckFail(h)
      BY <3>2 DEF CheckFail, Goto, Announce, Due, Forced, Event, Positions
    <3>3. CASE SetFail(h) \/ Lookup(h) \/ Read(h)
      BY <3>3 DEF SetFail, Lookup, Read, Goto, Reply, Due
    <3>. QED
      BY <2>1, <3>1, <3>2, <3>3 DEF Handle
  <2>5. \A g \in Handlers : \A p : (Due(g, p)' <=> Due(g, p)) /\ (Due(g, p) => outcome'[g] = outcome[g])
    BY <2>2, <2>3, <2>4 DEF Due, Forced, Event
  <2>. QED
    BY <2>3, <2>5, ReplaysStand
<1>5. CASE \E h \in Handlers : AnswerAtOnce(h)
  <2>1. PICK h \in Handlers : AnswerAtOnce(h)
    BY <1>5
  <2>2. \A g \in Handlers : \A p : (Due(g, p)' <=> Due(g, p)) /\ (Due(g, p) => outcome'[g] = outcome[g])
    BY <2>1 DEF AnswerAtOnce, RejectMalformed, Acknowledge, Reply, Goto, Due, Forced, Event
  <2>. QED
    BY <2>1, <2>2, ReplaysStand DEF AnswerAtOnce, RejectMalformed, Acknowledge
<1>6. CASE Crash
  <2>1. MaxCrashes # 0
    BY <1>6, ServiceAssumption DEF Crash
  <2>2. rows' = <<>>
    BY <1>6, <2>1 DEF Crash, Serial
  <2>3. DOMAIN rows' = {}
    BY <2>2
  <2>. QED
    BY <2>3 DEF Replays
<1>7. CASE UNCHANGED vars
  <2>1. \A g \in Handlers : \A p : (Due(g, p)' <=> Due(g, p)) /\ (Due(g, p) => outcome'[g] = outcome[g])
    BY <1>7 DEF vars, Due, Forced, Event
  <2>. QED
    BY <1>7, <2>1, ReplaysStand DEF vars
<1>. QED
  BY <1>1, <1>2, <1>3, <1>4, <1>5, <1>6, <1>7 DEF Next, Handle
LEMMA SerialStep == Serial /\ SerialInv /\ [Next]_vars => SerialInv'
  BY NextInv, OneActiveStep, DecidedStep, ReplaysStep DEF SerialInv

LEMMA SerialInit == Init => SerialInv
<1>. SUFFICES ASSUME Init PROVE SerialInv
  OBVIOUS
<1>1. Active = {} /\ DOMAIN rows = {}
  BY DEF Init, Active, Sections
<1>2. OneActive
  BY <1>1, FS_EmptySet DEF OneActive
<1>. QED
  BY <1>1, <1>2, InitInv DEF Init, SerialInv, Decided, Replays

LEMMA SerialInvariance == ASSUME Serial PROVE Spec => []SerialInv
<1>1. SerialInv /\ [Next]_vars => SerialInv'
  BY SerialStep
<1>. QED
  BY <1>1, SerialInit, PTL DEF Spec

\* Whoever replays the log of requests that were served one at a time arrives at
\* the rows, for any number of requests, payments and restarts (of memory).
THEOREM LogReplays == ASSUME Serial PROVE Spec => []LogReplaysToState
<1>1. SerialInv => LogReplaysToState
  <2>. SUFFICES ASSUME SerialInv, Active = {}, NEW p \in DOMAIN rows
                PROVE  LET writes == {i \in DOMAIN audit : audit[i].pid = p /\ ~Forced(audit[i])}
                       IN  writes # {} /\ audit[Max(writes)].status = rows[p].status
    BY DEF LogReplaysToState
  <2>. DEFINE writes == {i \in DOMAIN audit : audit[i].pid = p /\ ~Forced(audit[i])}
  <2>1. \A h \in Handlers : ~Due(h, p)
    BY DEF Active, Sections, Due
  <2>2. LastSays(p)
    BY <2>1 DEF SerialInv, Replays
  <2>3. PICK i \in writes : audit[i].status = rows[p].status /\ \A j \in writes : j <= i
    BY <2>2 DEF LastSays, Says
  <2>4. writes \subseteq Nat
    BY DEF SerialInv, Inv, TypeOK
  <2>5. Max(writes) = i
    <3>1. \A k \in writes : (\A j \in writes : k >= j) => k = i
      BY <2>3, <2>4
    <3>2. \A j \in writes : i >= j
      BY <2>3, <2>4
    <3>. HIDE DEF writes
    <3>. QED
      BY <2>3, <3>1, <3>2 DEF Max
  <2>. QED
    BY <2>3, <2>5
<1>. QED
  BY <1>1, SerialInvariance, PTL

-----------------------------------------------------------------------------
(* The service implements the ledger                                         *)

\* What the ledger sees as the status of a payment.
StatusOf(p) == IF Known(p) THEN rows[p].status ELSE "none"

\* Only a capture or refund at the tracker is owed.
LEMMA NothingOwed ==
  ASSUME \A h \in Handlers : pc[h] # "track"
  PROVE  Owed = 0
  BY DEF Owed, Untracked

LEMMA OneOwed ==
  ASSUME NEW h \in Handlers, pc[h] = "track", \A g \in Handlers \ {h} : pc[g] # "track"
  PROVE  Owed = Effect(h)
<1>1. Untracked = {h}
  BY DEF Untracked
<1>2. (CHOOSE g \in Untracked : TRUE) = h
  BY <1>1
<1>. QED
  BY <1>1, <1>2 DEF Owed

\* A write is an authorization, a capture, a refund or a notification of the
\* ledger, or it names no payment.
LEMMA WriteOfLedger ==
  ASSUME SerialInv, Serial, NEW h \in Handlers, Write(h)
  PROVE  [Ledger!Next]_<<[p \in Payments |-> StatusOf(p)], total + Owed>>
<1>. DEFINE status == [p \in Payments |-> StatusOf(p)]
            r == req[h]
<1>1. /\ pc[h] = "write" /\ r \in Workload /\ total' = total /\ req' = req /\ total \in Int
      /\ r.op \in {"authorize", "capture", "refund", "webhook"}
      /\ r.op # "authorize" => outcome[h] \in Statuses /\ outcome'[h] = outcome[h]
      /\ r.op = "authorize" => outcome'[h] = "authorized"
      /\ pc'[h] = IF r.op \in {"capture", "refund"} THEN "track" ELSE "emit"
  BY DEF SerialInv, Inv, TypeOK, Positions, Write, Goto, Announce
<1>2. r.pid \in Payments /\ (r.op \in {"capture", "refund"} => r.amount \in Amounts /\ r.amount \in Int)
  BY <1>1, RequestShape, ServiceAssumption
<1>3. \A g \in Handlers \ {h} : pc[g] # "track" /\ pc'[g] = pc[g]
  BY OthersIdle DEF SerialInv, Inv, TypeOK, Handle, Write, Goto, Sections
<1>4. Owed = 0
  BY <1>1, <1>3, NothingOwed
<1>5. /\ r.op \in {"capture", "refund"} => Owed' = Effect(h)
      /\ r.op \notin {"capture", "refund"} => Owed' = 0
  <2>1. Effect(h)' = Effect(h)
    BY <1>1 DEF Effect
  <2>2. CASE r.op \in {"capture", "refund"}
    <3>1. Untracked' = {h}
      BY <1>1, <1>3, <2>2 DEF Untracked
    <3>2. (CHOOSE g \in Untracked' : TRUE) = h
      BY <3>1
    <3>. QED
      BY <2>1, <2>2, <3>1, <3>2 DEF Owed
  <2>3. CASE r.op \notin {"capture", "refund"}
    <3>1. Untracked' = {}
      BY <1>1, <1>3, <2>3 DEF Untracked
    <3>. QED
      BY <2>3, <3>1 DEF Owed
  <2>. QED
    BY <2>2, <2>3
<1>6. /\ r.op = "authorize" \/ Known(r.pid) => status' = [status EXCEPT ![r.pid] = outcome'[h]]
      /\ ~(r.op = "authorize" \/ Known(r.pid)) => status' = status
  <2>1. /\ DOMAIN rows \subseteq DOMAIN rows' /\ DOMAIN rows' \subseteq DOMAIN rows \cup {r.pid}
        /\ \A q \in DOMAIN rows' \ {r.pid} : rows'[q].status = rows[q].status
        /\ r.pid \in DOMAIN rows' => rows'[r.pid].status = outcome'[h]
        /\ r.op # "authorize" => DOMAIN rows' = DOMAIN rows
        /\ r.op = "authorize" => r.pid \in DOMAIN rows'
    BY WriteOfRow DEF SerialInv
  <2>. QED
    BY <1>2, <2>1 DEF StatusOf, Known
<1>7. CASE r.op = "authorize"
  BY <1>1, <1>2, <1>4, <1>5, <1>6, <1>7
     DEF Ledger!Next, Ledger!Authorize, Ledger!Move, StatusOf
<1>8. CASE r.op = "capture"
  <2>1. Known(r.pid) /\ status[r.pid] = "authorized" /\ outcome[h] = "captured"
    BY <1>1, <1>2, <1>8 DEF SerialInv, Decided, MayCapture, StatusOf
  <2>2. status' = [status EXCEPT ![r.pid] = "captured"]
    BY <1>1, <1>6, <1>8, <2>1
  <2>3. (total + Owed)' = (total + Owed) + r.amount
    BY <1>1, <1>2, <1>4, <1>5, <1>8 DEF Effect
  <2>. QED
    BY <1>2, <1>8, <2>1, <2>2, <2>3 DEF Ledger!Next, Ledger!Capture, Ledger!Move, StatusOf
<1>9. CASE r.op = "refund"
  <2>1. Known(r.pid) /\ status[r.pid] \in {"captured", "settled"} /\ outcome[h] = "refunded"
    BY <1>1, <1>2, <1>9 DEF SerialInv, Decided, MayRefund, StatusOf
  <2>2. status' = [status EXCEPT ![r.pid] = "refunded"]
    BY <1>1, <1>6, <1>9, <2>1
  <2>3. (total + Owed)' = (total + Owed) - r.amount
    BY <1>1, <1>2, <1>4, <1>5, <1>9 DEF Effect
  <2>. QED
    BY <1>2, <1>9, <2>1, <2>2, <2>3 DEF Ledger!Next, Ledger!Refund, Ledger!Move, StatusOf
<1>10. CASE r.op = "webhook" /\ Known(r.pid)
  <2>1. status[r.pid] # "none"
    BY <1>2, <1>10 DEF SerialInv, Inv, TypeOK, Known, StatusOf, Statuses
  <2>. QED
    BY <1>1, <1>2, <1>4, <1>5, <1>6, <1>10, <2>1
       DEF Ledger!Next, Ledger!Notify, Ledger!Move, StatusOf
<1>11. CASE r.op = "webhook" /\ ~Known(r.pid)
  BY <1>1, <1>4, <1>5, <1>6, <1>11
<1>. QED
  BY <1>1, <1>7, <1>8, <1>9, <1>10, <1>11

\* A request that is answered at once touches neither rows nor tracker, and no
\* handler that works.
LEMMA AtOnceIsSilent ==
  ASSUME Inv, NEW h \in Handlers, AnswerAtOnce(h)
  PROVE  /\ rows' = rows /\ total' = total
         /\ \A g \in Handlers : pc'[g] = "track" <=> pc[g] = "track"
         /\ \A g \in Handlers : pc[g] = "track" => req'[g] = req[g]
  BY DEF Inv, TypeOK, AnswerAtOnce, RejectMalformed, Acknowledge, Reply, Goto

\* Everything else is silence to the ledger.
LEMMA SilentToLedger ==
  ASSUME SerialInv, Serial, MaxCrashes = 0, [Next]_vars, ~\E h \in Handlers : Write(h)
  PROVE  UNCHANGED <<[p \in Payments |-> StatusOf(p)], total + Owed>>
<1>. USE DEF SerialInv, Inv, TypeOK
<1>0. ~Crash
  BY ServiceAssumption DEF Crash
<1>1. rows' = rows
  BY <1>0, AtOnceIsSilent DEF Next, vars, Receive, Handle, SetFail, Lookup, CheckFail,
                              Read, Track, Emit
<1>2. (\A p \in Payments : StatusOf(p)' = StatusOf(p))
  BY <1>1 DEF StatusOf, Known
<1>3. CASE \E h \in Handlers : Track(h)
  <2>1. PICK h \in Handlers : Track(h)
    BY <1>3
  <2>2. \A g \in Handlers \ {h} : pc[g] # "track" /\ pc'[g] = pc[g]
    BY <2>1, OthersIdle DEF Handle, Track, Goto, Sections
  <2>3. Owed = Effect(h)
    BY <2>1, <2>2, OneOwed DEF Track
  <2>4. Untracked' = {}
    BY <2>1, <2>2 DEF Track, Goto, Untracked
  <2>5. Owed' = 0
    BY <2>4 DEF Owed
  <2>6. Effect(h) \in Int
    <3>1. req[h] \in Workload /\ req[h].op \in {"capture", "refund"}
      BY <2>1 DEF Track, Positions
    <3>2. req[h].amount \in Int
      BY <3>1, RequestShape, ServiceAssumption
    <3>. QED
      BY <3>2 DEF Effect
  <2>7. total' + Owed' = total + Owed
    BY <2>1, <2>3, <2>5, <2>6 DEF Track
  <2>. QED
    BY <1>2, <2>7
<1>4. CASE ~\E h \in Handlers : Track(h)
  <2>1. \A h \in Handlers : (pc'[h] = "track" <=> pc[h] = "track") /\ (pc[h] = "track" => req'[h] = req[h])
    <3>1. \A h \in Handlers, r \in Workload : Receive(h, r) =>
             FirstSection(r) # "track"
      BY FirstSectionShape, RequestShape
    <3>2. CASE \E h \in Handlers, r \in Workload : Receive(h, r)
      <4>1. PICK h \in Handlers, r \in Workload : Receive(h, r)
        BY <3>2
      <4>2. pc[h] = "idle" /\ pc'[h] # "track"
        BY <3>1, <4>1 DEF Receive, Goto
      <4>. QED
        BY <4>1, <4>2 DEF Receive, Goto
    <3>3. CASE \E h \in Handlers : AnswerAtOnce(h)
      <4>1. PICK h \in Handlers : AnswerAtOnce(h)
        BY <3>3
      <4>. QED
        BY <4>1, AtOnceIsSilent
    <3>4. CASE \E h \in Handlers : Handle(h)
      BY <1>4, <3>4 DEF Handle, SetFail, Lookup, CheckFail, Read, Emit, Goto, Reply
    <3>5. CASE UNCHANGED vars
      BY <3>5 DEF vars
    <3>. QED
      BY <1>0, <3>2, <3>3, <3>4, <3>5 DEF Next
  <2>2. total' = total
    BY <1>0, <1>4, AtOnceIsSilent DEF Next, vars, Receive, Handle, SetFail, Lookup,
                                      CheckFail, Read, Emit
  <2>3. Untracked' = Untracked /\ \A h \in Untracked : Effect(h)' = Effect(h)
    BY <2>1 DEF Untracked, Effect
  <2>4. Owed' = Owed
    <3>1. CASE Untracked = {}
      BY <2>3, <3>1 DEF Owed
    <3>2. CASE Untracked # {}
      <4>1. PICK h \in Untracked : h = (CHOOSE g \in Untracked : TRUE)
        BY <3>2
      <4>2. Owed = Effect(h)
        BY <3>2, <4>1 DEF Owed
      <4>3. Effect(CHOOSE g \in Untracked : TRUE)' = Effect(h)'
        BY <2>3, <4>1 DEF Effect
      <4>. QED
        BY <2>3, <3>2, <4>1, <4>2, <4>3 DEF Owed
    <3>. QED
      BY <3>1, <3>2
  <2>. QED
    BY <1>2, <2>2, <2>4
<1>. QED
  BY <1>3, <1>4

\* Requests served one at a time keep what the ledger promises: every step is one
\* of the ledger's or none of its business.
THEOREM ServiceIsLedger == ASSUME Serial, MaxCrashes = 0 PROVE Spec => KeepsLedger
<1>. DEFINE status == [p \in Payments |-> StatusOf(p)]
<1>1. Init => Ledger!Init
  BY NothingOwed DEF Init, Ledger!Init, Known
<1>2. SerialInv /\ [Next]_vars => [Ledger!Next]_<<status, total + Owed>>
  BY WriteOfLedger, SilentToLedger
<1>3. SerialInv /\ [Next]_vars
         => [Ledger!Next]_<<[p \in Payments |-> IF Known(p) THEN rows[p].status ELSE "none"],
                            total + Owed>>
  BY <1>2 DEF StatusOf
<1>. QED
  BY <1>1, <1>3, SerialInvariance, PTL DEF Spec, KeepsLedger, Ledger!Spec

=============================================================================
