----------------------------- MODULE RailService -----------------------------
(***************************************************************************)
(* The HTTP service with the rail connector it runs (internal/server and   *)
(* internal/dummy), the rail_requests rows (internal/store), the running   *)
(* total (internal/settlement/tracker.go) and the audit log.  net/http     *)
(* serves each request on its own goroutine; the store, the tracker, the   *)
(* failure flag and the log each have their own lock and nothing holds two *)
(* of them, so one step of a handler is one locked section and the steps   *)
(* of concurrent handlers interleave freely.                               *)
(*                                                                         *)
(* The rows live in memory or in PostgreSQL.  With PostgreSQL they survive *)
(* a restart, and a statement may fail: the store swallows the error, so a *)
(* read finds no row and a write changes nothing.                          *)
(***************************************************************************)
EXTENDS Integers, FiniteSets, Sequences, FiniteSetsExt

CONSTANTS
    Handlers,       \* HTTP requests, each served once
    Payments,
    Amounts,        \* amounts a body may carry; an empty body means 0
    Workload,       \* the requests clients send, a subset of Requests
    MaxInFlight,    \* bound: requests served at the same time
    Durable,        \* TRUE: rows in PostgreSQL, FALSE: in memory
    MaxCrashes,     \* bound: restarts of the process
    MaxDbErrors     \* bound: failing statements

Statuses == {"pending", "authorized", "captured", "settled", "refunded",
             "failed", "chargeback"}

Requests ==
    [op : {"authorize"}, pid : Payments, amount : Amounts, fail : BOOLEAN]
        \cup [op : {"capture", "refund"}, pid : Payments, amount : Amounts]
        \cup [op : {"status"}, pid : Payments]
        \cup [op : {"webhook"}, pid : Payments, status : Statuses]

ASSUME ServiceAssumption ==
    /\ Amounts \subseteq Int
    /\ Workload \subseteq Requests
    /\ MaxInFlight \in Nat \ {0}
    /\ Durable \in BOOLEAN
    /\ MaxCrashes \in Nat
    /\ MaxDbErrors \in Nat
    /\ MaxDbErrors > 0 => Durable

VARIABLES
    rows,       \* rail_requests: payment -> [status, amount]
    total,      \* the tracker's net total of the rail
    failFlag,   \* the connector forces every operation to fail
    audit,      \* the events emitted, in order
    pc,         \* the next locked section of each handler
    req,        \* the request a handler serves
    outcome,    \* the status the handler announces
    answer,     \* the HTTP answer, by class
    crashes, dbErrors,
    writer      \* history: the handler whose statement wrote each row last;
                \* nothing reads it but the properties

vars == <<rows, total, failFlag, audit, pc, req, outcome, answer, crashes, dbErrors,
          writer>>

Known(p) == p \in DOMAIN rows

NoRequest == [op |-> "none"]

\* A signed notification that lacks the payment or the status.
Notice == [op |-> "notice"]

Sections == {"setfail", "checkfail", "lookup", "read", "write", "track", "emit"}
Active == {h \in Handlers : pc[h] \in Sections}

Event(h) ==
    [op |-> req[h].op, pid |-> req[h].pid, status |-> outcome[h], by |-> h,
     amount |-> IF req[h].op = "webhook" THEN 0 ELSE req[h].amount]

Events ==
    [op : {"authorize", "capture", "refund", "webhook"}, pid : Payments,
     status : Statuses, by : Handlers, amount : Amounts \cup {0}]

\* Answers: "ok" is 200, "failed" the 422 of a forced RAIL_UNAVAILABLE,
\* "rejected" the 422 of a wrong status and the 400 of an unknown status query,
\* "notfound" 404, "malformed" a 400, 401 or 404 before anything is read and the
\* 422 of an authorization that names no payment.
TypeOK ==
    /\ DOMAIN rows \subseteq Payments
    /\ \A p \in DOMAIN rows : rows[p] \in [status : Statuses, amount : Amounts]
    /\ total \in Int
    /\ failFlag \in BOOLEAN
    /\ audit \in Seq(Events)
    /\ pc \in [Handlers -> Sections \cup {"idle", "done", "dead", "silenced"}]
    /\ req \in [Handlers -> Workload \cup {NoRequest, Notice}]
    /\ outcome \in [Handlers -> Statuses \cup {"none"}]
    /\ answer \in [Handlers ->
          {"none", "ok", "failed", "rejected", "notfound", "malformed"}]
    /\ crashes \in 0 .. MaxCrashes
    /\ dbErrors \in 0 .. MaxDbErrors
    /\ writer \in [DOMAIN rows -> Handlers]

Init ==
    /\ rows = <<>>
    /\ total = 0
    /\ failFlag = FALSE
    /\ audit = <<>>
    /\ pc = [h \in Handlers |-> "idle"]
    /\ req = [h \in Handlers |-> NoRequest]
    /\ outcome = [h \in Handlers |-> "none"]
    /\ answer = [h \in Handlers |-> "none"]
    /\ crashes = 0
    /\ dbErrors = 0
    /\ writer = <<>>

-----------------------------------------------------------------------------
(* The store *)

\* A statement runs, or fails and changes nothing.
Works == UNCHANGED dbErrors
Fails == Durable /\ dbErrors < MaxDbErrors /\ dbErrors' = dbErrors + 1

\* Mutant: only an existing row is updated.
UpsertUpdatesOnly(p, s, a) ==
    \/ /\ Works
       /\ rows' = IF Known(p) THEN [rows EXCEPT ![p] = [status |-> s, amount |-> a]]
                             ELSE rows
    \/ Fails /\ UNCHANGED rows

\* Upsert replaces the whole row, whatever its status was.
Upsert(p, s, a) ==
    \/ /\ Works
       /\ rows' = [q \in DOMAIN rows \cup {p} |->
                      IF q = p THEN [status |-> s, amount |-> a] ELSE rows[q]]
    \/ Fails /\ UNCHANGED rows

\* Mutant: an unknown payment gets a row with nothing but a status.
SetStatusInserts(p, s) ==
    \/ /\ Works
       /\ rows' = [q \in DOMAIN rows \cup {p} |->
                      IF ~Known(q) THEN [status |-> s]
                      ELSE IF q = p THEN [rows[q] EXCEPT !.status = s] ELSE rows[q]]
    \/ Fails /\ UNCHANGED rows

\* Mutant: a refunded payment keeps its status.
SetStatusKeepsRefunded(p, s) ==
    \/ /\ Works
       /\ rows' = IF Known(p) /\ rows[p].status # "refunded"
                     THEN [rows EXCEPT ![p].status = s] ELSE rows
    \/ Fails /\ UNCHANGED rows

\* SetStatus of an unknown payment reports false, which every caller ignores.
SetStatus(p, s) ==
    \/ /\ Works
       /\ rows' = IF Known(p) THEN [rows EXCEPT ![p].status = s] ELSE rows
    \/ Fails /\ UNCHANGED rows

\* The history of a statement of h that ran.
Sign(h) ==
    writer' = [p \in DOMAIN rows' |->
                  IF p = req[h].pid /\ Works THEN h ELSE writer[p]]

GetFinds(p) == Works /\ Known(p)
GetMisses(p) == Fails \/ (Works /\ ~Known(p))

-----------------------------------------------------------------------------
(* The handlers *)

Goto(h, section) == pc' = [pc EXCEPT ![h] = section]

Reply(h, class) ==
    /\ Goto(h, "done")
    /\ answer' = [answer EXCEPT ![h] = class]

Announce(h, s) == outcome' = [outcome EXCEPT ![h] = s]

FirstSection(r) ==
    CASE r.op = "authorize" /\ r.fail  -> "setfail"
      [] r.op = "authorize" /\ ~r.fail -> "checkfail"
      [] r.op \in {"capture", "refund"} -> "lookup"
      [] r.op = "status" -> "read"
      [] r.op = "webhook" -> "write"

Receive(h, r) ==
    /\ pc[h] = "idle"
    /\ Cardinality(Active) < MaxInFlight
    /\ req' = [req EXCEPT ![h] = r]
    /\ Goto(h, FirstSection(r))
    /\ IF r.op = "webhook" THEN Announce(h, r.status) ELSE UNCHANGED outcome
    /\ UNCHANGED <<rows, total, failFlag, audit, answer, crashes, dbErrors, writer>>

\* No payment id, a body that does not parse, a bad signature or an unknown
\* webhook status: refused before a row is read.  An authorization that names no
\* payment has set the debug flag by then.
RejectMalformed(h) ==
    /\ pc[h] = "idle"
    /\ Reply(h, "malformed")
    /\ failFlag' \in {failFlag, TRUE}
    /\ UNCHANGED <<rows, total, audit, req, outcome, crashes, dbErrors, writer>>

\* A signed notification without a payment or a status is received and ignored.
Acknowledge(h) ==
    /\ pc[h] = "idle"
    /\ req' = [req EXCEPT ![h] = Notice]
    /\ Reply(h, "ok")
    /\ UNCHANGED <<rows, total, failFlag, audit, outcome, crashes, dbErrors, writer>>

AnswerAtOnce(h) == RejectMalformed(h) \/ Acknowledge(h)

\* The debug flag of an authorize request sticks: nothing clears it.
SetFail(h) ==
    /\ pc[h] = "setfail"
    /\ failFlag' = TRUE
    /\ Goto(h, "checkfail")
    /\ UNCHANGED <<rows, total, audit, req, outcome, answer, crashes, dbErrors, writer>>

\* Mutant: the server goes on without a row.
LookupIgnoresMiss(h) ==
    /\ pc[h] = "lookup"
    /\ GetFinds(req[h].pid) \/ GetMisses(req[h].pid)
    /\ Goto(h, "checkfail")
    /\ UNCHANGED <<rows, total, failFlag, audit, req, outcome, answer, crashes, writer>>

\* The server's own Get before it calls the connector.
Lookup(h) ==
    /\ pc[h] = "lookup"
    /\ \/ GetFinds(req[h].pid) /\ Goto(h, "checkfail") /\ UNCHANGED answer
       \/ GetMisses(req[h].pid) /\ Reply(h, "notfound")
    /\ UNCHANGED <<rows, total, failFlag, audit, req, outcome, crashes, writer>>

\* Mutant: a forced failure is answered but not announced.
CheckFailUnaudited(h) ==
    /\ pc[h] = "checkfail"
    /\ IF failFlag
          THEN Reply(h, "failed")
          ELSE /\ Goto(h, IF req[h].op = "authorize" THEN "write" ELSE "read")
               /\ UNCHANGED answer
    /\ UNCHANGED <<rows, total, failFlag, audit, req, outcome, crashes, dbErrors, writer>>

CheckFail(h) ==
    /\ pc[h] = "checkfail"
    /\ IF failFlag
          THEN Goto(h, "emit") /\ Announce(h, "failed")
          ELSE /\ Goto(h, IF req[h].op = "authorize" THEN "write" ELSE "read")
               /\ UNCHANGED outcome
    /\ UNCHANGED <<rows, total, failFlag, audit, req, answer, crashes, dbErrors, writer>>

\* Mutant: a refund needs no capture.
MayRefundAuthorized(p) == rows[p].status \in {"authorized", "captured", "settled"}

\* The status a row must have to be captured or refunded.
MayCapture(p) == rows[p].status = "authorized"
MayRefund(p) == rows[p].status \in {"captured", "settled"}

\* The connector's Get: for capture and refund it also decides on the status it
\* saw, and nothing it read is looked at again.
Read(h) ==
    LET p == req[h].pid IN
    /\ pc[h] = "read"
    /\ \/ /\ GetFinds(p)
          /\ \/ req[h].op = "status" /\ Reply(h, "ok") /\ UNCHANGED outcome
             \/ /\ req[h].op = "capture" /\ MayCapture(p)
                /\ Goto(h, "write") /\ Announce(h, "captured") /\ UNCHANGED answer
             \/ /\ req[h].op = "refund" /\ MayRefund(p)
                /\ Goto(h, "write") /\ Announce(h, "refunded") /\ UNCHANGED answer
             \/ /\ \/ req[h].op = "capture" /\ ~MayCapture(p)
                   \/ req[h].op = "refund" /\ ~MayRefund(p)
                /\ Reply(h, "rejected") /\ UNCHANGED outcome
       \/ GetMisses(p) /\ Reply(h, "rejected") /\ UNCHANGED outcome
    /\ UNCHANGED <<rows, total, failFlag, audit, req, crashes, writer>>

Write(h) ==
    LET r == req[h] IN
    /\ pc[h] = "write"
    /\ \/ /\ r.op = "authorize"
          /\ Upsert(r.pid, "authorized", r.amount)
          /\ Announce(h, "authorized")
          /\ Goto(h, "emit")
       \/ /\ r.op \in {"capture", "refund"}
          /\ SetStatus(r.pid, outcome[h])
          /\ Goto(h, "track")
          /\ UNCHANGED outcome
       \/ /\ r.op = "webhook"
          /\ SetStatus(r.pid, outcome[h])
          /\ Goto(h, "emit")
          /\ UNCHANGED outcome
    /\ Sign(h)
    /\ UNCHANGED <<total, failFlag, audit, req, answer, crashes>>

\* Mutant: a refund is added like a capture.
EffectUnsigned(h) == req[h].amount

Effect(h) == IF req[h].op = "capture" THEN req[h].amount ELSE -req[h].amount

Track(h) ==
    /\ pc[h] = "track"
    /\ total' = total + Effect(h)
    /\ Goto(h, "emit")
    /\ UNCHANGED <<rows, failFlag, audit, req, outcome, answer, crashes, dbErrors, writer>>

\* Mutant: a webhook changes the row and says nothing.
EmitConnectorOnly(h) ==
    /\ pc[h] = "emit"
    /\ audit' = IF req[h].op = "webhook" THEN audit ELSE Append(audit, Event(h))
    /\ Reply(h, IF req[h].op # "webhook" /\ outcome[h] = "failed"
                   THEN "failed" ELSE "ok")
    /\ UNCHANGED <<rows, total, failFlag, req, outcome, crashes, dbErrors, writer>>

\* The event, and the answer, which nothing can change any more.  A webhook is
\* announced and answered 200 whether or not it named a known payment, and
\* whatever status it carries.
Emit(h) ==
    /\ pc[h] = "emit"
    /\ audit' = Append(audit, Event(h))
    /\ Reply(h, IF req[h].op # "webhook" /\ outcome[h] = "failed"
                   THEN "failed" ELSE "ok")
    /\ UNCHANGED <<rows, total, failFlag, req, outcome, crashes, dbErrors, writer>>

Handle(h) ==
    \/ SetFail(h)
    \/ Lookup(h)
    \/ CheckFail(h)
    \/ Read(h)
    \/ Write(h)
    \/ Track(h)
    \/ Emit(h)

\* The process stops and starts again: handlers are gone, some silenced between
\* their write and their event; the tracker and the flag start anew, memory rows
\* are lost.  The audit log is another service's.
Crash ==
    /\ crashes < MaxCrashes
    /\ Active # {}
    /\ crashes' = crashes + 1
    /\ pc' = [h \in Handlers |->
                 IF pc[h] \in {"track", "emit"} THEN "silenced"
                 ELSE IF pc[h] \in Sections THEN "dead" ELSE pc[h]]
    /\ total' = 0
    /\ failFlag' = FALSE
    /\ rows' = IF Durable THEN rows ELSE <<>>
    /\ writer' = IF Durable THEN writer ELSE <<>>
    /\ UNCHANGED <<audit, req, outcome, answer, dbErrors>>

Next ==
    \/ \E h \in Handlers :
          \/ \E r \in Workload : Receive(h, r)
          \/ AnswerAtOnce(h)
          \/ Handle(h)
    \/ Crash

Spec == Init /\ [][Next]_vars

-----------------------------------------------------------------------------
(* Safety *)

\* A connector that is forced to fail announces "failed" and writes nothing.
Forced(e) == e.op # "webhook" /\ e.status = "failed"

SignedAmount(e) ==
    CASE e.status = "captured" /\ e.op = "capture" -> e.amount
      [] e.status = "refunded" /\ e.op = "refund" -> -e.amount
      [] OTHER -> 0

Audited == SumFunction([i \in DOMAIN audit |-> SignedAmount(audit[i])])

\* Captures and refunds the tracker counts and the log does not show yet.
Counted == {h \in Handlers : pc[h] = "emit" /\ outcome[h] \in {"captured", "refunded"}
                               /\ req[h].op \in {"capture", "refund"}}

\* While the process has not restarted, the tracker's net total is what the
\* audit log adds up to, but for captures and refunds between the two.
TrackerMatchesAudit ==
    crashes = 0 => total = Audited + SumFunction([h \in Counted |-> Effect(h)])

EventsBy(h) == {i \in DOMAIN audit : audit[i].by = h}

\* The log explains the state: the status of every row is the one its last
\* writer announced in an event of its own, or will announce, or did not because
\* a restart killed it between its write and its event; whichever handlers
\* overwrote each other, and whichever statements failed.
StateExplained ==
    \A p \in DOMAIN rows :
        LET h == writer[p] IN
        /\ req[h].pid = p
        /\ outcome[h] = rows[p].status
        /\ ~Forced(Event(h))
        /\ \/ pc[h] \in {"track", "emit", "silenced"}
           \/ \E i \in EventsBy(h) : audit[i] = Event(h)

\* A client that was told "ok" or "failed" by authorize, capture, refund or a
\* webhook that named a payment and a status has exactly one event in the log,
\* with what it was told; one that was refused, asked for a status or sent a
\* notification of nothing has none.
AnswersMatchAudit ==
    \A h \in Handlers : pc[h] = "done" =>
        IF answer[h] \in {"ok", "failed"} /\ req[h].op \notin {"status", "notice"}
           THEN /\ Cardinality(EventsBy(h)) = 1
                /\ \A i \in EventsBy(h) : Forced(audit[i]) <=> answer[h] = "failed"
           ELSE EventsBy(h) = {}

\* The connector is asked to capture or refund only payments the store holds,
\* and they stay until it writes, restarts or not.  So the connector's own
\* "unknown payment_id" answers a failing statement only, and the result of
\* SetStatus, which it ignores, could report nothing else.
ConnectorMeetsARow ==
    \A h \in Handlers :
        /\ pc[h] \in {"checkfail", "read", "write", "track"}
        /\ req[h].op \in {"capture", "refund"}
        => Known(req[h].pid)

\* An authorization the client was told of is recorded, also after a restart
\* when rows are durable, as long as no statement failed.
AuthorizedIsRecorded ==
    \A h \in Handlers :
        /\ answer[h] = "ok"
        /\ req[h].op = "authorize"
        /\ dbErrors = 0
        /\ Durable \/ crashes = 0
        => Known(req[h].pid)

\* When nothing is in flight, the last event that wrote a payment says what its
\* row says: a reader who replays the log arrives at the state.
LogReplaysToState ==
    Active = {} =>
        \A p \in DOMAIN rows :
            LET writes == {i \in DOMAIN audit : audit[i].pid = p /\ ~Forced(audit[i])} IN
            writes # {} /\ audit[Max(writes)].status = rows[p].status

(* Refinement *)

\* A capture or refund between its row and the tracker: of requests served one at
\* a time there is at most one.
Untracked == {h \in Handlers : pc[h] = "track"}
Owed == IF Untracked = {} THEN 0 ELSE Effect(CHOOSE h \in Untracked : TRUE)

Ledger == INSTANCE PaymentLedger WITH
    status <- [p \in Payments |-> IF Known(p) THEN rows[p].status ELSE "none"],
    net <- total + Owed

\* Served one at a time, the requests keep what the ledger promises.
KeepsLedger == Ledger!Spec

-----------------------------------------------------------------------------
(* What the documents say and the code does not do *)

EventsOf(p, op, s) ==
    {i \in DOMAIN audit : audit[i].pid = p /\ audit[i].op = op /\ audit[i].status = s}

\* "replays are deduped at the rail or at this service's request log": however
\* often one authorization and its capture are sent, the payment is captured once.
ReplaysAreDeduped ==
    \A p \in Payments : Cardinality(EventsOf(p, "capture", "captured")) <= 1

=============================================================================
