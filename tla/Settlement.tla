----------------------------- MODULE Settlement -----------------------------
(***************************************************************************)
(* Settlement passes (internal/settlement/matcher.go) and UPI disputes     *)
(* (Connector.Chargeback of internal/upi) on either store.  A pass matches *)
(* the entries of one file, one after another, against the rail_requests   *)
(* rows; a file may be delivered again, and passes and disputes run        *)
(* concurrently.  One step is one call of the store, the rail or the audit *)
(* log, each of which is atomic: a lock in memory, a transaction or a      *)
(* single statement in PostgreSQL.                                         *)
(***************************************************************************)
EXTENDS SettlementFiles, FiniteSets, FiniteSetsExt

\* Whatever a row may say.
Statuses == {"pending", "authorized", "captured", "settled", "refunded", "failed",
             "chargeback"}

\* What it says when it is new or authorized once more.
FirstStatuses == {"pending", "authorized", "failed"}

Writers == {"service", "pass", "dispute"}

CONSTANTS
    Passes,         \* runs of MatchEntries
    Disputes,       \* disputes of UPI payments
    Payments,
    PaymentOf,      \* the payment of each dispute
    Files,          \* what the rails deliver
    ServiceStatuses,\* bound: the statuses the rest of the service writes
    MaxCrashes,     \* bound: restarts of the process
    MaxDbErrors     \* bound: failing statements and transactions

ASSUME SettlementAssumption ==
    /\ PaymentOf \in [Disputes -> Payments]
    /\ Passes \cap Disputes = {}
    /\ MaxCrashes \in Nat
    /\ MaxDbErrors \in Nat
    /\ ServiceStatuses \subseteq Statuses
    /\ \A f \in Files : Accepts(f) =>
          Entries(f) \in Seq([pid : Payments, amount : Int])

VARIABLES
    store,          \* "memory" or "postgres", chosen at start-up
    rows,           \* rail_requests: payment -> status
    writer,         \* who wrote a payment's status last (history variable)
    settles,        \* rail_settlements: [pid, amount], in order of insertion
    chargebacks,    \* rail_chargebacks: payments, in order of insertion
    log,            \* the audit events of each pass and dispute, in order
    pc,             \* the next call of each pass and dispute
    input,          \* the entries of a pass
    todo,           \* those it has not finished
    crashes, dbErrors

vars == <<store, rows, writer, settles, chargebacks, log, pc, input, todo,
          crashes, dbErrors>>

tables == <<rows, writer, settles, chargebacks>>

Known(p) == p \in DOMAIN rows
Booked(p) == \E i \in DOMAIN settles : settles[i].pid = p
Charged(p) == \E i \in DOMAIN chargebacks : chargebacks[i] = p

PassSteps == {"get", "break", "add", "emit"}
DisputeSteps == {"lookup", "call", "record", "mark", "save", "tell", "savefailed"}
Ended == {"done", "failed", "rejected", "dead", "silenced"}

\* Every file whose entries are all well-formed is read into entries.
EntrySet == UNION {ToSet(Entries(f)) : f \in {g \in Files : Accepts(g)}}

\* What a pass reports.
Results == [type : {"completed", "break"}, entry : EntrySet]

TypeOK ==
    /\ store \in {"memory", "postgres"}
    /\ DOMAIN rows \subseteq Payments
    /\ rows \in [DOMAIN rows -> Statuses]
    /\ writer \in [Payments -> Writers]
    /\ settles \in Seq(EntrySet)
    /\ chargebacks \in Seq(Payments)
    /\ log \in [Passes \cup Disputes -> Seq(Results) \cup Seq(Payments)]
    /\ \A x \in Passes : log[x] \in Seq(Results)
    /\ \A d \in Disputes : log[d] \in Seq({PaymentOf[d]})
    /\ pc \in [Passes \cup Disputes -> PassSteps \cup DisputeSteps \cup Ended \cup {"idle"}]
    /\ \A x \in Passes : pc[x] \notin DisputeSteps
    /\ \A d \in Disputes : pc[d] \notin PassSteps
    /\ input \in [Passes -> Seq(EntrySet)]
    /\ todo \in [Passes -> Seq(EntrySet)]
    /\ crashes \in 0 .. MaxCrashes
    /\ dbErrors \in 0 .. MaxDbErrors

Init ==
    /\ store \in {"memory", "postgres"}
    /\ rows = <<>>
    /\ writer = [p \in Payments |-> "service"]
    /\ settles = <<>>
    /\ chargebacks = <<>>
    /\ log = [x \in Passes \cup Disputes |-> <<>>]
    /\ pc = [x \in Passes \cup Disputes |-> "idle"]
    /\ input = [x \in Passes |-> <<>>]
    /\ todo = [x \in Passes |-> <<>>]
    /\ crashes = 0
    /\ dbErrors = 0

-----------------------------------------------------------------------------
(* The store.  Errors of PostgreSQL are swallowed: nothing changes.          *)

Works == UNCHANGED dbErrors
Fails == store = "postgres" /\ dbErrors < MaxDbErrors /\ dbErrors' = dbErrors + 1

WithStatus(p, s) == IF Known(p) THEN [rows EXCEPT ![p] = s] ELSE rows

WithRow(p, s) == [q \in DOMAIN rows \cup {p} |-> IF q = p THEN s ELSE rows[q]]

Sign(p, who) == writer' = [writer EXCEPT ![p] = who]

\* Mutant: the insert and the update are not one transaction.
AddSettleTwoStatements(e) ==
    /\ \/ Works /\ settles' = IF store = "postgres" /\ Booked(e.pid)
                                 THEN settles ELSE Append(settles, e)
       \/ Fails /\ UNCHANGED settles
    /\ rows' = WithStatus(e.pid, "settled") /\ Sign(e.pid, "pass")
    /\ UNCHANGED chargebacks

\* Mutant: PostgreSQL books every entry, as memory does.
AddSettleAlways(e) ==
    /\ \/ /\ Works
          /\ settles' = Append(settles, e)
          /\ rows' = WithStatus(e.pid, "settled") /\ Sign(e.pid, "pass")
       \/ Fails /\ UNCHANGED <<rows, writer, settles>>
    /\ UNCHANGED chargebacks

\* Mutant: memory drops a second entry of a payment as well.
AddSettleOnce(e) ==
    /\ \/ /\ Works
          /\ settles' = IF Booked(e.pid) THEN settles ELSE Append(settles, e)
          /\ rows' = WithStatus(e.pid, "settled") /\ Sign(e.pid, "pass")
       \/ Fails /\ UNCHANGED <<rows, writer, settles>>
    /\ UNCHANGED chargebacks

\* Mutant: a payment that failed or was disputed meanwhile is not settled.
AddSettleCapturedOnly(e) ==
    /\ \/ /\ Works
          /\ IF Known(e.pid) /\ rows[e.pid] \in {"captured", "settled"}
                THEN /\ settles' = IF store = "postgres" /\ Booked(e.pid)
                                      THEN settles ELSE Append(settles, e)
                     /\ rows' = WithStatus(e.pid, "settled") /\ Sign(e.pid, "pass")
                ELSE UNCHANGED <<rows, writer, settles>>
       \/ Fails /\ UNCHANGED <<rows, writer, settles>>
    /\ UNCHANGED chargebacks

\* The matcher names every entry "settle-" and its payment.  PostgreSQL keeps
\* the first entry of a name, memory keeps them all, both mark the row.
AddSettle(e) ==
    /\ \/ /\ Works
          /\ settles' = IF store = "postgres" /\ Booked(e.pid)
                           THEN settles ELSE Append(settles, e)
          /\ rows' = WithStatus(e.pid, "settled") /\ Sign(e.pid, "pass")
       \/ Fails /\ UNCHANGED <<rows, writer, settles>>
    /\ UNCHANGED chargebacks

\* Likewise a chargeback, named "cbk-" and its payment.
AddChargeback(p) ==
    /\ \/ /\ Works
          /\ chargebacks' = IF store = "postgres" /\ Charged(p)
                               THEN chargebacks ELSE Append(chargebacks, p)
          /\ rows' = WithStatus(p, "chargeback") /\ Sign(p, "dispute")
       \/ Fails /\ UNCHANGED <<rows, writer, chargebacks>>
    /\ UNCHANGED settles

SetStatus(p, s, who) ==
    /\ \/ Works /\ rows' = WithStatus(p, s) /\ Sign(p, who)
       \/ Fails /\ UNCHANGED <<rows, writer>>
    /\ UNCHANGED <<settles, chargebacks>>

Upsert(p, s, who) ==
    /\ \/ Works /\ rows' = WithRow(p, s) /\ Sign(p, who)
       \/ Fails /\ UNCHANGED <<rows, writer>>
    /\ UNCHANGED <<settles, chargebacks>>

GetFinds(p) == Works /\ Known(p)
GetMisses(p) == Fails \/ (Works /\ ~Known(p))

Emit(x, event) == log' = [log EXCEPT ![x] = Append(@, event)]

Goto(x, step) == pc' = [pc EXCEPT ![x] = step]

-----------------------------------------------------------------------------
(* A settlement pass *)

Entry(x) == Head(todo[x])

\* A file arrives, again perhaps.  One that does not parse ends the pass.
Ingest(x, f) ==
    /\ pc[x] = "idle"
    /\ IF Accepts(f)
          THEN /\ input' = [input EXCEPT ![x] = Entries(f)]
               /\ todo' = [todo EXCEPT ![x] = Entries(f)]
               /\ Goto(x, IF Entries(f) = <<>> THEN "done" ELSE "get")
          ELSE Goto(x, "rejected") /\ UNCHANGED <<input, todo>>
    /\ UNCHANGED <<store, tables, log, crashes, dbErrors>>

Get(x) ==
    /\ pc[x] = "get"
    /\ \/ GetFinds(Entry(x).pid) /\ Goto(x, "add")
       \/ GetMisses(Entry(x).pid) /\ Goto(x, "break")
    /\ UNCHANGED <<store, tables, log, input, todo, crashes>>

NextEntry(x) ==
    /\ todo' = [todo EXCEPT ![x] = Tail(todo[x])]
    /\ Goto(x, IF Len(todo[x]) = 1 THEN "done" ELSE "get")

\* Mutant: an unmatched entry is skipped in silence.
BreakSilently(x) ==
    /\ pc[x] = "break"
    /\ NextEntry(x)
    /\ UNCHANGED <<store, tables, log, input, crashes, dbErrors>>

Break(x) ==
    /\ pc[x] = "break"
    /\ Emit(x, [type |-> "break", entry |-> Entry(x)])
    /\ NextEntry(x)
    /\ UNCHANGED <<store, tables, input, crashes, dbErrors>>

Add(x) ==
    /\ pc[x] = "add"
    /\ AddSettle(Entry(x))
    /\ Goto(x, "emit")
    /\ UNCHANGED <<store, log, input, todo, crashes>>

\* Whatever the store did, the entry is announced as settled.
Complete(x) ==
    /\ pc[x] = "emit"
    /\ Emit(x, [type |-> "completed", entry |-> Entry(x)])
    /\ NextEntry(x)
    /\ UNCHANGED <<store, tables, input, crashes, dbErrors>>

MatchEntries(x) == Get(x) \/ Break(x) \/ Add(x) \/ Complete(x)

-----------------------------------------------------------------------------
(* A dispute *)

Raise(d) ==
    /\ pc[d] = "idle"
    /\ Goto(d, "lookup")
    /\ UNCHANGED <<store, tables, log, input, todo, crashes, dbErrors>>

Lookup(d) ==
    /\ pc[d] = "lookup"
    /\ \/ GetFinds(PaymentOf[d]) /\ Goto(d, "call")
       \/ GetMisses(PaymentOf[d]) /\ Goto(d, "rejected")
    /\ UNCHANGED <<store, tables, log, input, todo, crashes>>

\* The rail records the dispute, or an error comes back.
RecordDispute(d) ==
    /\ pc[d] = "call"
    /\ Goto(d, "record") \/ Goto(d, "savefailed")
    /\ UNCHANGED <<store, tables, log, input, todo, crashes, dbErrors>>

\* Mutant: an error leaves the payment in no known state.
SaveUnknown(d) ==
    /\ pc[d] = "savefailed"
    /\ Upsert(PaymentOf[d], "unknown", "dispute")
    /\ Goto(d, "failed")
    /\ UNCHANGED <<store, log, input, todo, crashes>>

\* An error marks the payment itself failed.
SaveFailed(d) ==
    /\ pc[d] = "savefailed"
    /\ Upsert(PaymentOf[d], "failed", "dispute")
    /\ Goto(d, "failed")
    /\ UNCHANGED <<store, log, input, todo, crashes>>

\* Mutant: only the status is written.
RecordStatusOnly(d) ==
    /\ pc[d] = "record"
    /\ SetStatus(PaymentOf[d], "chargeback", "dispute")
    /\ Goto(d, "mark")
    /\ UNCHANGED <<store, log, input, todo, crashes>>

Record(d) ==
    /\ pc[d] = "record"
    /\ AddChargeback(PaymentOf[d])
    /\ Goto(d, "mark")
    /\ UNCHANGED <<store, log, input, todo, crashes>>

Mark(d) ==
    /\ pc[d] = "mark"
    /\ SetStatus(PaymentOf[d], "chargeback", "dispute")
    /\ Goto(d, "save")
    /\ UNCHANGED <<store, log, input, todo, crashes>>

Save(d) ==
    /\ pc[d] = "save"
    /\ Upsert(PaymentOf[d], "chargeback", "dispute")
    /\ Goto(d, "tell")
    /\ UNCHANGED <<store, log, input, todo, crashes>>

Tell(d) ==
    /\ pc[d] = "tell"
    /\ Emit(d, PaymentOf[d])
    /\ Goto(d, "done")
    /\ UNCHANGED <<store, tables, input, todo, crashes, dbErrors>>

Chargeback(d) ==
    \/ Lookup(d)
    \/ RecordDispute(d)
    \/ SaveFailed(d)
    \/ Record(d)
    \/ Mark(d)
    \/ Save(d)
    \/ Tell(d)

-----------------------------------------------------------------------------
(* The rest of the service *)

\* The rail service handles a request: an authorization, of a known payment too,
\* writes its row anew; a capture, a refund or a failure writes the status of a row,
\* and a webhook may write any, settled and chargeback included.
Serve(p) ==
    /\ \E s \in ServiceStatuses :
          \/ s \in FirstStatuses /\ Upsert(p, s, "service")
          \/ SetStatus(p, s, "service")
    /\ UNCHANGED <<store, log, pc, input, todo, crashes>>

\* A restart: memory is lost, passes and disputes are gone, those between a
\* record and its event without a word.
Crash ==
    /\ crashes < MaxCrashes
    /\ crashes' = crashes + 1
    /\ \E x \in DOMAIN pc : pc[x] \notin Ended \cup {"idle"}
    /\ pc' = [x \in DOMAIN pc |->
                 IF pc[x] \in {"emit", "mark", "save", "tell"} THEN "silenced"
                 ELSE IF pc[x] \in Ended \cup {"idle"} THEN pc[x] ELSE "dead"]
    /\ IF store = "memory"
          THEN /\ rows' = <<>> /\ settles' = <<>> /\ chargebacks' = <<>>
               /\ writer' = [p \in Payments |-> "service"]
          ELSE UNCHANGED tables
    /\ UNCHANGED <<store, log, input, todo, dbErrors>>

Next ==
    \/ \E x \in Passes :
          \/ \E f \in Files : Ingest(x, f)
          \/ MatchEntries(x)
    \/ \E d \in Disputes : Raise(d) \/ Chargeback(d)
    \/ \E p \in Payments : Serve(p)
    \/ Crash

Spec == Init /\ [][Next]_vars

-----------------------------------------------------------------------------
(* Safety *)

\* What an entry settles of a payment.
Share(p, e) == IF e.pid = p THEN e.amount ELSE 0

SettledAmount(p) == SumFunction([i \in DOMAIN settles |-> Share(p, settles[i])])

\* What a result announces as settled of a payment, and what a pass has announced,
\* the entry included that it has handed to the store.
Told(p, r) == IF r.type = "completed" THEN Share(p, r.entry) ELSE 0

AnnouncedAmount(p, x) ==
    SumFunction([i \in DOMAIN log[x] |-> Told(p, log[x][i])])
        + IF pc[x] = "emit" THEN Share(p, Entry(x)) ELSE 0

Started == {x \in Passes : pc[x] # "idle"}

\* In memory and without a restart, what the store says was settled of a payment
\* is what was announced, whatever is ingested twice or at the same time.
MemoryMatchesLog ==
    store = "memory" /\ crashes = 0 =>
        \A p \in Payments :
            SettledAmount(p) = SumFunction([x \in Started |-> AnnouncedAmount(p, x)])

\* The entries a pass has announced as settled.
Announced(x) ==
    {log[x][i].entry : i \in {j \in DOMAIN log[x] : log[x][j].type = "completed"}}

\* In PostgreSQL a payment is settled by one entry, however often its file is
\* ingested, and each settlement was announced as it is, or will be, or a
\* restart silenced its pass.
SettledOnceAndAnnounced ==
    store = "postgres" =>
        \A i \in DOMAIN settles :
            /\ \A j \in DOMAIN settles : settles[i].pid = settles[j].pid => i = j
            /\ \E x \in Passes :
                  \/ settles[i] \in Announced(x)
                  \/ pc[x] \in {"emit", "silenced"} /\ Entry(x) = settles[i]

Trusted == dbErrors = 0 /\ (store = "postgres" \/ crashes = 0)

\* Downstream hears of no settlement of a payment the store has none of, as
\* long as no statement fails and memory lasts.
CompletedIsBooked ==
    Trusted => \A x \in Passes : \A e \in Announced(x) : Booked(e.pid)

\* A row that a pass wrote last says settled and has its settlement, whatever
\* fails and whatever service and disputes have written before; one that a dispute
\* wrote last says failed, or chargeback and has it, unless a statement failed.
StatusHasRecord ==
    \A p \in DOMAIN rows :
        /\ writer[p] = "pass" => rows[p] = "settled" /\ Booked(p)
        /\ writer[p] = "dispute" =>
              \/ rows[p] = "failed"
              \/ rows[p] = "chargeback" /\ (dbErrors = 0 => Charged(p))

EntriesOf(results) == [i \in DOMAIN results |-> results[i].entry]

\* A pass reports every entry of its file once and in the file's order, settled
\* or broken, also when it is cut short.
ResultsFollowFile ==
    \A x \in Passes :
        input[x] = EntriesOf(log[x]) \o todo[x]

\* A dispute that was answered is in the log and in the store.
AnsweredDisputesAreRecorded ==
    \A d \in Disputes : pc[d] = "done" =>
        /\ Len(log[d]) = 1
        /\ Trusted => Charged(PaymentOf[d])

-----------------------------------------------------------------------------
(* What the documents say and the code does not do *)

\* "Matched entries are recorded as rail_settlements rows": an entry announced
\* as settled is in the table with its amount.
MatchedEntriesAreRecorded ==
    Trusted =>
        \A x \in Passes : Announced(x) \subseteq ToSet(settles)

=============================================================================
