# Formal model of rail-connectors

rail-connectors authorizes, captures and refunds payments over external rails
(cards, ACH, SEPA, PIX, UPI), takes their webhooks, matches their settlement files
and keeps a row per payment. This directory holds TLA+ modules of its stateful
core, TLC configurations that check them on small instances, and TLAPS proofs of
what matters most for every instance. Paths below are relative to `src/internal/`
unless they begin with `cmd/` or `README.md` (the repository's own).

To run: `tlc -config MCMiddleware.cfg MCMiddleware`, likewise for the other
configurations (`PROJECT.json` names the module of each); `tlapm MiddlewareProofs.tla`,
likewise for `RailServiceProofs`, `SerialServiceProofs`, `MigrationsProofs`,
`RailAdapterProofs`, `SettlementProofs`, `SumLemmas` and `NachaFileProofs`.

## 1. The system

| part | code | state | operations | modelled in |
|---|---|---|---|---|
| circuit breaker | `rail/circuit` | state, failure count, opening time, behind one mutex | Allow, RecordSuccess, RecordFailure | `CircuitBreaker` |
| retry loop | `rail/retry` | attempt number | Do: attempt, back off, give up, stop when the context is done | `Middleware` |
| outbound middleware | `middleware` | a breaker per scope | Call: breaker, retry loop, breaker again per attempt | `Middleware`, promise in `OutboundCall` |
| HTTP service | `server` | none of its own | authorize, capture, refund, status, webhook | `RailService` |
| dummy connector | `dummy` | the failure flag | Authorize, Capture, Refund, GetStatus, SetFail | `RailService` |
| stores | `store`, `store/postgres` | `rail_requests`, `rail_settlements`, `rail_chargebacks` | Upsert, Get, SetStatus, AddSettle, AddChargeback | `RailService`, `Settlement` |
| tracker | `settlement/tracker.go` | net total per rail | RecordCapture, RecordRefund (RecordSettle: tests only) | `RailService` |
| audit recorder | `audit` | the event list | Emit | `RailService`, `Settlement` |
| settlement matcher | `settlement/matcher.go` | position in a file | MatchEntries | `Settlement` |
| settlement parsers | `settlement/{nacha,npci,spi,iso20022}` | none | Parse | `SettlementFiles` |
| rail adapters | `card`, `ach`, `sepa`, `pix`, `upi` | none of their own | read row, call rail, write row, emit | `RailAdapter`, UPI disputes in `Settlement` |
| migrations | `store/migrations`, `Open` of `store/postgres` | `schema_migrations`, the schema itself | Up, Down | `Migrations` |
| NACHA encoder | `ach/nacha` | none | Encode, Validate | `NachaFile` |
| HTTP clients | `*/client.go` | none | send, read the answer, classify the error | outcomes and error classes in `RailAdapter` |
| pain.001 builder | `sepa/iso20022` | none | BuildPain001 | not modelled (section 5) |
| registry, metrics, tracing, wiring | `rail`, `metrics`, `otel`, `cmd` | registered connectors, counters | set up at start | only what the others need |

How they interact. `net/http` serves each request on its own goroutine. The server
looks the payment up, then calls the connector, which looks it up again, decides,
writes the row, adds to the tracker and emits an event. Each of these calls takes
its own lock (or is one SQL statement) and no lock spans two of them. The
middleware is a library that wraps a rail call; its breaker is shared by all calls
of a scope, each in its own retry loop. The matcher and the UPI dispute handler
work on the same rows as the service.

What is hard about it, and what must hold:

- *Breaker* (shared by concurrent retry loops): a success or failure is recorded by
  calls that were admitted in an earlier breaker state; the state must stay a
  function of the failures since the last success; `Allow`'s answer is used after its
  lock is released, so a request may go out while the breaker is open, but no retry
  loop may go on sending.
- *Outbound call* (lost answers, retries, cancellation): the caller must not be told
  more than the rail decided, and every call must return.
- *Service* (check-then-act over separately locked parts, restarts, swallowed SQL
  errors): row, total, log and HTTP answer are written at four moments; they must
  agree whenever nobody is between two of them, and the log must account for every
  row.
- *Settlement* (replayed files, partial settlements, transactions that fail): table,
  status and announcements must agree, a replay must not settle twice in
  PostgreSQL, a pass must report each entry once, in the order of the file.
- *Adapters* (a remote call between read and write, answers that are lost): they write
  back what they read before the call; the row, the events and the money on the rail
  must agree, and no repetition may move money twice.
- *Migrations* (statement and record are two steps, several processes migrate at once, a
  rollback may stop half way): what is recorded must have been applied, a start must
  not lose data that another process stored, and every process must come to serve.
- *Bank files* (numbers padded to columns and never cut): what the validator accepts
  must say what was asked for, whatever overflows.

`PROJECT.json` lists each hazard at its line with the properties that would notice.

## 2. Modules

| module | what it is |
|---|---|
| `CircuitBreaker` | the breaker's operations as operators over its variables, and the clock |
| `OutboundCall` | abstract: what a caller of the middleware may rely on |
| `Middleware` | concurrent `Middleware.Call`s on one scope, the rail and its answers; EXTENDS `CircuitBreaker` |
| `MiddlewareProofs` | proofs about `Middleware` |
| `PaymentLedger` | abstract: payment lifecycle and net total, each change in one step |
| `RailService` | handlers, connector, rows, tracker, log, restarts |
| `RailServiceProofs` | proofs about `RailService`, for concurrent requests |
| `SerialServiceProofs` | proofs about `RailService` when requests come one at a time: replay of the log, `PaymentLedger` |
| `SettlementFiles` | what the four parsers accept and yield |
| `Settlement` | matcher passes and UPI disputes on either store; EXTENDS `SettlementFiles` |
| `SettlementProofs` | proofs about `Settlement` |
| `RailOrders` | the external rail the adapters talk to: orders by idempotency key |
| `RailAdapter` | calls of an adapter on one payment, for each of the five rails; EXTENDS `RailOrders` |
| `RailAdapterProofs` | proofs about `RailAdapter` |
| `Migrations` | processes that open the database, and a rollback |
| `MigrationsProofs` | proofs about `Migrations` |
| `NachaFile` | the bank file of the ACH adapter: written, then validated |
| `NachaFileProofs` | proofs about `NachaFile` |
| `SumLemmas` | what sums over finite sets and functions are, for the proofs |
| `MCMiddleware`, `MCRailService`, `MCSettlement`, `MCRailAdapter`, `MCMigrations`, `MCNachaFile` | instances for TLC |

Operators whose comment begins with "Mutant:" are not part of the model. Each is a
plausible bug of the definition that follows it, and the property named with it in
`PROJECT.json` fails when it takes that definition's place.

### Middleware

A call is idle, trying, admitted, waiting for the rail, sleeping or returned. Its steps
follow `Call` and `Do`: the admission check and the start (`Start`), the per-attempt
check (`Admit`) and, the breaker's lock released, the request (`Dispatch`), the four classes of answer with what each records
on the breaker (`AnswerApproved`, `AnswerDeclined`, `AnswerUnavailable`,
`AnswerUnrecognised`), back-off or giving up (`RetryOrGiveUp`), the end of a sleep
(`Wake`), the caller's context (`ContextDone`). One step is one locked section of the
breaker. Two things run outside the code: `RailDecides` - the rail treats a key it has
seen as the same request, and its answer may be lost - and `Tick`, the clock. A scope
has its own breaker and shares nothing with other scopes, so one breaker is enough.
Between `Admit` and `Dispatch` other calls run, and one of them may open the breaker. `late`
is a history variable, which only `OneRequestPerOpening` reads: the calls that have sent
a request since the breaker opened.
The rail's decision is kept per idempotency key, `<payment, attempt>`, which is how
`rail.IdempotencyKey` builds it.

### RailService

`pc[h]` is the next locked section of handler `h`:

    authorize   [setfail] checkfail write emit
    capture     lookup checkfail read write track emit      (refund alike)
    status      read
    webhook     write emit

`lookup` is the server's `Get`, `read` the connector's; what `read` decided is in
`outcome[h]` and is not checked again at `write`, as in the code. A request that is
malformed, unsigned or names an unknown webhook status is answered before anything
is read (`RejectMalformed`); an authorization that names no payment sets the failure flag all
the same. A signed notification without a payment or a status is told "received" and
does nothing (`Acknowledge`). An event and its handler's answer are one step, since
nothing can change the answer after the event. Amounts, payments and the statuses
are data; currencies, timestamps, rail references and messages are left out. `writer`
is a history variable: the handler that wrote each row last. `StateExplained` reads it, to
hold that handler, and no other with the same status, to its event.

`Durable` chooses the store. A PostgreSQL statement may fail (`Fails`): the store drops
the error, a read finds no row, a write changes nothing. A statement that took effect
and whose acknowledgement is lost is the same as one that worked, because the code
ignores the result. `Crash` restarts the process: the tracker and the failure flag are
reset, rows in memory are lost, handlers disappear. A handler that had written its
row and not emitted its event becomes `silenced`. The log stands for an audit sink
outside the process. The shipped `main` configures no sink, in which case service and
connector record in two recorders of their own; the model is of one configured sink.

`MaxInFlight = 1` is a client that waits for each answer. Only then does the service
implement `PaymentLedger`; the refinement mapping counts the amount of a handler
between `write` and `track` (`Owed`) as already in the net total. With any number in
flight, `TrackerMatchesAudit` compares the net total with the signed sum of the log
(`Audited`) and adds the captures and refunds that are tracked and not yet announced (`Counted`).

### Settlement

One step is one call of the store, the rail or the log. The store is chosen in `Init`,
as `DB_URL` does, so one run covers both. A pass holds the entries it has not finished
(`todo`); a dispute is `Connector.Chargeback` of the UPI adapter. Files arrive from
outside (`Ingest`), the same file again possibly. `Serve` is all that the rail service does
to a row: an authorization, replayed ones included, writes it anew, a capture, a refund and
a failure write its status, and a webhook may write any status, settled and chargeback too,
without a record beside it. So a row alone does not say that it was settled; `writer`, a
history variable, tells who wrote it last, and `StatusHasRecord` is of what passes and
disputes write. The log is kept per pass, since no
property compares the order of events of two passes. `SettlementFiles` abstracts a
file to its well-formedness, header and lines, keeps the control of each parser - the
CSV and SPI parsers refuse a whole file for one unreadable amount, the bank-statement
parser reads it as zero and gives the whole amount of an entry to each of its
transactions - and leaves column layout and dates out. `MemoryMatchesLog` adds up what
the passes that have `Started` have announced, the entry included that a pass has handed to
the store and not announced yet (`AnnouncedAmount`).

### RailAdapter

A call is `read` (the row), `call` (the rail), `write` (each statement of the write-back,
then event and answer) or `done`; a call that ends without a trace is forgotten
(`Leave`). Each is a step; the rail is chosen in `Init`, so one run covers the five adapters. Where they differ is in
`Answers` (requests) and `Polled` (status queries): SEPA, PIX and UPI capture by a status query; an
ACH file or a SEPA message that is accepted is announced as done; the card adapter
takes an unknown word for pending. `Writes` keeps the order of the statements and
the row that is written twice. `RailOrders` is the rail: an order per key, answered
as before when the key comes again; `Request` and `Words` say what it accepts and what it
may answer, the words an adapter does not know included. A request that fails before
or after it reached the rail is the same to the adapter (`Fail`): the row says failed and
nothing is announced. A restart needs no action: the calls it kills stop where they
are, rows being durable. Of an error the model keeps what it lets the caller conclude:
`declined` (the codes for funds, fraud, expiry and no detail) or `unclear`
(`INVALID_REQUEST`, `RAIL_UNAVAILABLE`). `MapErr` says which, from whether the client saw the
rail refuse (a 4xx answer) or saw nothing it could use (no connection, a time-out, a 5xx
or an unreadable answer); a refusal's code is mapped to either (`MapCode`), since every
code without a case becomes `DO_NOT_HONOR`. The two unclear codes are not told apart,
because the code does not: which of them a broken connection gives depends on the
words of Go's error text. The rail's answers are assumed to carry a word and a
reference, except that a SEPA answer may name no message: then the adapter's own key, or on a
refund the old reference, is stored (`SepaAnswers`), which is why `ReferenceNamesAnOrder` says
that a reference names an order the rail has received and not that the rail gave it. `Key` is
the caller's idempotency key (`KeyOf`, 0 if it gives none) or else the derived one.
Assumption: no key given for one operation is used for another, which the keys of
`rail.IdempotencyKey` are not. SEPA's words for a message that is accepted for settlement and
not settled (ACSP, ACCD) are captured to the adapter (`SepaStatus`); what `AnnouncementsAreHonest`
says of captured by SEPA is therefore, as by ACH, that the order is on the rail's books.
Amounts are left out, and so are the rows of other payments, with which nothing is shared. `AnnouncementsAreHonest` holds a call
to the order it asked about (`Asked`): the one its own key placed, or, for a poll, the
one its row's reference named.

### Migrations

`pc[p]` is the next statement of a process that opens the database: `ping`, `create`
(`schema_migrations`), then per version `query`, `apply`, `record`, then `serve`. Each is one
exec or query of `Runner.Up`; a migration's file is one exec without arguments, which
PostgreSQL runs as one transaction. A statement may fail (`Breaks`), which ends the start
(`GiveUp`: `main` exits), and a process may be killed before any statement (`Kill`); one
that took effect and was not acknowledged is the statement followed by a kill. The two
SQL migrations are what they make of `schema`: 0001 creates what is missing, 0002 changes
the amount columns of tables that must exist. `data` is whether anything is stored.
`down` is the same for `Runner.Down`, from the last version back; `torn` remembers a
version whose reversal was done and whose record was left.

`Down` has no caller in the repository. Assumption: whoever runs it has stopped the
service and starts it afterwards (`BeginDown`, `Start`). A rollback that overlaps a start
would drop tables under a record; nothing in the code prevents it.

### NachaFile

A file is a sequence of batches of entries, of which amount and routing digits' sum are
kept. `Encode` makes its lines, `Validate` reads them. A line's numbers are a
sequence of digits, each number padded to its width and not cut (`Columns`, which is what
`%010d` does), so one that is too wide shifts what follows it; `Field` reads by
columns, as `Validate` does. Widths and radix are constants: 10 (entry amount), 6, 12 and 10
(controls) and ten in the code, 1, 2, 2, 3 and eight in the run. Text columns, ids, dates and
addenda are left out. The adapter writes files of one batch with one entry
(`ach/adapter.go:250-267`); `Encode` takes any, and so does the model.

What an accepted file says is claimed of files whose total fits its columns (`TotalFits`;
counts, hashes and single amounts may overflow). A total that does not fit shifts the
hash behind it, and the shifted numbers can match what the entries read as: a hundred
entries of 10^10 to routing numbers of digit sum zero are read as 10^9 each, the control total 10^12
as 10^11, and `Validate` is content.

## 3. Runs

| run | instance | shows |
|---|---|---|
| `middleware` | 3 calls that replay one payment, 2 attempts, breaker opens at 2 failures, cool-down 1; 133 000 states | breaker invariants, honest answers, at most the one request of an earlier admission while open, implements `OutboundCall`, every call returns |
| `service` | 4 concurrent requests of any kind on one payment, PostgreSQL, 1 restart, 1 failing statement, symmetric; 333 000 states | total, rows, log and answers stay related under every interleaving; rows outlive the handlers that saw them, acknowledged authorizations are recorded |
| `service_serial` | 4 requests on 2 payments, one at a time, symmetric; 19 000 states | implements `PaymentLedger`; the log replays to the state |
| `settlement` | 2 passes over 4 files, 1 dispute, a service that writes authorized, settled and chargeback at any time, both stores, 1 restart, 1 failing transaction, symmetric; 1 330 000 states | tables, statuses and announcements agree, passes report in order |
| `adapters` | 3 calls, 2 at a time, on one payment, all five rails, second attempts, 1 call with a key, 1 failing statement, symmetric; 4 130 000 states | announcements are true on the rail, money moves once per key, references name orders, a row is one call's answer, captured means taken, declined means not taken |
| `migrations` | 3 processes, 2 kills, 1 failing statement, 2 rollbacks; 64 000 states | recorded means applied, records have no gaps, who serves has its tables, starts lose no data, and in the end every process serves |
| `bank_files` | 5 400 files: up to 2 batches, amounts from below zero to beyond their columns, files of one to three blocks, and files of 63 and 64 records; 16 000 states | an accepted file whose total fits says what was asked for, batch controls add up, a file that fits is accepted, blocks are full |
| `open_lasts` | as `middleware` | **violated**: the breaker need not stay open for its cool-down |
| `retry_key` | as `middleware` | **violated**: a retry after a lost answer can be approved a second time |
| `replays` | 4 requests, an authorization and its capture repeated, 2 at a time | **violated**: two concurrent captures of one authorization both succeed |
| `partial_settlement` | 2 passes, PostgreSQL or memory | **violated**: a second settlement of a payment is announced and not recorded |
| `uncovered_refund` | 3 calls, one at a time | **violated**: a payment whose authorization failed is refunded |

Why the bounds suffice. A breaker that opens at 2 failures has a count strictly between
closed and open; with 3 calls one can be mid-attempt while a second trips the breaker
and a third probes it; 2 attempts give one retry, hence a changed key. In the service a
hazard needs an authorization, a capture, and one or two racing writers: 4 handlers.
Rows of different payments interact only through the tracker and the flag, which one
payment exercises with several captures; the serial run has two. One restart and
one failing statement fall at any point of any handler. In `settlement` two passes can hold
the same entry, a file holds two entries of one payment, and a third actor writes the
same row. In `adapters` a hazard needs an authorization, a call that reads its row
and one that writes the row meanwhile, or the same operation twice: 3 calls. Two give
no key, at the second attempt, so that their authorizations have another key than their
captures and refunds; the third gives a key, the one the others derive for captures
and refunds. In `migrations` two processes race for one version while a
third serves, and a kill, an error and a second rollback can fall between any two
statements of the repair of the first. In `bank_files` amounts, counts and totals overflow
their columns, alone and together, by one digit, which shifts what follows alike in every
radix; a hash of digit sums has columns for a hundred million entries. Blocks are left
short, just filled and just overfilled by files whose numbers fit. The theorems of section 4 cover what the
instance leaves out: other widths and radices, any number of batches and entries, and
routing numbers that are all zeros.

Deadlock is not checked: handlers, calls and passes are finite in number and each is
used once, so every behaviour ends; so does that of a file, and that of the migrations once
every process serves and the bounds are used up.

Symmetry is used over handlers, passes and calls without a key, which are
interchangeable, in `service`, `service_serial`, `settlement` and `adapters`; `middleware` and
`migrations` check liveness.

In `middleware` fairness is `WF` of each call's `Admit`, `Dispatch`, `Wake` and answer.
Goroutines are scheduled, timers fire, and the HTTP clients of the adapters time out
after 30 seconds, so that an attempt is always answered, with an error if need be.
Nothing is assumed of arrivals, clock ticks, cancellation or the rail's verdict.
In `migrations` it is `WF` of each process's steps, restart included, and of the rollback's:
a process of a service is started again by whatever supervises it, and its statements
get an answer or an error. Nothing is assumed of errors, kills and rollbacks, which are
finitely many. Handlers and passes are straight-line code without waits for one
another; that they end says nothing about them, and no liveness is stated there.

### What the violations say

- `open_lasts`: `RecordSuccess` closes the breaker in whatever state it is, so a call
  admitted before the trip that succeeds late ends the open state
  (`rail/circuit/circuit.go:83`; comment at lines 22-23).
- `retry_key`: the key contains the attempt number (README.md:98), so the rail cannot
  recognise a retry, although README.md:95-96 calls retries idempotent by that key.
- `replays`: no request log is consulted, and Capture's check and write are separate
  (`dummy/connector.go:114`; README.md:75-77 promises deduplication).
- `partial_settlement`: every entry of a payment is named `settle-<payment>`
  (`settlement/matcher.go:60`), and PostgreSQL keeps one row per name.
- `uncovered_refund`: Refund asks whether the payment has a row, not what it says
  (`ach/adapter.go:180`, `sepa/adapter.go:173`; `rail/connector.go:15`). The other rails refuse
  such a refund themselves, as far as the adapters can tell.

Divergences met while modelling that need no run, as reading shows them:

- an open circuit is said to return "without invoking the downstream"
  (`middleware/middleware.go:2-4`); a request that was admitted (line 76) before another
  call's failure opened it (line 85) still goes out (line 79): hence `OneRequestPerOpening`
  allows each call one;
- a webhook without a payment or a status is answered "received" and leaves no event
  (`server/server.go:282, 297`): hence `AnswersMatchAudit` is of those that name both;
- a webhook may call a payment settled or charged back of which there is no settlement or
  chargeback (`server/server.go:288`);
- the SEPA Capture is said to confirm "the gateway settlement" (`sepa/adapter.go:132-133`), and takes
  ACSP and ACCD, settlement in process, for captured (line 294); a message of which it has
  announced that may fall through later;
- a SEPA answer without a message id makes the adapter's own key the rail reference
  (`sepa/adapter.go:114-116`), or leaves the row's old one after a refund (lines 194-197);
- the opening counter also counts failures recorded while the breaker is open already
  (`rail/circuit/circuit.go:37-38` against line 100);
- a non-retryable error is not recorded on the breaker (`middleware/middleware.go:66`
  against line 84);
- the amount of a capture is not compared with the authorized one (README.md:57
  against `server/server.go:197`);
- a restart between the row and the event leaves a transition unannounced
  (README.md:232 against `dummy/connector.go:93`): the `silenced` handlers of the model;
- the client is told "authorized" when the insert failed (`dummy/connector.go:69`
  against `store/postgres/postgres.go:62`), hence the `dbErrors = 0` of `AuthorizedIsRecorded`;
- the memory store counts a replayed settlement file twice, PostgreSQL once;
- a rail error on a UPI dispute sets the payment itself to failed (`upi/adapter.go:231`);
- an ACH pre-note that the bank reports as settled makes the row captured before any
  debit (`ach/adapter.go:234`; lines 80-81 call it a zero-amount file), and after an ACH or
  SEPA refund a poll asks about the refund and writes its captured to the row: hence
  `CapturedMeansTaken` is of the other rails;
- a PIX or UPI refund is announced as refunded whatever its answer says
  (`pix/adapter.go:175`, `upi/adapter.go:183`): hence `AnnouncementsAreHonest` leaves it out;
- the PIX Capture is called a no-op that marks an authorized payment captured
  (`pix/adapter.go:124-125`), and polls, stores whatever it gets and stores failed on an error; its
  Authorize is said to treat CONFIRMED as authorized (line 73) and stores captured (line 246);
- the SEPA poll wants an end-to-end id (`sepa/gateway/client.go:102`) and gets a message id;
- every refund of a payment has the key `<payment>:refund:1`, so a second partial refund is
  the first one to the rail; likewise every capture that is a request: the capture of a later
  authorization (card) has the key of the first one's, is answered as that one was, and is announced
  and stored as captured although the later charge was not taken. Hence `AnnouncementsAreHonest`
  says of a card capture that a charge of the payment was taken, not that it is the one the
  row names. An attempt to prove the stronger claim failed here; it takes four calls,
  one more than the run has;
- a replayed authorization takes a captured payment back to authorized, without any
  concurrency (`dummy/connector.go:83`);
- codes that are no verdict are told as a decline: UPI's "ZP", pending (`upi/errors.go:11`), a PIX
  return code "00", success, beside a status other than CONFIRMED (`pix/errors.go:9`, told as
  `INSUFFICIENT_FUNDS`), and by default every unknown code, among them the NOT_FOUND of a poll
  (`pix/spi/client.go:121`). A PIX, UPI or SEPA Capture after an Authorize whose answer was
  lost polls with an empty reference and may be told `DO_NOT_HONOR`, "Generic rail decline"
  (README.md:218), of a payment the rail has made: hence `DeclinedTookNothing` is of requests, and
  of PIX and UPI requests whose answer carries no code;
- a connection that breaks is `INVALID_REQUEST`, "Malformed message to the rail"
  (README.md:221), unless the error's text has one of five words (`card/adapter.go:246-255`;
  the comment at line 228 says network errors are `RAIL_UNAVAILABLE`); Go's
  "Client.Timeout exceeded" is not among them;
- a SEPA refusal's reason is looked for directly inside `Rsn` (`sepa/gateway/client.go:154-164`) and is
  empty when it is in `Rsn/Cd`, where the poll looks for it (line 99); the status in the answer to a
  submission (line 56) is not looked at;
- an ACH status poll refused with a 4xx answer other than 404 writes unknown to the row
  (`ach/bankapi/client.go:107`);
- the file of an ACH refund, a "reversing NACHA entry" (`ach/adapter.go:175`), is built as the
  capture's, a debit (`ach/nacha/encoder.go:92, 109`); the model counts it as the refund it is meant to be;
- the lines of a bank file have not "one 94-character record per line" (`ach/nacha/encoder.go:51-52`);
  its date is year and day (`0602`, line 188, called YYMMDD); Encode checks no width, and nobody but the
  tests calls Validate, so that an amount of eleven digits goes to the bank. Validate,
  said to check that "control totals match" (line 205), accepts files in which amounts
  and a total too wide for their columns are cut alike (`NachaFile` above): another
  attempt at a proof that ended in a counterexample;
- a rollback that is stopped between reverting a version and removing its record is not
  repaired by the next start: reverted 0002 stays recorded and amounts are floating-point
  numbers; reverted 0001 stays recorded and every start fails at 0002, whose tables are gone,
  until the rollback is run again: the `torn` of `Migrations`;
- the control sum of a pain.001 message is the total times 100, in minor units, beside
  amounts in major ones (`sepa/iso20022/builder.go:156`);
- the first back-off is not capped, should the base be
  longer than the cap (`rail/retry/retry.go:118-126`; the comment at line 117 caps every one);
- README.md:190 has one row per outbound call; there is one per payment, and each
  operation overwrites the last;
- the middleware is not wired into any adapter (README.md:90).

## 4. Proofs

All theorems use `Spec` without its fairness and hold for every value of the constants that
satisfies the named assumption of the module (`BreakerAssumption`, `CallAssumption`,
`ServiceAssumption`, `MigrationsAssumption`, `AdapterAssumption`, `SettlementAssumption`,
`NachaAssumption`): no set of calls, handlers, payments, passes, files or
processes is assumed finite, and the
bounds are any natural numbers. Those assumptions say only that the constants have
their types and that the counts the code forces to be positive are. Where a sum or a
cardinality needs a finite set, that only finitely many calls, handlers or passes have begun
is part of the invariant and proved. The only further hypothesis is `Serial`, below.

**Middleware.** The inductive invariant `IInv` joins the types with, for the breaker, that
its state matches the failure count and that a half-open breaker has sat out its
cool-down, and, for each call, what its position says about
its attempt and about the rail's decision on its key. The latter is what makes the
answers honest: a waiting call's key has been sent, and decisions never change. Each
action has a lemma or step of its own. Proved from it: `TypeCorrect`, `BreakerThreshold`,
`HalfOpenIsCooled`, `HonestAnswers`, `OneLateRequest` (by `LateIInv`: a call
that has sent a request since the breaker opened does not stand admitted while it stays
open, since `Admit` asks the breaker again), and `Refinement`: the refinement mapping
takes the calls' positions to the abstract ones, and each step to a step of
`OutboundCall` or a stutter.

**RailService.** `Inv` is `TypeOK` with `Positions`: which operations can stand at a section
and what `outcome` can be there. Five properties are then proved by invariants of
their own on top:

- `TypeCorrect`: `TypeOK`.
- `ConnectorHasRow`: `ConnectorMeetsARow`, by `RowsStay`: only a restart of a memory store
  removes rows, and it removes the handlers too.
- `AuthorizationsAreRecorded`: `AuthorizedIsRecorded`, strengthened to handlers that have
  written and not yet announced (`WrittenIsRecorded`).
- `LogExplainsState`: `StateExplained`, by `WritersExplain`. The last writer of a row goes on
  explaining it (`ExplanationStays`: its explanation moves into the log when it emits, or stays
  with the silenced), and a row that changes has a new writer, which explains it (`WriterExplains`).
- `AnswersAgreeWithLog`: `AnswersMatchAudit`, strengthened to "exactly one event once
  announced and none before" (`OneEvent`).
- `TotalIsAudited`: `TrackerMatchesAudit`, with `Decisions`: a capture that is tracked was
  decided captured (a refund refunded), and only finitely many requests are in flight.
  Every step changes both sides alike: tracking moves an amount into `Counted`, the event
  moves it from there into the log, a webhook's event counts for nothing.

**RailService, one request at a time** (`SerialServiceProofs`). `Serial` says that the client waits
(`MaxInFlight = 1`), that no statement fails and that a PostgreSQL-backed process is not
restarted; each is needed: two concurrent captures are two
ledger steps from one authorization, a lost statement is announced nevertheless, and a
restart between row and event silences the event. A memory store may restart. On top of `Inv`:
at most one handler is at work (`OneActive`); so what it decided on is still so when
it writes (`Decided`), which no concurrent handler could rely on; and each row is what the
handler due to announce it decided or, if none is, what the last event about its
payment says (`Replays`). Proved: `LogReplays`, and `ServiceIsLedger`: the write of the row is the
step of `PaymentLedger`, all others stutter, `track` because `Owed` has counted its amount already. The
ledger has no restarts, hence `MaxCrashes = 0` there.

**RailAdapter.** One inductive invariant serves all five rails and all properties; most of it
says what a call in each position may rely on although the row and the orders may have changed
since it read them:

- *the rail's books only grow* (`Evolve`): orders stay, refused ones stay refused, money
  taken stays taken (ACH may return it). Every step of the rail evolves the books; so what was
  true when a call was answered (`Truthful`) is true when it announces (`HonestCalls`),
  however late. This is the reason the write-back of an old answer is harmless to
  `AnnouncementsAreHonest` and `CapturedMeansTaken`;
- *orders are accounted for* (`Books`, `DeclinedOrders`): each has the key of a call that may have
  reached the rail. Charges are therefore no more than the keys that callers give and the
  attempts of those that give none (`MoneyMovesOnce`, `OnePerKey`, `OnePerAttempt`: a key is a
  function of what the caller gives, and finitely many have begun), and a declined request without a namesake has no order;
- *writes are planned* (`Plans`, `RowOfCalls`): what is left of a call's write-back says
  what the call answered and, for a request, ends with the whole row. The row is thus
  one call's, with a status from it or a status query, except while a
  call is between two of its writes;
- `References`: what a row or a call holds as a reference names an order.

Proved: `TypeCorrect`, `HonestAnnouncements`, `ReferencesAreKnown`, `CapturedWasTaken`, `DeclinedIsFree`,
`RowIsAnswered`, `ChargedOnce`: every property of the run.

**Settlement.** `IInv` joins the types, four of the properties and what they need of passes and
disputes in between: an entry about to be announced as settled has been booked (`AboutToAnnounce`), and a
dispute beyond its chargeback has it in the table (`Recorded`); those two are false after a
failed statement or a restart of memory, which the antecedents `Trusted` and `dbErrors = 0` say.
`writer` says whether the service, a pass or a dispute wrote a
row's status last, and
`StatusIsRecorded` is proved of the rows the passes and disputes wrote, the service's writes being
their own. That a result moves from the rest of a file to the end of the
report (`ReportHead`) is what keeps `ResultsFollowFile`. `MemoryInv` is separate: the amounts the store holds of a
payment are the sum over passes of what they announced, `SumChanges` of `SumLemmas` at each step.
Proved: every property of the run (`TypeCorrect`, `SettledOnce`, `AnnouncedIsBooked`,
`StatusIsRecorded`, `NoEntrySkipped`, `DisputesAreRecorded`, `MemoryIsAnnounced`).

**Migrations.** `IInv` joins the types and the three safety invariants with
`Progress` (a process beyond the first version has seen it recorded, one about to record a
version has applied it), `RollbackIsAlone` (nobody starts during a rollback, which goes
down in order) and `DroppedStaysDropped`: after a rollback that dropped the tables and left
the record, every start skips the first version and fails at the second, so nobody comes
to record or serve. Without the last, a start in that state could record 0002 over no
tables. Proved: `TypeCorrect`, `RecordedApplied`, `NoGaps`, `ServersHaveSchema`, and
`StartsKeep` for the action property. The two versions are those of the repository, not a
parameter.

**NachaFile.** The state space is small (write, then validate); what is hard is what the
operators compute, for any radix, widths and files:

- a number padded to its columns and read back from them is itself if it fits and
  less if it does not (`ColumnsValue`, `FieldBound`, `FieldExact`, from the value of digits read one after
  the other, `ValueStep`); a field behind numbers that fit is found where it was put
  (`ControlFields`);
- so the sum of the amounts read is at most the sum asked for, and less if one
  overflowed (`SumOrder`): if the total fits, equal totals leave no entry that overflowed;
- the lines of a file by kind, through the nesting of batches and entries
  (`BatchShape`, `BodyShape`, `FileShape`, `FileFound`).

`IInv` says that the lines are those of the file and that the verdict is `Validate`'s. Proved: `TypeCorrect`,
`BlocksAreWhole`, `FittingFilesPass`, `AcceptedSaysAsked`, `BatchesBalance`. `TotalFits` is part of
the last two properties, not of the proof: without it they are false (section 2), which the
instance of the run is too small to show.

**Sums and induction.** Totals are folds over sets, and the library's facts about them, like its
induction theorems, have an operator as a parameter, which the provers cannot instantiate.
`SumLemmas` and the first parts of `NachaFileProofs` replace each induction by a smallest
counterexample: of the subsets of a finite set, the numbers or the sequences that refute a claim there is a
minimal one (`MinimalSubset`, `LeastNumber`, `ShortestSequence`), and it is refuted by one step. From this
follow that a sum does not depend on the order of its fold (`FoldUnique`, `TotalSumsUp`), and
what adding, removing or changing an element does to it (`SumGrows`, `SumRemove`, `SumChanges`,
`SumOfAppend`, `SumOfConcat`).

Only model-checked: the liveness properties `EveryCallReturns` and `StartsSucceed`, which are out of the
prover's reach, and the five violations. Every invariant, the refinements and
the action properties of the passing runs are theorems.

## 5. Not modelled

HTTP, JSON, XML and CSV encoding and the rails' wire formats, apart from the numbers of a
bank file; the pain.001 builder, one XML document from the arguments of one call, which
nothing in the repository reads back; HMAC verification beyond its verdict; latency histograms, logging and
tracing; the length of a back-off and its jitter; environment parsing; currencies and decimal arithmetic (amounts are
integers); connection pools and SQL isolation (each transaction is atomic, its two
statements conflict only on rows that both touch in the same order).

## 6. Plan

1. Done: outbound middleware with its breaker and promise; rail service with ledger;
   settlement and disputes; adapters with their error classes; migrations; bank files;
   proofs of every safety property and refinement the runs check.
2. The hazards of `PROJECT.json` that no property covers yet, by extending a property whose
   run already has the behaviour: the status poll that writes an older answer over a newer one
   (`card/adapter.go:219`; `RowIsOneAnswer` says only that the row is one answer), and late webhooks
   (`server/server.go:288`). Each extension goes with its proof.
3. If there is room in an existing run: the length of a back-off against its documented cap.
