------------------------- MODULE RailAdapterProofs -------------------------
(***************************************************************************)
(* Proofs about RailAdapter for any set of calls, any attempt numbers and  *)
(* any number of failing statements, on each of the five rails.            *)
(***************************************************************************)
EXTENDS RailAdapter, FiniteSetTheorems, SequenceTheorems, TLAPS

\* What a position says of a call: the requests it may have made and what it
\* still has to do.
Positions ==
    \A c \in Calls :
        /\ pc[c] = "idle" => op[c] = "none"
        /\ pc[c] \in {"read", "call", "write"} => op[c] \in Ops
        /\ pc[c] \in {"idle", "read", "call"} => answer[c] = NoAnswer
        /\ pc[c] # "write" => todo[c] = <<>> /\ ~told[c]
        /\ pc[c] = "write" /\ todo[c] = <<>> => told[c]
        /\ told[c] \/ c \in log => op[c] \in Ops \ {"status"}
        /\ c \in log => pc[c] = "done"

\* The writes of a call all say what the call answers, and those of a request end
\* with one of the whole row.
PlannedFor(c, status, r) ==
    {SetStatus(c, status, r)} \cup (IF op[c] = "status" THEN {} ELSE {Upsert(c, status, r)})

Planned(c) == PlannedFor(c, answer[c].status, answer[c].ref)

EndsInUpsert(c, writes) ==
    writes # <<>> /\ op[c] # "status" => writes[Len(writes)].how = "Upsert"

Plans ==
    \A c \in Calls :
        /\ todo[c] \in Seq(Planned(c))
        /\ EndsInUpsert(c, todo[c])

\* A call that may have reached the rail.
Asks(c) == pc[c] \in {"write", "done"} /\ op[c] \in Ops /\ ~Polls(c)

\* An order has the key of a call that asked for it.  A bank or a gateway refuses no
\* order after it has accepted it; a card is captured by taking a charge.
Books ==
    \A k \in DOMAIN orders :
        /\ \E c \in Calls : Asks(c) /\ Key(c) = k
        /\ family \in {"ach", "sepa"} => orders[k] # "refused"
        /\ family = "card" /\ k[1] = "capture" =>
              orders[k] \in {"taken", "repaid"} /\ MoneyTaken

\* References are orders; the card adapter only keeps those of authorizations.
Named(r) == r # NoRef => r \in DOMAIN orders /\ (family = "card" => r[1] = "authorize")

References ==
    /\ Named(row.ref)
    /\ \A c \in Calls : Named(ref[c]) /\ Named(answer[c].ref)

\* What the rail had said when a call took its answer stays true.
Truthful(what, status, k) ==
    /\ status = "authorized" => OnBooks(k)
    /\ status = "captured" =>
          /\ OnBooks(k)
          /\ family \in {"card", "pix", "upi"} =>
                orders[k] \in {"taken", "repaid"} /\ MoneyTaken
    /\ status = "refunded" /\ what = "refund" /\ family \notin {"pix", "upi"} => OnBooks(k)

Honest(c) == Truthful(op[c], answer[c].status, Asked(c))

HonestCalls == \A c \in Calls : told[c] \/ c \in log => Honest(c)

\* Whoever has captured as an answer has it because the money was taken.
CapturedAnswers ==
    family \in {"card", "pix", "upi"} =>
        /\ row.status = "captured" => MoneyTaken
        /\ \A c \in Calls : answer[c].status = "captured" => MoneyTaken

\* A declined request that has an order nevertheless shares its key.
DeclinedOrders ==
    \A c \in Calls :
        /\ Asks(c) /\ answer[c].error = "declined" /\ ~CodeInAnswer(c)
        /\ OnBooks(Key(c)) /\ orders[Key(c)] # "returned"
        => \E d \in Calls \ {c} : Asks(d) /\ Key(d) = Key(c)

\* The row's operation, key and reference are a call's; so is its status, or a
\* status query's, unless a request has set the status and is about to write the row.
Answered(c) == pc[c] \in {"write", "done"} /\ op[c] \in Ops

RowOfCalls ==
    Known /\ dbErrors = 0 =>
        \E c \in Calls :
            /\ Answered(c) /\ op[c] # "status"
            /\ row.op = op[c] /\ row.key = Key(c) /\ row.ref = answer[c].ref
            /\ \/ \E d \in Calls :
                     Answered(d) /\ (d = c \/ op[d] = "status") /\ row.status = answer[d].status
               \/ \E e \in Calls : op[e] # "status" /\ todo[e] # <<>>

\* Only finitely many calls have begun.
Begun == {c \in Calls : pc[c] # "idle"}

IInv ==
    /\ TypeOK
    /\ Positions
    /\ Plans
    /\ Books
    /\ References
    /\ HonestCalls
    /\ CapturedAnswers
    /\ DeclinedOrders
    /\ RowOfCalls
    /\ IsFiniteSet(Begun)

-----------------------------------------------------------------------------
(* Keys and orders                                                           *)

LEMMA Bounds == MaxInFlight \in Nat /\ MaxDbErrors \in Nat
  BY AdapterAssumption

\* A request's key is one, and names its operation.
LEMMA KeyOfRequest ==
  ASSUME NEW c \in Calls, op[c] \in Ops \ {"status"}
  PROVE  /\ Key(c) \in Keys
         /\ Key(c)[1] = op[c]
         /\ Key(c) = <<op[c], IF KeyOf[c] # 0 THEN KeyOf[c]
                              ELSE IF op[c] = "authorize" THEN AttemptOf[c] ELSE 1>>
<1>1. AttemptOf[c] \in Nat \ {0} /\ KeyOf[c] \in Nat
  BY AdapterAssumption
<1>. QED
  BY <1>1 DEF Key, Keys, Ops

LEMMA NoRefIsNoKey == NoRef \notin Keys
  BY DEF NoRef, Keys

\* What changes on the rail's books: orders stay, refused ones stay refused and no
\* other becomes so, and money that was taken stays so, except from a bank account.
Evolve ==
    /\ UNCHANGED family
    /\ DOMAIN orders \subseteq DOMAIN orders'
    /\ \A k \in DOMAIN orders :
          /\ orders'[k] \in OrderStates
          /\ orders[k] = "refused" <=> orders'[k] = "refused"
          /\ orders[k] = "returned" => orders'[k] = "returned"
          /\ family # "ach" /\ orders[k] \in {"taken", "repaid"} =>
                orders'[k] \in {"taken", "repaid"}

LEMMA UnchangedEvolves ==
  ASSUME TypeOK, UNCHANGED rail
  PROVE  Evolve
  BY DEF TypeOK, rail, Evolve

LEMMA ProgressEvolves ==
  ASSUME TypeOK, Progress, UNCHANGED family
  PROVE  Evolve /\ DOMAIN orders' = DOMAIN orders
  BY DEF TypeOK, Progress, Evolve, OrderStates

\* A request adds its order, if it is new, in one of the states it can have.
LEMMA RequestEvolves ==
  ASSUME TypeOK, NEW key \in Keys, NEW r, orders' \in Request(key, r), UNCHANGED family
  PROVE  /\ Evolve
         /\ DOMAIN orders' = DOMAIN orders \cup {key}
         /\ orders'[key] \in OrderStates
         /\ key \notin DOMAIN orders => orders'[key] \in FreshStates(key[1])
<1>1. CASE key \in DOMAIN orders
  BY <1>1 DEF Request, TypeOK, Evolve
<1>2. CASE key \notin DOMAIN orders
  <2>1. PICK s \in FreshStates(key[1]) : orders' = Placed(key, r, s)
    BY <1>2 DEF Request
  <2>2. s \in OrderStates
    BY <2>1 DEF FreshStates, OrderStates
  <2>. QED
    BY <1>2, <2>1, <2>2 DEF Placed, TypeOK, Evolve, OrderStates
<1>. QED
  BY <1>1, <1>2

\* What stays true of the books.
LEMMA OnBooksStays ==
  ASSUME Evolve, NEW k
  PROVE  /\ OnBooks(k) => OnBooks(k)'
         /\ k \in DOMAIN orders /\ OnBooks(k)' => OnBooks(k)
  BY DEF Evolve, OnBooks

LEMMA MoneyStaysTaken ==
  ASSUME Evolve, family # "ach", MoneyTaken
  PROVE  MoneyTaken'
  BY OnBooksStays DEF Evolve, MoneyTaken, Debits, OnBooks

LEMMA NamedStays ==
  ASSUME Evolve, NEW r, Named(r)
  PROVE  Named(r)'
  BY DEF Evolve, Named

-----------------------------------------------------------------------------
(* The start                                                                 *)

\* No call, no row and no order satisfies the invariant.
LEMMA InitInv == Init => IInv
<1>. SUFFICES ASSUME Init PROVE IInv
  OBVIOUS
<1>1. NoAnswer \in [status : Statuses, ref : Refs, error : Errors] /\ NoRef \in Refs
  BY DEF NoAnswer, Statuses, Refs, Errors
<1>2. DOMAIN orders = {}
  BY DEF Init
<1>3. TypeOK
  BY <1>1, <1>2, Bounds DEF Init, TypeOK, Ops
<1>4. Positions /\ HonestCalls /\ DeclinedOrders
  BY DEF Init, Positions, HonestCalls, DeclinedOrders, Asks
<1>5. Plans
  BY DEF Init, Plans, EndsInUpsert
<1>6. Books /\ References
  BY <1>2 DEF Init, Books, References, Named, NoRow, NoAnswer
<1>7. CapturedAnswers /\ RowOfCalls
  BY DEF Init, CapturedAnswers, RowOfCalls, Known, NoRow, NoAnswer
<1>8. IsFiniteSet(Begun)
  BY FS_EmptySet DEF Init, Begun
<1>. QED
  BY <1>3, <1>4, <1>5, <1>6, <1>7, <1>8 DEF IInv

-----------------------------------------------------------------------------
(* Steps before the rail is asked                                            *)

\* A call that begins, reads the row or leaves has no answer and touches neither
\* the row nor the rail.
LEMMA QuietStep ==
  ASSUME IInv, NEW c \in Calls, NEW step, NEW what, NEW r \in Refs,
         pc[c] \in {"idle", "read", "call"}, Named(r),
         \/ step \in {"read", "call"} /\ what \in Ops
         \/ step = "done" /\ what = "none",
         pc' = [pc EXCEPT ![c] = step],
         op' = [op EXCEPT ![c] = what],
         ref' = [ref EXCEPT ![c] = r],
         UNCHANGED <<rail, row, plan, log, dbErrors>>
  PROVE  IInv'
<1>. USE DEF rail, plan
<1>1. TypeOK'
  BY DEF IInv, TypeOK
<1>2. /\ answer[c] = NoAnswer /\ todo[c] = <<>> /\ ~told[c] /\ c \notin log
      /\ \A d \in Calls \ {c} : pc'[d] = pc[d] /\ op'[d] = op[d] /\ ref'[d] = ref[d]
      /\ pc'[c] = step /\ op'[c] = what /\ ref'[c] = r
  BY DEF IInv, TypeOK, Positions
<1>3. \A d \in Calls \ {c} :
         /\ Key(d)' = Key(d) /\ Polls(d)' = Polls(d) /\ Asks(d)' = Asks(d)
         /\ Asked(d)' = Asked(d) /\ Honest(d)' = Honest(d) /\ Planned(d)' = Planned(d)
         /\ Answered(d)' = Answered(d) /\ CodeInAnswer(d)' = CodeInAnswer(d)
  <2>. SUFFICES ASSUME NEW d \in Calls \ {c}
       PROVE  /\ Key(d)' = Key(d) /\ Polls(d)' = Polls(d) /\ Asks(d)' = Asks(d)
              /\ Asked(d)' = Asked(d) /\ Honest(d)' = Honest(d) /\ Planned(d)' = Planned(d)
              /\ Answered(d)' = Answered(d) /\ CodeInAnswer(d)' = CodeInAnswer(d)
    OBVIOUS
  <2>1. Key(d)' = Key(d) /\ Polls(d)' = Polls(d)
    BY <1>2 DEF Key, Polls
  <2>2. Asks(d)' = Asks(d) /\ Answered(d)' = Answered(d)
    BY <1>2, <2>1 DEF Asks, Answered
  <2>3. Asked(d)' = Asked(d) /\ CodeInAnswer(d)' = CodeInAnswer(d)
    BY <2>1 DEF Asked, CodeInAnswer
  <2>4. Honest(d)' = Honest(d)
    BY <1>2, <2>3 DEF Honest, Truthful, OnBooks, MoneyTaken, Debits
  <2>5. Planned(d)' = Planned(d)
    BY <1>2, <2>1 DEF Planned, PlannedFor, SetStatus, Upsert, Row
  <2>. QED
    BY <2>1, <2>2, <2>3, <2>4, <2>5
<1>4. ~Asks(c) /\ ~Asks(c)' /\ ~Answered(c) /\ ~Answered(c)'
  BY <1>2 DEF Asks, Answered, Ops
<1>5. Positions'
  BY <1>2 DEF IInv, Positions
<1>6. Plans'
  <2>1. todo'[c] = <<>> /\ todo' = todo
    BY <1>2
  <2>2. \A d \in Calls \ {c} :
           /\ todo'[d] \in Seq(Planned(d)')
           /\ EndsInUpsert(d, todo[d])'
    BY <1>2, <1>3 DEF IInv, Plans, EndsInUpsert
  <2>3. <<>> \in Seq(Planned(c)')
    BY EmptySeq
  <2>. QED
    BY <2>1, <2>2, <2>3 DEF Plans, EndsInUpsert
<1>7. Books'
  BY <1>3, <1>4 DEF IInv, Books, MoneyTaken, Debits, OnBooks
<1>8. References'
  BY <1>2 DEF IInv, References, Named
<1>9. HonestCalls'
  BY <1>2, <1>3 DEF IInv, HonestCalls
<1>10. CapturedAnswers'
  BY DEF IInv, CapturedAnswers, MoneyTaken, Debits, OnBooks
<1>11. DeclinedOrders'
  BY <1>3, <1>4 DEF IInv, DeclinedOrders, OnBooks
<1>12. RowOfCalls'
  BY <1>2, <1>3, <1>4 DEF IInv, RowOfCalls, Known
<1>13. IsFiniteSet(Begun)'
  <2>1. Begun' \subseteq Begun \cup {c}
    BY <1>2 DEF Begun
  <2>. QED
    BY <2>1, FS_AddElement, FS_Subset DEF IInv
<1>. QED
  BY <1>1, <1>5, <1>6, <1>7, <1>8, <1>9, <1>10, <1>11, <1>12, <1>13 DEF IInv

LEMMA BeginStep ==
  ASSUME IInv, NEW c \in Calls, Begin(c)
  PROVE  IInv'
<1>1. PICK what \in Ops :
         /\ op' = [op EXCEPT ![c] = what]
         /\ pc' = [pc EXCEPT ![c] = IF what = "authorize" THEN "call" ELSE "read"]
  BY DEF Begin
<1>2. ref[c] \in Refs /\ Named(ref[c]) /\ ref' = [ref EXCEPT ![c] = ref[c]]
  BY DEF Begin, IInv, TypeOK, References
<1>3. pc[c] = "idle" /\ UNCHANGED <<rail, row, plan, log, dbErrors>>
  BY DEF Begin
<1>4. CASE what = "authorize"
  BY <1>1, <1>2, <1>3, <1>4, QuietStep
<1>5. CASE what # "authorize"
  BY <1>1, <1>2, <1>3, <1>5, QuietStep
<1>. QED
  BY <1>4, <1>5

\* Leaving is one of these steps.
LEMMA LeaveStep ==
  ASSUME IInv, NEW c \in Calls, pc[c] \in {"read", "call"}, Leave(c),
         UNCHANGED <<rail, row, log, dbErrors>>
  PROVE  IInv'
<1>1. NoRef \in Refs /\ Named(NoRef)
  BY DEF Refs, Named
<1>. QED
  BY <1>1, QuietStep DEF Leave

LEMMA ReadStep ==
  ASSUME IInv, NEW c \in Calls, Read(c)
  PROVE  IInv'
<1>1. CASE Leave(c)
  BY <1>1, LeaveStep DEF Read
<1>2. CASE Known /\ ref' = [ref EXCEPT ![c] = row.ref] /\ Goto(c, "call") /\ UNCHANGED <<op, plan>>
  <2>1. row.ref \in Refs /\ Named(row.ref)
    BY DEF IInv, TypeOK, References, Rows, NoRow, Refs
  <2>2. op[c] \in Ops /\ op' = [op EXCEPT ![c] = op[c]]
    BY <1>2 DEF Read, IInv, TypeOK, Positions
  <2>. QED
    BY <1>2, <2>1, <2>2, QuietStep DEF Read, Goto
<1>. QED
  BY <1>1, <1>2 DEF Read

LEMMA RejectStep ==
  ASSUME IInv, NEW c \in Calls, RejectIncomplete(c)
  PROVE  IInv'
  BY LeaveStep DEF RejectIncomplete

-----------------------------------------------------------------------------
(* Steps after the rail has answered                                         *)

LEMMA TruthStays ==
  ASSUME Evolve, NEW what, NEW status, NEW k, Truthful(what, status, k)
  PROVE  /\ status = "authorized" => OnBooks(k)'
         /\ status = "captured" =>
               /\ OnBooks(k)'
               /\ family' \in {"card", "pix", "upi"} =>
                     orders'[k] \in {"taken", "repaid"} /\ MoneyTaken'
         /\ status = "refunded" /\ what = "refund" /\ family' \notin {"pix", "upi"} =>
               OnBooks(k)'
  BY OnBooksStays, MoneyStaysTaken DEF Evolve, Truthful, OnBooks

\* A row built by a call has a row's type.
LEMMA RowTyped ==
  ASSUME NEW c \in Calls, op[c] \in Ops, NEW status \in Statuses, NEW r \in Refs
  PROVE  /\ op[c] # "status" => Row(c, status, r) \in Rows
         /\ Row(c, status, r) \in Rows \cup
               [op : {"status"}, key : {NoRef}, status : Statuses, ref : Refs]
  BY KeyOfRequest DEF Row, Rows, Key, Ops

LEMMA PlanTyped ==
  ASSUME NEW c \in Calls, op[c] \in Ops, NEW status \in Statuses, NEW r \in Refs,
         NEW writes \in Seq(PlannedFor(c, status, r))
  PROVE  writes \in Seq(WriteCalls)
<1>1. PlannedFor(c, status, r) \subseteq WriteCalls
  BY RowTyped DEF PlannedFor, SetStatus, Upsert, WriteCalls
<1>. QED
  BY <1>1, SeqMonotonic

\* What the adapters plan after an answer.
LEMMA WritesPlanned ==
  ASSUME NEW c \in Calls, op[c] \in Ops, NEW status, NEW r
  PROVE  /\ Writes(c, status, r) \in Seq(PlannedFor(c, status, r))
         /\ Writes(c, status, r) # <<>>
         /\ EndsInUpsert(c, Writes(c, status, r))
<1>. DEFINE set == SetStatus(c, status, r)
            up == Upsert(c, status, r)
<1>1. set \in PlannedFor(c, status, r) /\ (op[c] # "status" => up \in PlannedFor(c, status, r))
  BY DEF PlannedFor
<1>2. up.how = "Upsert"
  BY DEF Upsert
<1>3. Writes(c, status, r) =
         CASE op[c] = "authorize" -> <<up, up>>
           [] op[c] = "capture" /\ family = "ach" -> <<set, up, up>>
           [] op[c] \in {"capture", "refund"} -> <<set, up>>
           [] op[c] = "status" -> <<set>>
  BY DEF Writes
<1>4. \/ op[c] = "authorize" /\ Writes(c, status, r) = <<up, up>>
      \/ op[c] = "capture" /\ Writes(c, status, r) = <<set, up, up>>
      \/ op[c] \in {"capture", "refund"} /\ Writes(c, status, r) = <<set, up>>
      \/ op[c] = "status" /\ Writes(c, status, r) = <<set>>
  BY <1>3 DEF Ops
<1>. HIDE DEF set, up
<1>. DEFINE P == PlannedFor(c, status, r)
<1>5. <<set>> \in Seq(P)
  BY <1>1
<1>. HIDE DEF P
<1>6. CASE op[c] = "status" /\ Writes(c, status, r) = <<set>>
  BY <1>5, <1>6 DEF EndsInUpsert, P
<1>7. CASE op[c] # "status"
  <2>1. set \in P /\ up \in P
    BY <1>1, <1>7 DEF P
  <2>2. <<up, up>> \in Seq(P) /\ <<set, up, up>> \in Seq(P) /\ <<set, up>> \in Seq(P)
    BY <2>1
  <2>3. Writes(c, status, r) \in {<<up, up>>, <<set, up, up>>, <<set, up>>}
    BY <1>4, <1>7
  <2>4. \A w \in {<<up, up>>, <<set, up, up>>, <<set, up>>} :
           w # <<>> /\ w[Len(w)].how = "Upsert"
    BY <1>2
  <2>. QED
    BY <2>2, <2>3, <2>4 DEF EndsInUpsert, P
<1>. QED
  BY <1>4, <1>6, <1>7

\* A call takes an answer: what it will write, say and announce.
Concludes(c, status, r, e, tells) ==
    \E writes \in Seq(PlannedFor(c, status, r)) :
        /\ writes # <<>> /\ EndsInUpsert(c, writes)
        /\ Does(c, writes, status, r, e, tells)

\* An answer that agrees with the books, whether or not the call has placed an order.
LEMMA ConcludeStep ==
  ASSUME IInv, NEW c \in Calls, pc[c] = "call", op[c] \in Ops,
         UNCHANGED <<row, op, log, dbErrors>>, Evolve,
         NEW status \in Statuses, NEW r \in Refs, NEW e \in Errors, NEW tells \in BOOLEAN,
         Concludes(c, status, r, e, tells),
         \/ DOMAIN orders' = DOMAIN orders
         \/ /\ DOMAIN orders' = DOMAIN orders \cup {Key(c)} /\ ~Polls(c)
            /\ orders'[Key(c)] \in OrderStates
            /\ Key(c) \notin DOMAIN orders =>
                  /\ family \in {"ach", "sepa"} => orders'[Key(c)] # "refused"
                  /\ family = "card" /\ op[c] = "capture" =>
                        orders'[Key(c)] \in {"taken", "repaid"} /\ MoneyTaken',
         Named(r)',
         tells => /\ op[c] # "status"
                  /\ Truthful(op[c], status, IF Polls(c) THEN r ELSE Key(c))',
         family \in {"card", "pix", "upi"} /\ status = "captured" => MoneyTaken',
         /\ e = "declined" /\ ~Polls(c) /\ ~(family \in {"pix", "upi"} /\ r = Key(c))
         /\ OnBooks(Key(c))' /\ orders'[Key(c)] # "returned"
         => UNCHANGED orders
  PROVE  IInv'
<1>1. PICK writes \in Seq(PlannedFor(c, status, r)) :
         /\ writes # <<>> /\ EndsInUpsert(c, writes)
         /\ Does(c, writes, status, r, e, tells)
  BY DEF Concludes
<1>2. /\ todo' = [todo EXCEPT ![c] = writes]
      /\ answer' = [answer EXCEPT ![c] = [status |-> status, ref |-> r, error |-> e]]
      /\ told' = [told EXCEPT ![c] = tells]
      /\ pc' = [pc EXCEPT ![c] = "write"]
      /\ ref' = [ref EXCEPT ![c] = NoRef]
      /\ UNCHANGED <<row, op, log, dbErrors, family>>
  BY <1>1 DEF Does, Evolve
<1>3. /\ c \notin log
      /\ \A d \in Calls \ {c} :
            /\ pc'[d] = pc[d] /\ ref'[d] = ref[d] /\ todo'[d] = todo[d]
            /\ answer'[d] = answer[d] /\ told'[d] = told[d]
      /\ pc'[c] = "write" /\ ref'[c] = NoRef /\ told'[c] = tells /\ todo'[c] = writes
      /\ answer'[c] = [status |-> status, ref |-> r, error |-> e]
      /\ answer'[c].status = status /\ answer'[c].ref = r /\ answer'[c].error = e
      /\ op'[c] \in Ops
  BY <1>2 DEF IInv, TypeOK, Positions
<1>4. \A d \in Calls : Key(d)' = Key(d) /\ Polls(d)' = Polls(d)
  BY <1>2 DEF Key, Polls
<1>5. \A d \in Calls \ {c} :
         /\ Asks(d)' = Asks(d) /\ Answered(d)' = Answered(d) /\ Asked(d)' = Asked(d)
         /\ CodeInAnswer(d)' = CodeInAnswer(d)
  BY <1>2, <1>3, <1>4 DEF Asks, Answered, Asked, CodeInAnswer
<1>6. /\ Answered(c)' /\ ~Answered(c) /\ ~Asks(c) /\ (~Polls(c) => Asks(c)')
      /\ Asked(c)' = IF Polls(c) THEN r ELSE Key(c)
      /\ CodeInAnswer(c)' <=> family \in {"pix", "upi"} /\ r = Key(c)
  BY <1>2, <1>3, <1>4 DEF Asks, Answered, Asked, CodeInAnswer
<1>7. TypeOK'
  <2>1. writes \in Seq(WriteCalls)
    BY PlanTyped
  <2>2. todo' \in [Calls -> Seq(WriteCalls)]
    BY <1>2, <2>1 DEF IInv, TypeOK
  <2>3. DOMAIN orders' \subseteq Keys /\ \A k \in DOMAIN orders' : orders'[k] \in OrderStates
    BY KeyOfRequest DEF Evolve, IInv, TypeOK, Polls
  <2>4. answer' \in [Calls -> [status : Statuses, ref : Refs, error : Errors]]
    BY <1>2 DEF IInv, TypeOK
  <2>5. NoRef \in Refs
    BY DEF Refs
  <2>. QED
    BY <1>2, <2>2, <2>3, <2>4, <2>5 DEF IInv, TypeOK
<1>8. Positions'
  BY <1>1, <1>2, <1>3 DEF IInv, Positions
<1>9. Plans'
  <2>1. todo'[c] \in Seq(Planned(c)') /\ EndsInUpsert(c, todo[c])'
    BY <1>1, <1>2, <1>3, <1>4 DEF Planned, PlannedFor, EndsInUpsert, SetStatus, Upsert, Row
  <2>2. ASSUME NEW d \in Calls \ {c}
        PROVE  todo'[d] \in Seq(Planned(d)') /\ EndsInUpsert(d, todo[d])'
    <3>1. Planned(d)' = Planned(d)
      BY <1>2, <1>3, <1>4 DEF Planned, PlannedFor, SetStatus, Upsert, Row
    <3>. QED
      BY <1>2, <1>3, <3>1 DEF IInv, Plans, EndsInUpsert
  <2>. QED
    BY <2>1, <2>2 DEF Plans
<1>10. Books'
  <2>1. ASSUME NEW k \in DOMAIN orders
        PROVE  /\ \E d \in Calls : Asks(d)' /\ Key(d)' = k
               /\ family' \in {"ach", "sepa"} => orders'[k] # "refused"
               /\ family' = "card" /\ k[1] = "capture" =>
                     orders'[k] \in {"taken", "repaid"} /\ MoneyTaken'
    <3>1. \E d \in Calls : Asks(d)' /\ Key(d)' = k
      BY <1>4, <1>5, <1>6 DEF IInv, Books
    <3>2. family' = "card" /\ k[1] = "capture" =>
             orders'[k] \in {"taken", "repaid"} /\ MoneyTaken'
      BY <1>2, MoneyStaysTaken DEF IInv, Books, Evolve
    <3>. QED
      BY <1>2, <3>1, <3>2 DEF IInv, Books, Evolve
  <2>2. ASSUME Key(c) \in DOMAIN orders' \ DOMAIN orders
        PROVE  /\ Asks(c)' /\ Key(c)' = Key(c)
               /\ family' \in {"ach", "sepa"} => orders'[Key(c)] # "refused"
               /\ family' = "card" /\ Key(c)[1] = "capture" =>
                     orders'[Key(c)] \in {"taken", "repaid"} /\ MoneyTaken'
    BY <1>2, <1>4, <1>6, <2>2, KeyOfRequest DEF Polls
  <2>. QED
    BY <2>1, <2>2 DEF Books
<1>11. References'
  BY <1>2, <1>3, NamedStays DEF IInv, References, Named
<1>12. HonestCalls'
  <2>1. tells => Honest(c)'
    BY <1>2, <1>3, <1>4, <1>6 DEF Honest, Truthful
  <2>2. ASSUME NEW d \in Calls \ {c}, Honest(d) PROVE Honest(d)'
    BY <1>2, <1>3, <1>5, <2>2, TruthStays DEF Honest, Truthful
  <2>. QED
    BY <1>2, <1>3, <2>1, <2>2 DEF IInv, HonestCalls
<1>13. CapturedAnswers'
  BY <1>2, <1>3, MoneyStaysTaken DEF IInv, CapturedAnswers
<1>14. DeclinedOrders'
  <2>1. ASSUME NEW d \in Calls \ {c}, Asks(d)', answer'[d].error = "declined",
               ~CodeInAnswer(d)', OnBooks(Key(d))', orders'[Key(d)] # "returned"
        PROVE  \E x \in Calls \ {d} : Asks(x)' /\ Key(x)' = Key(d)'
    <3>1. CASE Key(d) \in DOMAIN orders
      <4>1. OnBooks(Key(d)) /\ orders[Key(d)] # "returned"
        BY <1>4, <2>1, <3>1, OnBooksStays DEF Evolve, OnBooks
      <4>2. PICK x \in Calls \ {d} : Asks(x) /\ Key(x) = Key(d)
        BY <1>3, <1>5, <2>1, <4>1 DEF IInv, DeclinedOrders
      <4>. QED
        BY <1>4, <1>5, <1>6, <4>2
    <3>2. CASE Key(d) \notin DOMAIN orders
      BY <1>4, <1>6, <2>1, <3>2 DEF OnBooks
    <3>. QED
      BY <3>1, <3>2
  <2>2. ASSUME Asks(c)', e = "declined", ~CodeInAnswer(c)',
               OnBooks(Key(c))', orders'[Key(c)] # "returned"
        PROVE  \E x \in Calls \ {c} : Asks(x)' /\ Key(x)' = Key(c)'
    <3>1. UNCHANGED orders
      BY <1>2, <1>4, <1>6, <2>2 DEF Asks
    <3>2. PICK x \in Calls : Asks(x) /\ Key(x) = Key(c)
      BY <1>4, <2>2, <3>1 DEF IInv, Books, OnBooks
    <3>. QED
      BY <1>4, <1>5, <1>6, <3>2
  <2>. QED
    BY <1>3, <1>4, <2>1, <2>2 DEF DeclinedOrders
<1>15. RowOfCalls'
  <2>. SUFFICES ASSUME Known, dbErrors = 0 PROVE RowOfCalls'
    BY <1>2 DEF RowOfCalls, Known
  <2>1. PICK x \in Calls :
           /\ Answered(x) /\ op[x] # "status"
           /\ row.op = op[x] /\ row.key = Key(x) /\ row.ref = answer[x].ref
           /\ \/ \E d \in Calls :
                    Answered(d) /\ (d = x \/ op[d] = "status") /\ row.status = answer[d].status
              \/ \E d \in Calls : op[d] # "status" /\ todo[d] # <<>>
    BY DEF IInv, RowOfCalls
  <2>2. x # c /\ \A d \in Calls : Answered(d) \/ todo[d] # <<>> => d # c
    BY <1>6, <2>1 DEF IInv, Positions
  <2>. QED
    BY <1>2, <1>3, <1>4, <1>5, <2>1, <2>2 DEF RowOfCalls
<1>16. IsFiniteSet(Begun)'
  <2>1. Begun' = Begun
    BY <1>3 DEF Begun
  <2>. QED
    BY <2>1 DEF IInv
<1>. QED
  BY <1>7, <1>8, <1>9, <1>10, <1>11, <1>12, <1>13, <1>14, <1>15, <1>16 DEF IInv

LEMMA FailConcludes ==
  ASSUME NEW c \in Calls, op[c] \in Ops \ {"status"}, NEW r, NEW errors, Fail(c, r, errors)
  PROVE  \E e \in errors : Concludes(c, "failed", r, e, FALSE)
<1>. DEFINE writes == <<Upsert(c, "failed", r)>>
<1>1. Upsert(c, "failed", r) \in PlannedFor(c, "failed", r)
  BY DEF PlannedFor
<1>2. writes \in Seq(PlannedFor(c, "failed", r)) /\ writes # <<>> /\ EndsInUpsert(c, writes)
  BY <1>1 DEF EndsInUpsert, Upsert
<1>3. PICK e \in errors : Does(c, writes, "failed", r, e, FALSE)
  BY DEF Fail
<1>. QED
  BY <1>2, <1>3 DEF Concludes

LEMMA SucceedConcludes ==
  ASSUME NEW c \in Calls, op[c] \in Ops, NEW status, NEW r, Succeed(c, status, r)
  PROVE  Concludes(c, status, r, "none", op[c] # "status")
  BY WritesPlanned DEF Succeed, Concludes

\* An error code; a decline only if the rail refused.
LEMMA ErrorCodes ==
  ASSUME family \in Families, NEW refused
  PROVE  /\ MapErr(refused) \subseteq Errors
         /\ MapCode \subseteq Errors
         /\ ~refused => "declined" \notin MapErr(refused)
  BY DEF MapErr, CardErrors, AchErrors, ClearingErrors, MapCode, Errors, Families

\* A word is said of an order in the state it stands for; SEPA calls an order
\* captured that it has accepted for settlement.
LEMMA WordsMean ==
  ASSUME NEW state \in OrderStates, NEW word \in Words(state)
  PROVE  /\ MapStatus(word) \in Statuses
         /\ MapStatus(word) = "authorized" => state = "open"
         /\ MapStatus(word) = "captured" =>
               state \in {"taken", "repaid"} \/ (family = "sepa" /\ state = "open")
<1>1. CASE family = "sepa"
  BY <1>1 DEF Words, SepaWords, MapStatus, SepaStatus, Statuses, OrderStates
<1>2. CASE family # "sepa"
  BY <1>2 DEF Words, OtherWords, MapStatus, CardStatus, Statuses, OrderStates
<1>. QED
  BY <1>1, <1>2

\* The order of a request that reached the rail.
LEMMA ReachedBooks ==
  ASSUME IInv, NEW c \in Calls, pc[c] = "call", op[c] \in Ops, ~Polls(c),
         orders' \in Request(Key(c), ref[c]), UNCHANGED family
  PROVE  /\ Evolve
         /\ DOMAIN orders' = DOMAIN orders \cup {Key(c)}
         /\ orders'[Key(c)] \in OrderStates
         /\ family \in {"ach", "sepa"} => orders'[Key(c)] # "refused"
         /\ family = "card" /\ op[c] = "capture" =>
               orders'[Key(c)] \in {"taken", "repaid"} /\ MoneyTaken'
<1>1. op[c] \in Ops \ {"status"} /\ Key(c) \in Keys /\ Key(c)[1] = op[c]
  BY KeyOfRequest DEF Polls
<1>2. /\ Evolve
      /\ DOMAIN orders' = DOMAIN orders \cup {Key(c)}
      /\ orders'[Key(c)] \in OrderStates
      /\ Key(c) \notin DOMAIN orders => orders'[Key(c)] \in FreshStates(op[c])
  BY <1>1, RequestEvolves DEF IInv
<1>3. family \in {"ach", "sepa"} => orders'[Key(c)] # "refused"
  <2>1. CASE Key(c) \in DOMAIN orders
    BY <1>2, <2>1 DEF IInv, Books, Evolve
  <2>2. CASE Key(c) \notin DOMAIN orders
    BY <1>2, <2>2 DEF FreshStates
  <2>. QED
    BY <2>1, <2>2
<1>4. ASSUME family = "card", op[c] = "capture"
      PROVE  orders'[Key(c)] \in {"taken", "repaid"} /\ MoneyTaken'
  <2>1. CASE Key(c) \in DOMAIN orders
    BY <1>1, <1>2, <1>4, <2>1, MoneyStaysTaken DEF IInv, Books, Evolve
  <2>2. CASE Key(c) \notin DOMAIN orders
    <3>1. /\ ref[c] \in DOMAIN orders /\ orders[ref[c]] = "open"
          /\ \E s \in FreshStates("capture") : orders' = Placed(Key(c), ref[c], s)
      BY <1>1, <1>4, <2>2 DEF Request, Admits
    <3>2. ref[c] # NoRef /\ ref[c][1] = "authorize"
      BY <1>4, <3>1, NoRefIsNoKey DEF IInv, TypeOK, References, Named
    <3>3. orders'[ref[c]] = "taken" /\ ref[c] \in DOMAIN orders'
      BY <1>1, <1>4, <2>2, <3>1 DEF Placed
    <3>4. ref[c] \in Debits'
      BY <1>4, <3>2, <3>3 DEF Debits, OnBooks
    <3>5. orders'[Key(c)] = "taken"
      BY <1>2, <1>4, <2>2 DEF FreshStates
    <3>. QED
      BY <3>3, <3>4, <3>5 DEF MoneyTaken
  <2>. QED
    BY <2>1, <2>2
<1>. QED
  BY <1>2, <1>3, <1>4

\* A call takes the answer to a request that reached the rail.
LEMMA ReachedStep ==
  ASSUME IInv, NEW c \in Calls, pc[c] = "call", op[c] \in Ops, ~Polls(c),
         orders' \in Request(Key(c), ref[c]),
         UNCHANGED <<family, row, op, log, dbErrors>>,
         NEW status \in Statuses, NEW r, r \in {ref[c], Key(c)},
         family = "card" => op[c] = "authorize" \/ r = ref[c],
         NEW e \in Errors, NEW tells \in BOOLEAN, Concludes(c, status, r, e, tells),
         tells => Truthful(op[c], status, Key(c))',
         family \in {"card", "pix", "upi"} /\ status = "captured" => MoneyTaken',
         e = "declined" =>
            orders'[Key(c)] = "refused" \/ (family \in {"pix", "upi"} /\ r = Key(c))
  PROVE  IInv'
<1>1. op[c] \in Ops \ {"status"} /\ Key(c) \in Keys /\ Key(c)[1] = op[c]
  BY KeyOfRequest DEF Polls
<1>2. Key(c)' = Key(c) /\ Polls(c)' = Polls(c)
  BY DEF Key, Polls
<1>3. r \in Refs
  BY <1>1 DEF IInv, TypeOK, Refs
<1>4. /\ Evolve
      /\ DOMAIN orders' = DOMAIN orders \cup {Key(c)}
      /\ orders'[Key(c)] \in OrderStates
      /\ family \in {"ach", "sepa"} => orders'[Key(c)] # "refused"
      /\ family = "card" /\ op[c] = "capture" =>
            orders'[Key(c)] \in {"taken", "repaid"} /\ MoneyTaken'
  BY ReachedBooks
<1>5. Named(r)'
  <2>1. CASE r = ref[c]
    BY <1>4, <2>1, NamedStays DEF IInv, References
  <2>2. CASE r = Key(c) /\ (family = "card" => op[c] = "authorize")
    BY <1>1, <1>2, <1>4, <2>2 DEF Named
  <2>. QED
    BY <2>1, <2>2
<1>6. tells => Truthful(op[c], status, IF Polls(c) THEN r ELSE Key(c))'
  BY <1>2 DEF Truthful
<1>7. e = "declined" /\ OnBooks(Key(c))' => family \in {"pix", "upi"} /\ r = Key(c)
  BY <1>2 DEF OnBooks
<1>. QED
  BY <1>1, <1>3, <1>4, <1>5, <1>6, <1>7, ConcludeStep

\* A request that fails before it reaches the rail.
LEMMA NotPlacedStep ==
  ASSUME IInv, NEW c \in Calls, pc[c] = "call", op[c] \in Ops, ~Polls(c), NotPlaced(c),
         UNCHANGED <<family, row, op, log, dbErrors>>
  PROVE  IInv'
<1>1. op[c] \in Ops \ {"status"}
  BY DEF Polls
<1>2. PICK r \in Refs : r = ref[c]
  BY DEF IInv, TypeOK
<1>3. PICK e \in Errors : Concludes(c, "failed", r, e, FALSE)
  BY <1>1, <1>2, FailConcludes, ErrorCodes DEF NotPlaced, IInv, TypeOK
<1>4. Evolve /\ UNCHANGED orders
  BY UnchangedEvolves DEF IInv, rail, NotPlaced
<1>5. Named(r)'
  BY <1>2, <1>4, NamedStays DEF IInv, References
<1>6. "failed" \in Statuses
  BY DEF Statuses
<1>. QED
  BY <1>3, <1>4, <1>5, <1>6, ConcludeStep

\* One whose answer is lost or is an error.
LEMMA ReachedFails ==
  ASSUME IInv, NEW c \in Calls, pc[c] = "call", op[c] \in Ops, ~Polls(c),
         orders' \in Request(Key(c), ref[c]),
         UNCHANGED <<family, row, op, log, dbErrors>>,
         \/ Fail(c, ref[c], MapErr(orders'[Key(c)] = "refused"))
         \/ family \in {"pix", "upi"} /\ Fail(c, Key(c), MapCode)
  PROVE  IInv'
<1>1. op[c] \in Ops \ {"status"} /\ family \in Families /\ "failed" \in Statuses
  BY DEF Polls, IInv, TypeOK, Statuses
<1>2. CASE Fail(c, ref[c], MapErr(orders'[Key(c)] = "refused"))
  <2>1. PICK r : r = ref[c]
    OBVIOUS
  <2>2. PICK e \in MapErr(orders'[Key(c)] = "refused") : Concludes(c, "failed", r, e, FALSE)
    BY <1>1, <1>2, <2>1, FailConcludes
  <2>3. e \in Errors /\ (e = "declined" => orders'[Key(c)] = "refused")
    BY <1>1, ErrorCodes
  <2>. QED
    BY <1>1, <2>1, <2>2, <2>3, ReachedStep
<1>3. CASE family \in {"pix", "upi"} /\ Fail(c, Key(c), MapCode)
  <2>1. PICK r : r = Key(c)
    OBVIOUS
  <2>2. PICK e \in Errors : Concludes(c, "failed", r, e, FALSE)
    BY <1>1, <1>3, <2>1, FailConcludes, ErrorCodes
  <2>. QED
    BY <1>1, <1>3, <2>1, <2>2, ReachedStep
<1>. QED
  BY <1>2, <1>3

\* One that the adapter takes for a success, as a status it made of the answer.
LEMMA ReachedSucceeds ==
  ASSUME IInv, NEW c \in Calls, pc[c] = "call", op[c] \in Ops, ~Polls(c),
         orders' \in Request(Key(c), ref[c]),
         UNCHANGED <<family, row, op, log, dbErrors>>,
         NEW status \in Statuses, NEW r, r \in {ref[c], Key(c)},
         family = "card" => op[c] = "authorize" \/ r = ref[c],
         Succeed(c, status, r),
         Truthful(op[c], status, Key(c))',
         family \in {"card", "pix", "upi"} /\ status = "captured" => MoneyTaken'
  PROVE  IInv'
<1>1. op[c] # "status" /\ "none" \in Errors
  BY DEF Polls, Errors
<1>2. Concludes(c, status, r, "none", TRUE)
  BY <1>1, SucceedConcludes
<1>. QED
  BY <1>1, <1>2, ReachedStep

\* The rail's word on an authorization, and on a card capture, is true of the order.
LEMMA WordIsTrue ==
  ASSUME IInv, NEW c \in Calls, pc[c] = "call", op[c] \in {"authorize", "capture"},
         ~Polls(c), orders' \in Request(Key(c), ref[c]), UNCHANGED <<family, op>>,
         family \in {"card", "pix", "upi"},
         NEW word \in Words(orders'[Key(c)])
  PROVE  /\ MapStatus(word) \in Statuses
         /\ Truthful(op[c], MapStatus(word), Key(c))'
         /\ MapStatus(word) = "captured" => MoneyTaken'
<1>1. op[c] \in Ops \ {"status"} /\ op[c] \in Ops
  BY DEF Ops
<1>2. Key(c)' = Key(c) /\ MapStatus(word)' = MapStatus(word) /\ Key(c)[1] = op[c]
  BY <1>1, KeyOfRequest DEF Key, MapStatus, CardStatus, SepaStatus
<1>3. /\ Key(c) \in DOMAIN orders' /\ orders'[Key(c)] \in OrderStates
      /\ family = "card" /\ op[c] = "capture" => MoneyTaken'
  BY <1>1, ReachedBooks
<1>4. /\ MapStatus(word) \in Statuses
      /\ MapStatus(word) = "authorized" => orders'[Key(c)] = "open"
      /\ MapStatus(word) = "captured" => orders'[Key(c)] \in {"taken", "repaid"}
  BY <1>3, WordsMean
<1>5. ASSUME MapStatus(word) = "captured" PROVE MoneyTaken'
  <2>1. CASE op[c] = "authorize"
    <3>1. Key(c) \in Debits'
      BY <1>2, <1>3, <1>4, <1>5, <2>1 DEF Debits, OnBooks
    <3>. QED
      BY <1>4, <1>5, <3>1 DEF MoneyTaken
  <2>2. CASE op[c] = "capture"
    BY <1>3, <2>2 DEF Polls
  <2>. QED
    BY <2>1, <2>2
<1>6. Truthful(op[c], MapStatus(word), Key(c))'
  BY <1>2, <1>3, <1>4, <1>5 DEF Truthful, OnBooks
<1>. QED
  BY <1>4, <1>5, <1>6

LEMMA CardAnswersStep ==
  ASSUME IInv, NEW c \in Calls, pc[c] = "call", op[c] \in Ops, ~Polls(c),
         orders' \in Request(Key(c), ref[c]),
         UNCHANGED <<family, row, op, log, dbErrors>>,
         family = "card", CardAnswers(c, orders'[Key(c)])
  PROVE  IInv'
<1>1. CASE op[c] = "refund"
  <2>1. PICK status \in MapRefundStatus(orders'[Key(c)]) : Succeed(c, status, ref[c])
    BY <1>1 DEF CardAnswers
  <2>2. /\ status \in Statuses /\ status \notin {"authorized", "captured"}
        /\ status = "refunded" => orders'[Key(c)] \in {"open", "taken"}
    BY DEF MapRefundStatus, Statuses
  <2>3. Key(c)' = Key(c) /\ Key(c) \in DOMAIN orders'
    BY ReachedBooks DEF Key
  <2>4. Truthful(op[c], status, Key(c))'
    BY <2>2, <2>3 DEF Truthful, OnBooks
  <2>5. PICK r : r = ref[c]
    OBVIOUS
  <2>. QED
    BY <2>1, <2>2, <2>4, <2>5, ReachedSucceeds
<1>2. CASE op[c] # "refund"
  <2>1. op[c] \in {"authorize", "capture"}
    BY <1>2 DEF Ops, Polls
  <2>2. PICK word \in Words(orders'[Key(c)]) :
           Succeed(c, MapStatus(word), IF op[c] = "capture" THEN ref[c] ELSE Key(c))
    BY <1>2 DEF CardAnswers
  <2>3. PICK status, r : /\ status = MapStatus(word)
                         /\ r = (IF op[c] = "capture" THEN ref[c] ELSE Key(c))
    OBVIOUS
  <2>4. /\ status \in Statuses
        /\ Truthful(op[c], status, Key(c))'
        /\ status = "captured" => MoneyTaken'
    <3>1. MapStatus(word)' = MapStatus(word)
      BY DEF MapStatus, CardStatus, SepaStatus
    <3>. QED
      BY <2>1, <2>3, <3>1, WordIsTrue DEF Truthful
  <2>. QED
    BY <2>1, <2>2, <2>3, <2>4, ReachedSucceeds
<1>. QED
  BY <1>1, <1>2

\* A bank or a gateway that has accepted an order does not refuse it later.
LEMMA AcceptedAnswersStep ==
  ASSUME IInv, NEW c \in Calls, pc[c] = "call", op[c] \in Ops, ~Polls(c),
         orders' \in Request(Key(c), ref[c]),
         UNCHANGED <<family, row, op, log, dbErrors>>,
         \/ family = "ach" /\ AchAnswers(c)
         \/ family = "sepa" /\ SepaAnswers(c)
  PROVE  IInv'
<1>1. PICK status \in {"authorized", "captured", "refunded"}, r \in {ref[c], Key(c)} :
         Succeed(c, status, r)
  <2>1. op[c] \in {"authorize", "capture", "refund"}
    BY DEF Ops, Polls
  <2>. QED
    BY <2>1 DEF AchAnswers, SepaAnswers
<1>2. Key(c)' = Key(c) /\ Key(c) \in DOMAIN orders' /\ orders'[Key(c)] # "refused"
  BY ReachedBooks DEF Key
<1>3. Truthful(op[c], status, Key(c))'
  BY <1>1, <1>2 DEF Truthful, OnBooks
<1>4. status \in Statuses
  BY DEF Statuses
<1>. QED
  BY <1>1, <1>3, <1>4, ReachedSucceeds

LEMMA InstantAnswersStep ==
  ASSUME IInv, NEW c \in Calls, pc[c] = "call", op[c] \in Ops, ~Polls(c),
         orders' \in Request(Key(c), ref[c]),
         UNCHANGED <<family, row, op, log, dbErrors>>,
         \/ family = "pix" /\ PixAnswers(c, orders'[Key(c)])
         \/ family = "upi" /\ UpiAnswers(c, orders'[Key(c)])
  PROVE  IInv'
<1>1. op[c] \in {"authorize", "refund"}
  BY DEF Ops, Polls
<1>2. PICK r : r = Key(c)
  OBVIOUS
<1>3. CASE op[c] = "refund"
  <2>1. Succeed(c, "refunded", r)
    BY <1>2, <1>3 DEF PixAnswers, UpiAnswers
  <2>2. Truthful(op[c], "refunded", Key(c))' /\ "refunded" \in Statuses
    BY DEF Truthful, Statuses
  <2>. QED
    BY <1>2, <2>1, <2>2, ReachedSucceeds
<1>4. CASE op[c] = "authorize"
  <2>1. PICK word \in Words(orders'[Key(c)]) :
           Succeed(c, MapStatus(word), r) \/ Fail(c, Key(c), MapCode)
    BY <1>2, <1>4 DEF PixAnswers, UpiAnswers
  <2>2. CASE Succeed(c, MapStatus(word), r)
    <3>1. PICK status : status = MapStatus(word)
      OBVIOUS
    <3>2. MapStatus(word)' = MapStatus(word)
      BY DEF MapStatus, CardStatus, SepaStatus
    <3>3. /\ status \in Statuses
          /\ Truthful(op[c], status, Key(c))'
          /\ status = "captured" => MoneyTaken'
      BY <1>4, <3>1, <3>2, WordIsTrue DEF Truthful
    <3>. QED
      BY <1>2, <2>2, <3>1, <3>3, ReachedSucceeds
  <2>3. CASE Fail(c, Key(c), MapCode)
    BY <2>3, ReachedFails
  <2>. QED
    BY <2>1, <2>2, <2>3
<1>. QED
  BY <1>1, <1>3, <1>4

LEMMA SubmitStep ==
  ASSUME IInv, NEW c \in Calls, Submit(c)
  PROVE  IInv'
<1>1. /\ pc[c] = "call" /\ op[c] \in Ops /\ ~Polls(c) /\ family \in Families
      /\ UNCHANGED <<family, row, op, log, dbErrors>>
  BY DEF Submit, IInv, TypeOK, Positions
<1>2. CASE NotPlaced(c)
  BY <1>1, <1>2, NotPlacedStep
<1>3. CASE Reached(c)
  <2>1. /\ orders' \in Request(Key(c), ref[c])
        /\ \/ Fail(c, ref[c], MapErr(orders'[Key(c)] = "refused"))
           \/ Answers(c, orders'[Key(c)])
    BY <1>3 DEF Reached
  <2>2. CASE Fail(c, ref[c], MapErr(orders'[Key(c)] = "refused"))
    BY <1>1, <2>1, <2>2, ReachedFails
  <2>3. CASE Answers(c, orders'[Key(c)])
    <3>1. \/ family = "card" /\ CardAnswers(c, orders'[Key(c)])
          \/ family = "ach" /\ AchAnswers(c)
          \/ family = "sepa" /\ SepaAnswers(c)
          \/ family = "pix" /\ PixAnswers(c, orders'[Key(c)])
          \/ family = "upi" /\ UpiAnswers(c, orders'[Key(c)])
      BY <1>1, <2>3 DEF Answers, Families
    <3>. QED
      BY <1>1, <2>1, <3>1, CardAnswersStep, AcceptedAnswersStep, InstantAnswersStep
  <2>. QED
    BY <2>1, <2>2, <2>3
<1>. QED
  BY <1>2, <1>3 DEF Submit

-----------------------------------------------------------------------------
(* Polls                                                                     *)

\* A poll concludes without an order.
LEMMA PollConcludes ==
  ASSUME IInv, NEW c \in Calls, pc[c] = "call", op[c] \in Ops, Polls(c),
         UNCHANGED <<rail, row, op, log, dbErrors>>,
         NEW status \in Statuses, NEW r, r = ref[c], NEW e \in Errors,
         NEW tells \in BOOLEAN, Concludes(c, status, r, e, tells),
         tells => op[c] # "status" /\ Truthful(op[c], status, r),
         family \in {"card", "pix", "upi"} /\ status = "captured" => MoneyTaken
  PROVE  IInv'
<1>1. Evolve /\ UNCHANGED <<family, orders>>
  BY UnchangedEvolves DEF IInv, rail
<1>2. r \in Refs /\ Named(r)'
  BY <1>1, NamedStays DEF IInv, TypeOK, References
<1>3. Polls(c)' = Polls(c)
  BY <1>1 DEF Polls
<1>4. tells => Truthful(op[c], status, IF Polls(c) THEN r ELSE Key(c))'
  BY <1>1, <1>3 DEF Truthful, OnBooks, MoneyTaken, Debits
<1>5. family \in {"card", "pix", "upi"} /\ status = "captured" => MoneyTaken'
  BY <1>1 DEF MoneyTaken, Debits, OnBooks
<1>. QED
  BY <1>1, <1>2, <1>4, <1>5, ConcludeStep

LEMMA PollSucceeds ==
  ASSUME IInv, NEW c \in Calls, pc[c] = "call", op[c] \in Ops, Polls(c),
         UNCHANGED <<rail, row, op, log, dbErrors>>,
         NEW status \in Statuses, Succeed(c, status, ref[c]),
         Truthful(op[c], status, ref[c]),
         family \in {"card", "pix", "upi"} /\ status = "captured" => MoneyTaken
  PROVE  IInv'
<1>1. PICK r : r = ref[c]
  OBVIOUS
<1>2. Concludes(c, status, r, "none", op[c] # "status") /\ "none" \in Errors
  BY <1>1, SucceedConcludes DEF Errors
<1>3. (op[c] # "status") \in BOOLEAN
  OBVIOUS
<1>. QED
  BY <1>1, <1>2, <1>3, PollConcludes

LEMMA PollFailsStep ==
  ASSUME IInv, NEW c \in Calls, pc[c] = "call", op[c] \in Ops \ {"status"}, Polls(c),
         UNCHANGED <<rail, row, op, log, dbErrors>>,
         NEW errors, errors \subseteq Errors, Fail(c, ref[c], errors)
  PROVE  IInv'
<1>1. PICK r : r = ref[c]
  OBVIOUS
<1>2. PICK e \in errors : Concludes(c, "failed", r, e, FALSE)
  BY <1>1, FailConcludes
<1>3. "failed" \in Statuses
  BY DEF Statuses
<1>. QED
  BY <1>1, <1>2, <1>3, PollConcludes

\* What the rail says of an order it has found is true of it.
LEMMA FoundIsTrue ==
  ASSUME IInv, NEW c \in Calls, pc[c] = "call", op[c] \in Ops, Polls(c), Found(ref[c]),
         NEW word \in Words(orders[ref[c]])
  PROVE  /\ MapStatus(word) \in Statuses
         /\ Truthful(op[c], MapStatus(word), ref[c])
         /\ family \in {"card", "pix", "upi"} /\ MapStatus(word) = "captured" => MoneyTaken
<1>1. /\ ref[c] \in DOMAIN orders /\ orders[ref[c]] \in OrderStates
      /\ ref[c] # NoRef
  BY NoRefIsNoKey DEF Found, IInv, TypeOK
<1>2. /\ MapStatus(word) \in Statuses
      /\ MapStatus(word) = "authorized" => orders[ref[c]] = "open"
      /\ MapStatus(word) = "captured" =>
            \/ orders[ref[c]] \in {"taken", "repaid"}
            \/ family = "sepa" /\ orders[ref[c]] = "open"
  BY <1>1, WordsMean
<1>3. family \in {"card", "pix", "upi"} => ref[c][1] = "authorize"
  <2>1. CASE family = "card"
    BY <1>1, <2>1 DEF IInv, References, Named
  <2>2. CASE family \in {"pix", "upi"}
    <3>1. PICK d \in Calls : Asks(d) /\ Key(d) = ref[c]
      BY <1>1 DEF IInv, Books
    <3>2. op[d] \in {"authorize", "refund"}
      BY <2>2, <3>1 DEF Asks, Polls, Ops
    <3>3. ref[c][1] = op[d]
      BY <3>1, <3>2, KeyOfRequest DEF Ops
    <3>. QED
      BY <2>2, <3>2, <3>3 DEF Found
  <2>. QED
    BY <2>1, <2>2
<1>4. ASSUME family \in {"card", "pix", "upi"}, MapStatus(word) = "captured"
      PROVE  MoneyTaken
  <2>1. ref[c] \in Debits
    BY <1>1, <1>2, <1>3, <1>4 DEF Debits, OnBooks
  <2>. QED
    BY <1>2, <1>4, <2>1 DEF MoneyTaken
<1>5. Truthful(op[c], MapStatus(word), ref[c])
  BY <1>1, <1>2, <1>4 DEF Truthful, OnBooks, Polls
<1>. QED
  BY <1>2, <1>4, <1>5

LEMMA PollStep ==
  ASSUME IInv, NEW c \in Calls, Poll(c)
  PROVE  IInv'
<1>1. /\ pc[c] = "call" /\ op[c] \in Ops /\ Polls(c) /\ family \in Families
      /\ UNCHANGED <<rail, row, log, dbErrors>>
  BY DEF Poll, IInv, TypeOK, Positions
<1>2. MapCode \subseteq Errors /\ MapErr(TRUE) \subseteq Errors
  BY <1>1, ErrorCodes
<1>3. CASE PollFails(c)
  <2>1. CASE op[c] = "status" /\ Leave(c)
    BY <1>1, <2>1, LeaveStep
  <2>2. CASE op[c] # "status" /\ Fail(c, ref[c], MapErr(TRUE)) /\ UNCHANGED op
    BY <1>1, <1>2, <2>2, PollFailsStep
  <2>. QED
    BY <1>3, <2>1, <2>2 DEF PollFails
<1>4. CASE /\ Found(ref[c])
           /\ \E word \in Words(orders[ref[c]]) : Polled(c, word)
           /\ UNCHANGED op
  <2>1. PICK word \in Words(orders[ref[c]]) : Polled(c, word)
    BY <1>4
  <2>2. PICK status : status = MapStatus(word)
    OBVIOUS
  <2>3. /\ status \in Statuses
        /\ Truthful(op[c], status, ref[c])
        /\ family \in {"card", "pix", "upi"} /\ status = "captured" => MoneyTaken
    BY <1>1, <1>4, <2>2, FoundIsTrue
  <2>4. CASE Succeed(c, MapStatus(word), ref[c])
    BY <1>1, <1>4, <2>2, <2>3, <2>4, PollSucceeds
  <2>5. CASE op[c] = "capture" /\ Fail(c, ref[c], MapCode)
    BY <1>1, <1>2, <1>4, <2>5, PollFailsStep
  <2>6. CASE Succeed(c, "failed", ref[c])
    <3>1. "failed" \in Statuses /\ Truthful(op[c], "failed", ref[c])
      BY DEF Statuses, Truthful
    <3>. QED
      BY <1>1, <1>4, <2>6, <3>1, PollSucceeds
  <2>7. CASE /\ family = "ach"
             /\ \E e \in MapCode :
                   Does(c, Writes(c, "failed", ref[c]), "failed", ref[c], e, FALSE)
    <3>1. PICK e \in Errors :
             Does(c, Writes(c, "failed", ref[c]), "failed", ref[c], e, FALSE)
      BY <1>2, <2>7
    <3>2. Concludes(c, "failed", ref[c], e, FALSE)
      BY <1>1, <3>1, WritesPlanned DEF Concludes
    <3>3. PICK r : r = ref[c]
      OBVIOUS
    <3>4. "failed" \in Statuses
      BY DEF Statuses
    <3>. QED
      BY <1>1, <1>4, <3>2, <3>3, <3>4, PollConcludes
  <2>. QED
    BY <1>1, <2>1, <2>4, <2>5, <2>6, <2>7
    DEF Polled, CardPolled, AchPolled, SepaPolled, PixPolled, UpiPolled, Families
<1>. QED
  BY <1>3, <1>4 DEF Poll

-----------------------------------------------------------------------------
(* Writing and announcing                                                    *)

\* What a write makes of the row, if it does not fail.
LEMMA AppliedRow ==
  ASSUME IInv, NEW c \in Calls, op[c] \in Ops, NEW w \in Planned(c)
  PROVE  \/ /\ op[c] # "status" /\ w.how = "Upsert"
            /\ Applied(w) = Row(c, answer[c].status, answer[c].ref)
         \/ /\ w.how = "SetStatus" /\ Known
            /\ Applied(w) = [row EXCEPT !.status = answer[c].status]
         \/ w.how = "SetStatus" /\ ~Known /\ Applied(w) = row
<1>1. CASE w = SetStatus(c, answer[c].status, answer[c].ref)
  BY <1>1 DEF SetStatus, Row, Applied
<1>2. CASE op[c] # "status" /\ w = Upsert(c, answer[c].status, answer[c].ref)
  BY <1>2 DEF Upsert, Applied
<1>. QED
  BY <1>1, <1>2 DEF Planned, PlannedFor

\* Taking the first element of a sequence leaves its last one, if there is another.
LEMMA TailFacts ==
  ASSUME NEW S, NEW s \in Seq(S), s # <<>>
  PROVE  /\ Head(s) \in S /\ Tail(s) \in Seq(S)
         /\ Len(s) \in Nat \ {0} /\ Len(Tail(s)) = Len(s) - 1
         /\ Tail(s) = <<>> <=> Len(s) = 1
         /\ Tail(s) # <<>> => Tail(s)[Len(Tail(s))] = s[Len(s)]
         /\ Len(s) = 1 => Head(s) = s[Len(s)]
<1>1. /\ Head(s) \in S /\ Tail(s) \in Seq(S)
      /\ Len(s) \in Nat \ {0} /\ Len(Tail(s)) = Len(s) - 1
      /\ \A i \in 1 .. Len(Tail(s)) : Tail(s)[i] = s[i + 1]
  BY HeadTailProperties, EmptySeq
<1>2. Tail(s) = <<>> <=> Len(s) = 1
  <2>1. Tail(s) # <<>> => Len(Tail(s)) # 0
    BY <1>1, EmptySeq
  <2>2. Tail(s) = <<>> => Len(Tail(s)) = 0
    BY EmptySeq
  <2>. QED
    BY <1>1, <2>1, <2>2
<1>3. Tail(s) # <<>> => Tail(s)[Len(Tail(s))] = s[Len(s)]
  <2>. SUFFICES ASSUME Tail(s) # <<>> PROVE Tail(s)[Len(Tail(s))] = s[Len(s)]
    OBVIOUS
  <2>1. Len(Tail(s)) \in 1 .. Len(Tail(s))
    BY <1>1, <1>2
  <2>. QED
    BY <1>1, <2>1
<1>. QED
  BY <1>1, <1>2, <1>3

LEMMA WriteStep ==
  ASSUME IInv, NEW c \in Calls, Write(c)
  PROVE  IInv'
<1>. DEFINE w == Head(todo[c])
<1>1. /\ pc[c] = "write" /\ todo[c] # <<>> /\ op[c] \in Ops /\ c \notin log
      /\ UNCHANGED <<rail, op, ref, answer, told, log>>
      /\ todo' = [todo EXCEPT ![c] = Tail(@)]
      /\ pc' = [pc EXCEPT ![c] = IF Len(todo[c]) = 1 /\ ~told[c] THEN "done" ELSE "write"]
  BY DEF Write, Goto, IInv, Positions
<1>2. /\ w \in Planned(c) /\ Tail(todo[c]) \in Seq(Planned(c))
      /\ Len(Tail(todo[c])) = Len(todo[c]) - 1 /\ Len(todo[c]) \in Nat \ {0}
      /\ Tail(todo[c]) \in Seq(WriteCalls)
      /\ Tail(todo[c]) = <<>> <=> Len(todo[c]) = 1
      /\ Tail(todo[c]) # <<>> =>
            Tail(todo[c])[Len(Tail(todo[c]))] = todo[c][Len(todo[c])]
      /\ Len(todo[c]) = 1 => w = todo[c][Len(todo[c])]
  <2>1. todo[c] \in Seq(Planned(c)) /\ todo[c] \in Seq(WriteCalls)
    BY DEF IInv, Plans, TypeOK
  <2>. QED
    BY <1>1, <2>1, TailFacts
<1>. HIDE DEF w
<1>3. \/ /\ UNCHANGED dbErrors
         /\ \/ /\ op[c] # "status" /\ w.how = "Upsert"
               /\ row' = Row(c, answer[c].status, answer[c].ref)
            \/ /\ w.how = "SetStatus" /\ Known
               /\ row' = [row EXCEPT !.status = answer[c].status]
            \/ w.how = "SetStatus" /\ ~Known /\ row' = row
      \/ dbErrors' = dbErrors + 1 /\ dbErrors < MaxDbErrors /\ UNCHANGED row
  BY <1>1, <1>2, AppliedRow DEF Write, Works, Fails, w
<1>4. answer[c].status \in Statuses /\ answer[c].ref \in Refs /\ answer[c].error \in Errors
  BY DEF IInv, TypeOK
<1>5. /\ row' \in Rows \cup {NoRow}
      /\ row'.ref \in {row.ref, answer[c].ref}
      /\ row'.status \in {row.status, answer[c].status}
  <2>1. Row(c, answer[c].status, answer[c].ref) \in Rows \/ op[c] = "status"
    BY <1>1, <1>4, RowTyped
  <2>2. Known => [row EXCEPT !.status = answer[c].status] \in Rows
    BY <1>4 DEF IInv, TypeOK, Known, Rows
  <2>3. row \in Rows \cup {NoRow}
    BY DEF IInv, TypeOK
  <2>4. /\ Row(c, answer[c].status, answer[c].ref).ref = answer[c].ref
        /\ Row(c, answer[c].status, answer[c].ref).status = answer[c].status
    BY DEF Row
  <2>5. Known => /\ [row EXCEPT !.status = answer[c].status].ref = row.ref
                 /\ [row EXCEPT !.status = answer[c].status].status = answer[c].status
    BY <2>3 DEF Known, Rows
  <2>. QED
    BY <1>3, <2>1, <2>2, <2>3, <2>4, <2>5
<1>6. \A d \in Calls :
         /\ Key(d)' = Key(d) /\ Polls(d)' = Polls(d) /\ Asks(d)' = Asks(d)
         /\ Asked(d)' = Asked(d) /\ Answered(d)' = Answered(d)
         /\ CodeInAnswer(d)' = CodeInAnswer(d) /\ Planned(d)' = Planned(d)
  <2>. SUFFICES ASSUME NEW d \in Calls
       PROVE  /\ Key(d)' = Key(d) /\ Polls(d)' = Polls(d) /\ Asks(d)' = Asks(d)
              /\ Asked(d)' = Asked(d) /\ Answered(d)' = Answered(d)
              /\ CodeInAnswer(d)' = CodeInAnswer(d) /\ Planned(d)' = Planned(d)
    OBVIOUS
  <2>1. Key(d)' = Key(d) /\ Polls(d)' = Polls(d)
    BY <1>1 DEF Key, Polls, rail
  <2>2. Asks(d)' = Asks(d) /\ Answered(d)' = Answered(d)
    BY <1>1, <2>1 DEF Asks, Answered, IInv, TypeOK
  <2>3. Asked(d)' = Asked(d) /\ CodeInAnswer(d)' = CodeInAnswer(d)
    BY <1>1, <2>1 DEF Asked, CodeInAnswer, rail
  <2>4. Planned(d)' = Planned(d)
    BY <1>1, <2>1 DEF Planned, PlannedFor, SetStatus, Upsert, Row
  <2>. QED
    BY <2>1, <2>2, <2>3, <2>4
<1>7. TypeOK'
  <2>1. dbErrors' \in 0 .. MaxDbErrors
    BY <1>3, Bounds DEF IInv, TypeOK
  <2>. QED
    BY <1>1, <1>2, <1>5, <2>1 DEF IInv, TypeOK, rail
<1>8. Positions'
  BY <1>1, <1>2 DEF IInv, TypeOK, Positions
<1>9. Plans'
  <2>1. EndsInUpsert(c, todo[c])'
    BY <1>1, <1>2 DEF IInv, TypeOK, Plans, EndsInUpsert
  <2>. QED
    BY <1>1, <1>2, <1>6, <2>1 DEF IInv, TypeOK, Plans, EndsInUpsert
<1>10. Books'
  BY <1>1, <1>6 DEF IInv, Books, rail, MoneyTaken, Debits, OnBooks
<1>11. References'
  BY <1>1, <1>5 DEF IInv, References, Named, rail
<1>12. HonestCalls'
  BY <1>1, <1>6 DEF IInv, HonestCalls, Honest, Truthful, rail, MoneyTaken, Debits, OnBooks
<1>13. CapturedAnswers'
  BY <1>1, <1>5 DEF IInv, CapturedAnswers, rail, MoneyTaken, Debits, OnBooks
<1>14. DeclinedOrders'
  BY <1>1, <1>6 DEF IInv, DeclinedOrders, rail, OnBooks
<1>15. RowOfCalls'
  <2>. SUFFICES ASSUME Known', dbErrors' = 0 PROVE RowOfCalls'
    BY DEF RowOfCalls
  <2>1. dbErrors = 0 /\ UNCHANGED dbErrors
    BY <1>3 DEF IInv, TypeOK
  <2>2. Answered(c)'
    BY <1>1, <1>6 DEF Answered
  <2>3. CASE /\ op[c] # "status" /\ w.how = "Upsert"
             /\ row' = Row(c, answer[c].status, answer[c].ref)
    BY <1>1, <1>6, <2>2, <2>3 DEF RowOfCalls, Row
  <2>4. CASE /\ w.how = "SetStatus" /\ Known
             /\ row' = [row EXCEPT !.status = answer[c].status]
    <3>1. PICK x \in Calls :
             /\ Answered(x) /\ op[x] # "status"
             /\ row.op = op[x] /\ row.key = Key(x) /\ row.ref = answer[x].ref
      BY <2>1, <2>4 DEF IInv, RowOfCalls
    <3>2. /\ row'.op = op[x] /\ row'.key = Key(x) /\ row'.ref = answer[x].ref
          /\ row'.status = answer[c].status
      BY <2>4, <3>1 DEF IInv, TypeOK, Rows, Known
    <3>3. CASE op[c] = "status"
      BY <1>1, <1>6, <2>2, <3>1, <3>2, <3>3 DEF RowOfCalls
    <3>4. CASE op[c] # "status"
      <4>1. Tail(todo[c]) # <<>>
        BY <1>1, <1>2, <2>4, <3>4 DEF IInv, Plans, EndsInUpsert
      <4>2. todo'[c] # <<>>
        BY <1>1, <4>1 DEF IInv, TypeOK
      <4>. QED
        BY <1>1, <1>6, <3>1, <3>2, <3>4, <4>2 DEF RowOfCalls
    <3>. QED
      BY <3>3, <3>4
  <2>5. ASSUME w.how = "SetStatus", ~Known, row' = row PROVE FALSE
    BY <2>5 DEF Known
  <2>. QED
    BY <1>3, <2>1, <2>3, <2>4, <2>5 DEF IInv, TypeOK
<1>16. IsFiniteSet(Begun)'
  <2>1. Begun' = Begun
    BY <1>1 DEF Begun, IInv, TypeOK
  <2>. QED
    BY <2>1 DEF IInv
<1>. QED
  BY <1>7, <1>8, <1>9, <1>10, <1>11, <1>12, <1>13, <1>14, <1>15, <1>16 DEF IInv

\* Only a call that has something to tell is left to finish.
LEMMA FinishStep ==
  ASSUME IInv, NEW c \in Calls, Finish(c)
  PROVE  IInv'
<1>1. /\ pc[c] = "write" /\ todo[c] = <<>> /\ op[c] \in Ops \ {"status"} /\ told[c]
      /\ log' = log \cup {c}
      /\ told' = [told EXCEPT ![c] = FALSE]
      /\ pc' = [pc EXCEPT ![c] = "done"]
      /\ UNCHANGED <<rail, row, op, ref, todo, answer, dbErrors>>
  BY DEF Finish, Goto, IInv, Positions
<1>2. \A d \in Calls :
         /\ Key(d)' = Key(d) /\ Polls(d)' = Polls(d) /\ Asks(d)' = Asks(d)
         /\ Asked(d)' = Asked(d) /\ Answered(d)' = Answered(d)
         /\ CodeInAnswer(d)' = CodeInAnswer(d) /\ Planned(d)' = Planned(d)
  <2>. SUFFICES ASSUME NEW d \in Calls
       PROVE  /\ Key(d)' = Key(d) /\ Polls(d)' = Polls(d) /\ Asks(d)' = Asks(d)
              /\ Asked(d)' = Asked(d) /\ Answered(d)' = Answered(d)
              /\ CodeInAnswer(d)' = CodeInAnswer(d) /\ Planned(d)' = Planned(d)
    OBVIOUS
  <2>1. Key(d)' = Key(d) /\ Polls(d)' = Polls(d)
    BY <1>1 DEF Key, Polls, rail
  <2>2. Asks(d)' = Asks(d) /\ Answered(d)' = Answered(d)
    BY <1>1, <2>1 DEF Asks, Answered, IInv, TypeOK
  <2>3. Asked(d)' = Asked(d) /\ CodeInAnswer(d)' = CodeInAnswer(d)
    BY <1>1, <2>1 DEF Asked, CodeInAnswer, rail
  <2>4. Planned(d)' = Planned(d)
    BY <1>1, <2>1 DEF Planned, PlannedFor, SetStatus, Upsert, Row
  <2>. QED
    BY <2>1, <2>2, <2>3, <2>4
<1>3. TypeOK'
  BY <1>1 DEF IInv, TypeOK, rail
<1>4. Positions'
  BY <1>1 DEF IInv, TypeOK, Positions
<1>5. Plans'
  BY <1>1, <1>2 DEF IInv, Plans, EndsInUpsert
<1>6. Books' /\ References'
  BY <1>1, <1>2 DEF IInv, Books, References, Named, rail, MoneyTaken, Debits, OnBooks
<1>7. HonestCalls'
  BY <1>1, <1>2 DEF IInv, TypeOK, HonestCalls, Honest, Truthful, rail, MoneyTaken, Debits,
     OnBooks
<1>8. CapturedAnswers' /\ DeclinedOrders'
  BY <1>1, <1>2 DEF IInv, CapturedAnswers, DeclinedOrders, rail, MoneyTaken, Debits, OnBooks
<1>9. RowOfCalls'
  BY <1>1, <1>2 DEF IInv, RowOfCalls, Known
<1>10. IsFiniteSet(Begun)'
  <2>1. Begun' = Begun
    BY <1>1 DEF Begun, IInv, TypeOK
  <2>. QED
    BY <2>1 DEF IInv
<1>. QED
  BY <1>3, <1>4, <1>5, <1>6, <1>7, <1>8, <1>9, <1>10 DEF IInv

\* Time on the rail undoes nothing that a call has been told.
LEMMA RailProgressStep ==
  ASSUME IInv, RailProgress
  PROVE  IInv'
<1>1. /\ Evolve /\ DOMAIN orders' = DOMAIN orders
      /\ UNCHANGED <<family, row, pc, op, ref, todo, answer, told, log, dbErrors>>
  BY ProgressEvolves DEF RailProgress, plan, IInv
<1>2. \A d \in Calls :
         /\ Key(d)' = Key(d) /\ Polls(d)' = Polls(d) /\ Asks(d)' = Asks(d)
         /\ Asked(d)' = Asked(d) /\ Answered(d)' = Answered(d)
         /\ CodeInAnswer(d)' = CodeInAnswer(d) /\ Planned(d)' = Planned(d)
  BY <1>1 DEF Key, Polls, Asks, Asked, Answered, CodeInAnswer, Planned, PlannedFor,
     SetStatus, Upsert, Row
<1>3. TypeOK'
  BY <1>1 DEF IInv, TypeOK, Evolve
<1>4. Positions' /\ Plans'
  BY <1>1, <1>2 DEF IInv, Positions, Plans, EndsInUpsert
<1>5. Books'
  <2>. SUFFICES ASSUME NEW k \in DOMAIN orders
       PROVE  /\ \E c \in Calls : Asks(c)' /\ Key(c)' = k
              /\ family' \in {"ach", "sepa"} => orders'[k] # "refused"
              /\ family' = "card" /\ k[1] = "capture" =>
                    orders'[k] \in {"taken", "repaid"} /\ MoneyTaken'
    BY <1>1 DEF Books
  <2>1. \E c \in Calls : Asks(c)' /\ Key(c)' = k
    BY <1>2 DEF IInv, Books
  <2>2. family' = "card" /\ k[1] = "capture" =>
           orders'[k] \in {"taken", "repaid"} /\ MoneyTaken'
    BY <1>1, MoneyStaysTaken DEF IInv, Books, Evolve
  <2>. QED
    BY <1>1, <2>1, <2>2 DEF IInv, Books, Evolve
<1>6. References'
  BY <1>1, NamedStays DEF IInv, References, Named
<1>7. HonestCalls'
  BY <1>1, <1>2, TruthStays DEF IInv, HonestCalls, Honest, Truthful
<1>8. CapturedAnswers'
  BY <1>1, MoneyStaysTaken DEF IInv, CapturedAnswers
<1>9. DeclinedOrders'
  <2>. SUFFICES ASSUME NEW c \in Calls, Asks(c), answer[c].error = "declined",
                       ~CodeInAnswer(c), OnBooks(Key(c))', orders'[Key(c)] # "returned"
       PROVE  \E d \in Calls \ {c} : Asks(d) /\ Key(d) = Key(c)
    BY <1>1, <1>2 DEF DeclinedOrders
  <2>1. OnBooks(Key(c)) /\ orders[Key(c)] # "returned"
    BY <1>1, <1>2, OnBooksStays DEF Evolve, OnBooks
  <2>. QED
    BY <2>1 DEF IInv, DeclinedOrders
<1>10. RowOfCalls' /\ IsFiniteSet(Begun)'
  BY <1>1, <1>2 DEF IInv, RowOfCalls, Known, Begun
<1>. QED
  BY <1>3, <1>4, <1>5, <1>6, <1>7, <1>8, <1>9, <1>10 DEF IInv

\* Every step of a call and of the rail keeps the invariant.
LEMMA NextInv == IInv /\ [Next]_vars => IInv'
<1>. SUFFICES ASSUME IInv, [Next]_vars PROVE IInv'
  OBVIOUS
<1>1. ASSUME NEW c \in Calls, Step(c) PROVE IInv'
  BY <1>1, BeginStep, ReadStep, RejectStep, SubmitStep, PollStep, WriteStep, FinishStep
  DEF Step
<1>2. CASE RailProgress
  BY <1>2, RailProgressStep
<1>3. CASE UNCHANGED vars
  <2>1. /\ UNCHANGED <<family, orders, row, pc, op, ref, todo, answer, told, log, dbErrors>>
        /\ \A d \in Calls :
              /\ Key(d)' = Key(d) /\ Polls(d)' = Polls(d) /\ Asks(d)' = Asks(d)
              /\ Asked(d)' = Asked(d) /\ Answered(d)' = Answered(d)
              /\ CodeInAnswer(d)' = CodeInAnswer(d) /\ Planned(d)' = Planned(d)
    BY <1>3 DEF vars, Key, Polls, Asks, Asked, Answered, CodeInAnswer, Planned, PlannedFor,
       SetStatus, Upsert, Row
  <2>2. TypeOK' /\ Positions' /\ Plans'
    BY <2>1 DEF IInv, TypeOK, Positions, Plans, EndsInUpsert
  <2>3. Books' /\ References'
    BY <2>1 DEF IInv, Books, References, Named, MoneyTaken, Debits, OnBooks
  <2>4. HonestCalls' /\ CapturedAnswers' /\ DeclinedOrders'
    BY <2>1 DEF IInv, HonestCalls, Honest, Truthful, CapturedAnswers, DeclinedOrders,
       MoneyTaken, Debits, OnBooks
  <2>5. RowOfCalls' /\ IsFiniteSet(Begun)'
    BY <2>1 DEF IInv, RowOfCalls, Known, Begun
  <2>. QED
    BY <2>2, <2>3, <2>4, <2>5 DEF IInv
<1>. QED
  BY <1>1, <1>2, <1>3 DEF Next

\* The invariant holds however the calls interleave, repeat and fail.
LEMMA Invariance == Spec => []IInv
  BY InitInv, NextInv, PTL DEF Spec

-----------------------------------------------------------------------------
(* What follows from the invariant                                           *)

\* The model's variables keep their types.
THEOREM TypeCorrect == Spec => []TypeOK
<1>1. IInv => TypeOK
  BY DEF IInv
<1>. QED
  BY <1>1, Invariance, PTL

\* Whatever an adapter announced is still true of the order it asked about, on each
\* rail and for any number of concurrent calls.
THEOREM HonestAnnouncements == Spec => []AnnouncementsAreHonest
<1>1. IInv => AnnouncementsAreHonest
  <2>1. IInv => \A c \in log : c \in Calls /\ Honest(c)
    BY DEF IInv, HonestCalls, TypeOK
  <2>. QED
    BY <2>1 DEF Honest, Truthful, AnnouncementsAreHonest
<1>. QED
  BY <1>1, Invariance, PTL

\* No row names an order that the rail has not received, also after lost answers and
\* requests, and where an adapter's own key stands in for a reference.
THEOREM ReferencesAreKnown == Spec => []ReferenceNamesAnOrder
<1>1. IInv => ReferenceNamesAnOrder
  BY DEF IInv, References, Named, ReferenceNamesAnOrder
<1>. QED
  BY <1>1, Invariance, PTL

\* A payment that is stored as captured was paid, by card, PIX and UPI.
THEOREM CapturedWasTaken == Spec => []CapturedMeansTaken
<1>1. IInv => CapturedMeansTaken
  BY DEF IInv, CapturedAnswers, CapturedMeansTaken
<1>. QED
  BY <1>1, Invariance, PTL

\* A request that ended in a decline has no order that could move money, unless
\* another call asked with its key.
THEOREM DeclinedIsFree == Spec => []DeclinedTookNothing
<1>1. IInv => DeclinedTookNothing
  <2>. SUFFICES ASSUME IInv, NEW c \in Calls, pc[c] \in {"write", "done"},
                       answer[c].error = "declined", ~Polls(c), ~CodeInAnswer(c),
                       OnBooks(Key(c)), orders[Key(c)] # "returned"
       PROVE  \E d \in Calls \ {c} : pc[d] \in {"write", "done"} /\ Key(d) = Key(c)
    BY DEF DeclinedTookNothing
  <2>1. PICK x \in Calls : Asks(x) /\ Key(x) = Key(c)
    BY DEF IInv, Books, OnBooks
  <2>2. CASE x = c
    BY <2>1, <2>2 DEF IInv, DeclinedOrders, Asks
  <2>3. CASE x # c
    BY <2>1, <2>3 DEF Asks
  <2>. QED
    BY <2>2, <2>3
<1>. QED
  BY <1>1, Invariance, PTL

\* When no call is between two writes and no statement has failed, the row is what
\* one call answered, or a later status query.
THEOREM RowIsAnswered == Spec => []RowIsOneAnswer
<1>1. IInv => RowIsOneAnswer
  <2>. SUFFICES ASSUME IInv, Known, ~Torn
       PROVE  \E c \in Calls :
                 /\ row.op = op[c] /\ row.key = Key(c) /\ row.ref = answer[c].ref
                 /\ \E d \in Calls : (d = c \/ op[d] = "status") /\ row.status = answer[d].status
    BY DEF RowIsOneAnswer
  <2>1. dbErrors = 0
    BY DEF Torn, IInv, TypeOK
  <2>2. \A e \in Calls : todo[e] = <<>>
    BY DEF Torn, IInv, Positions
  <2>. QED
    BY <2>1, <2>2 DEF IInv, RowOfCalls
<1>. QED
  BY <1>1, Invariance, PTL

\* The values of a function on finitely many arguments are finitely many, and no more.
LEMMA ImageBounds ==
  ASSUME NEW G, IsFiniteSet(G), NEW f, NEW D, D \subseteq {f[g] : g \in G}
  PROVE  IsFiniteSet(D) /\ Cardinality(D) <= Cardinality(G)
<1>. DEFINE I == {f[g] : g \in G}
<1>1. [g \in G |-> f[g]] \in Surjection(G, I)
  BY DEF Surjection
<1>2. IsFiniteSet(I) /\ Cardinality(I) <= Cardinality(G)
  BY <1>1, FS_Surjection
<1>3. IsFiniteSet(D) /\ Cardinality(D) <= Cardinality(I)
  BY <1>2, FS_Subset
<1>. QED
  BY <1>2, <1>3, FS_CardinalityType

\* Every order has the key of a call that asked for it.
LEMMA OrdersHaveKeys ==
  ASSUME IInv, NEW k \in DOMAIN orders
  PROVE  \E c \in Doing(k[1]) :
            /\ op[c] \in Ops \ {"status"}
            /\ k = <<k[1], IF KeyOf[c] # 0 THEN KeyOf[c]
                           ELSE IF k[1] = "authorize" THEN AttemptOf[c] ELSE 1>>
<1>1. PICK c \in Calls : Asks(c) /\ Key(c) = k
  BY DEF IInv, Books
<1>2. op[c] \in Ops \ {"status"}
  BY <1>1 DEF Asks, Polls
<1>. QED
  BY <1>1, <1>2, KeyOfRequest DEF Doing

\* What calls do, finitely many do.
LEMMA FewDo ==
  ASSUME IInv, NEW what \in Ops
  PROVE  /\ IsFiniteSet(Doing(what))
         /\ IsFiniteSet({KeyOf[c] : c \in Doing(what)})
         /\ IsFiniteSet({Given(c) : c \in Doing(what)})
<1>1. Doing(what) \subseteq Begun
  BY DEF IInv, Positions, Doing, Begun, Ops
<1>2. IsFiniteSet(Doing(what))
  BY <1>1, FS_Subset DEF IInv
<1>3. IsFiniteSet({KeyOf[c] : c \in Doing(what)})
  BY <1>2, ImageBounds
<1>. DEFINE given == [c \in Doing(what) |-> Given(c)]
<1>4. {Given(c) : c \in Doing(what)} \subseteq {given[c] : c \in Doing(what)}
  OBVIOUS
<1>. HIDE DEF given
<1>5. IsFiniteSet({Given(c) : c \in Doing(what)})
  BY <1>2, <1>4, ImageBounds
<1>. QED
  BY <1>2, <1>3, <1>5

\* Orders of captures or of refunds are no more than the keys these are given, the
\* lack of one counted as one.
LEMMA OnePerKey ==
  ASSUME IInv, NEW what \in {"capture", "refund"},
         NEW D, D \subseteq {k \in DOMAIN orders : k[1] = what}
  PROVE  Cardinality(D) <= Cardinality({KeyOf[c] : c \in Doing(what)})
<1>. DEFINE G == {KeyOf[c] : c \in Doing(what)}
            f == [g \in G |-> <<what, IF g # 0 THEN g ELSE 1>>]
<1>1. IsFiniteSet(G)
  BY FewDo DEF Ops
<1>2. ASSUME NEW k \in D PROVE \E g \in G : k = f[g]
  <2>1. PICK c \in Doing(what) : k = <<what, IF KeyOf[c] # 0 THEN KeyOf[c] ELSE 1>>
    BY <1>2, OrdersHaveKeys
  <2>. QED
    BY <2>1
<1>3. D \subseteq {f[g] : g \in G}
  BY <1>2
<1>. HIDE DEF G, f
<1>4. Cardinality(D) <= Cardinality(G)
  BY <1>1, <1>3, ImageBounds
<1>. QED
  BY <1>4 DEF G

\* Those of authorizations are no more than the keys and attempts these are given.
LEMMA OnePerAttempt ==
  ASSUME IInv, NEW D, D \subseteq {k \in DOMAIN orders : k[1] = "authorize"}
  PROVE  Cardinality(D) <= Cardinality({Given(c) : c \in Doing("authorize")})
<1>. DEFINE G == {Given(c) : c \in Doing("authorize")}
            f == [g \in G |-> <<"authorize", IF g[1] # 0 THEN g[1] ELSE g[2]>>]
<1>1. IsFiniteSet(G)
  BY FewDo DEF Ops
<1>2. ASSUME NEW k \in D PROVE \E g \in G : k = f[g]
  <2>1. PICK c \in Doing("authorize") :
           k = <<"authorize", IF KeyOf[c] # 0 THEN KeyOf[c] ELSE AttemptOf[c]>>
    BY <1>2, OrdersHaveKeys
  <2>2. Given(c) \in G
    OBVIOUS
  <2>3. f[Given(c)] = k
    BY <2>1, <2>2 DEF Given
  <2>. QED
    BY <2>2, <2>3
<1>3. D \subseteq {f[g] : g \in G}
  BY <1>2
<1>. HIDE DEF G, f
<1>4. Cardinality(D) <= Cardinality(G)
  BY <1>1, <1>3, ImageBounds
<1>. QED
  BY <1>4 DEF G

\* For any set of calls, finite or not, the payer is charged once per key that
\* authorizations are given, or attempt of those given none (ACH: once per key that
\* captures are given), and refunded once per key that refunds are given.
THEOREM ChargedOnce == Spec => []MoneyMovesOnce
<1>1. ASSUME IInv PROVE MoneyMovesOnce
  <2>1. Cardinality(Refunds) <= Cardinality({KeyOf[c] : c \in Doing("refund")})
    BY <1>1, OnePerKey DEF Refunds
  <2>2. CASE family = "ach"
    <3>1. Cardinality(Debits) <= Cardinality({KeyOf[c] : c \in Doing("capture")})
      BY <1>1, <2>2, OnePerKey DEF Debits
    <3>. QED
      BY <2>1, <2>2, <3>1 DEF MoneyMovesOnce
  <2>3. CASE family # "ach"
    <3>1. Cardinality(Debits) <= Cardinality({Given(c) : c \in Doing("authorize")})
      BY <1>1, <2>3, OnePerAttempt DEF Debits
    <3>. QED
      BY <2>1, <2>3, <3>1 DEF MoneyMovesOnce
  <2>. QED
    BY <2>2, <2>3
<1>. QED
  BY <1>1, Invariance, PTL

=============================================================================
