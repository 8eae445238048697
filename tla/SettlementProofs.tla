-------------------------- MODULE SettlementProofs --------------------------
(***************************************************************************)
(* Proofs about Settlement for any passes, disputes, payments and files,   *)
(* any number of restarts and of failing statements, on either store.      *)
(***************************************************************************)
EXTENDS Settlement, SumLemmas, SequenceTheorems, TLAPS

\* A pass has nothing before its file arrives, and an entry while it works.
PassPositions ==
    \A x \in Passes :
        /\ pc[x] = "idle" => log[x] = <<>> /\ input[x] = <<>> /\ todo[x] = <<>>
        /\ pc[x] \in PassSteps => todo[x] # <<>>

\* A dispute tells the log once, as its last step.
DisputePositions ==
    \A d \in Disputes :
        /\ pc[d] = "done" => Len(log[d]) = 1
        /\ pc[d] # "done" => log[d] = <<>>

\* What a pass is about to announce has been booked.
AboutToAnnounce ==
    Trusted => \A x \in Passes : pc[x] = "emit" => Booked(Entry(x).pid)

\* A dispute that goes on from its record has added the chargeback.
Recorded ==
    \A d \in Disputes :
        /\ pc[d] \in {"mark", "save", "tell"} /\ dbErrors = 0 => Charged(PaymentOf[d])
        /\ pc[d] = "done" /\ Trusted => Charged(PaymentOf[d])

PassInv ==
    /\ PassPositions
    /\ ResultsFollowFile
    /\ SettledOnceAndAnnounced
    /\ CompletedIsBooked
    /\ AboutToAnnounce

DisputeInv == DisputePositions /\ Recorded

IInv == TypeOK /\ PassInv /\ DisputeInv /\ StatusHasRecord

-----------------------------------------------------------------------------
(* Sequences *)

\* What an appended sequence holds.
LEMMA Appended ==
  ASSUME NEW S, NEW s \in Seq(S), NEW e \in S
  PROVE  /\ Append(s, e) \in Seq(S)
         /\ Len(s) \in Nat
         /\ Len(Append(s, e)) = Len(s) + 1
         /\ DOMAIN s = 1 .. Len(s)
         /\ DOMAIN Append(s, e) = 1 .. Len(s) + 1
         /\ \A i \in 1 .. Len(s) : Append(s, e)[i] = s[i]
         /\ Append(s, e)[Len(s) + 1] = e
  OBVIOUS

\* An entry of an accepted file is one of EntrySet.
LEMMA EntriesOfFile ==
  ASSUME NEW f \in Files, Accepts(f)
  PROVE  Entries(f) \in Seq(EntrySet)
<1>1. Entries(f) \in Seq([pid : Payments, amount : Int])
  BY SettlementAssumption
<1>2. \A i \in DOMAIN Entries(f) : Entries(f)[i] \in EntrySet
  BY DEF EntrySet, ToSet
<1>. QED
  BY <1>1, <1>2, LenProperties

\* Reporting the head of what is left keeps the results and the rest in the
\* order of the file.
LEMMA ReportHead ==
  ASSUME NEW done \in Seq(Results), NEW rest \in Seq(EntrySet), rest # <<>>,
         NEW r \in Results, r.entry = Head(rest)
  PROVE  EntriesOf(done) \o rest = EntriesOf(Append(done, r)) \o Tail(rest)
<1>. DEFINE before == EntriesOf(done)
            after == EntriesOf(Append(done, r))
<1>. USE DEF EntriesOf
<1>entries. \A q \in Results : q.entry \in EntrySet
  BY DEF Results
<1>0. /\ Len(done) \in Nat /\ DOMAIN done = 1 .. Len(done)
      /\ \A i \in 1 .. Len(done) : done[i] \in Results
  BY LenProperties, ElementOfSeq
<1>1. before \in Seq(EntrySet) /\ Len(before) = Len(done)
  <2>1. before \in [1 .. Len(done) -> EntrySet]
    BY <1>0, <1>entries
  <2>. QED
    BY <1>0, <2>1
<1>2. after \in Seq(EntrySet) /\ Len(after) = Len(done) + 1
  <2>1. /\ DOMAIN Append(done, r) = 1 .. Len(done) + 1
        /\ \A i \in 1 .. Len(done) + 1 : Append(done, r)[i] \in Results
    BY <1>0, Appended, ElementOfSeq
  <2>2. after \in [1 .. Len(done) + 1 -> EntrySet]
    BY <1>entries, <2>1
  <2>. QED
    BY <1>0, <2>2
<1>3. /\ \A i \in 1 .. Len(done) : after[i] = before[i]
      /\ after[Len(done) + 1] = rest[1]
  <2>1. Head(rest) = rest[1]
    BY EmptySeq
  <2>2. /\ \A i \in 1 .. Len(done) : Append(done, r)[i] = done[i]
        /\ Append(done, r)[Len(done) + 1] = r
        /\ DOMAIN Append(done, r) = 1 .. Len(done) + 1
    BY Appended
  <2>3. /\ before = [i \in 1 .. Len(done) |-> done[i].entry]
        /\ after = [i \in 1 .. Len(done) + 1 |-> Append(done, r)[i].entry]
    BY <1>0, <2>2
  <2>. HIDE DEF before, after
  <2>4. ASSUME NEW i \in 1 .. Len(done) PROVE after[i] = before[i]
    BY <1>0, <2>2, <2>3
  <2>5. after[Len(done) + 1] = rest[1]
    BY <1>0, <2>1, <2>2, <2>3
  <2>. QED
    BY <2>4, <2>5
<1>. HIDE DEF before, after, EntriesOf
<1>4. /\ Tail(rest) \in Seq(EntrySet) /\ Len(Tail(rest)) = Len(rest) - 1
      /\ \A i \in 1 .. Len(Tail(rest)) : Tail(rest)[i] = rest[i + 1]
      /\ Len(rest) \in Nat \ {0}
  BY HeadTailProperties, EmptySeq
<1>5. /\ before \o rest \in Seq(EntrySet) /\ Len(before \o rest) = Len(done) + Len(rest)
      /\ \A i \in 1 .. Len(done) + Len(rest) :
            (before \o rest)[i] = IF i <= Len(done) THEN before[i] ELSE rest[i - Len(done)]
  <2>1. /\ before \o rest \in Seq(EntrySet)
        /\ Len(before \o rest) = Len(before) + Len(rest)
        /\ \A i \in 1 .. Len(before) + Len(rest) :
              (before \o rest)[i] =
                 IF i <= Len(before) THEN before[i] ELSE rest[i - Len(before)]
    BY <1>1, ConcatProperties
  <2>. QED
    BY <1>1, <2>1
<1>6. /\ after \o Tail(rest) \in Seq(EntrySet)
      /\ Len(after \o Tail(rest)) = Len(done) + Len(rest)
      /\ \A i \in 1 .. Len(done) + Len(rest) :
            (after \o Tail(rest))[i] =
               IF i <= Len(done) + 1 THEN after[i] ELSE Tail(rest)[i - (Len(done) + 1)]
  <2>1. /\ after \o Tail(rest) \in Seq(EntrySet)
        /\ Len(after \o Tail(rest)) = Len(after) + Len(Tail(rest))
        /\ \A i \in 1 .. Len(after) + Len(Tail(rest)) :
              (after \o Tail(rest))[i] =
                 IF i <= Len(after) THEN after[i] ELSE Tail(rest)[i - Len(after)]
    BY <1>2, <1>4, ConcatProperties
  <2>2. Len(after) + Len(Tail(rest)) = Len(done) + Len(rest)
    BY <1>0, <1>2, <1>4
  <2>. QED
    BY <1>2, <2>1, <2>2
<1>7. ASSUME NEW i \in 1 .. Len(done) + Len(rest)
      PROVE  (before \o rest)[i] = (after \o Tail(rest))[i]
  <2>0. Len(done) \in Nat /\ i \in Int
    BY <1>0, <1>4
  <2>1. CASE i <= Len(done)
    BY <1>3, <1>5, <1>6, <2>0, <2>1
  <2>2. CASE i = Len(done) + 1
    BY <1>3, <1>5, <1>6, <2>0, <2>2
  <2>3. CASE i > Len(done) + 1
    <3>1. /\ i - (Len(done) + 1) \in 1 .. Len(Tail(rest))
          /\ (i - (Len(done) + 1)) + 1 = i - Len(done)
      BY <1>4, <2>0, <2>3
    <3>. QED
      BY <1>4, <1>5, <1>6, <2>0, <2>3, <3>1
  <2>. QED
    <3>1. i <= Len(done) \/ i = Len(done) + 1 \/ i > Len(done) + 1
      BY <2>0
    <3>. QED
      BY <2>1, <2>2, <2>3, <3>1, Zenon
<1>8. before \o rest = after \o Tail(rest)
  BY <1>5, <1>6, <1>7, SeqEqual
<1>. QED
  BY <1>8 DEF before, after

-----------------------------------------------------------------------------
(* The store *)

\* An entry is about a payment of ours.
LEMMA EntryOfPayment == \A e \in EntrySet : e.pid \in Payments
<1>. SUFFICES ASSUME NEW e \in EntrySet PROVE e.pid \in Payments
  OBVIOUS
<1>1. PICK f \in {g \in Files : Accepts(g)} : e \in ToSet(Entries(f))
  BY DEF EntrySet
<1>2. PICK i \in DOMAIN Entries(f) : e = Entries(f)[i]
  BY <1>1 DEF ToSet
<1>3. Entries(f) \in Seq([pid : Payments, amount : Int])
  BY SettlementAssumption
<1>4. e \in [pid : Payments, amount : Int]
  BY <1>2, <1>3, LenProperties, ElementOfSeq
<1>. QED
  BY <1>4

\* A write of one row's status keeps the tables' type and no other row.
LEMMA RowWritten ==
  ASSUME TypeOK, NEW p \in Payments, NEW s \in Statuses, NEW who \in Writers,
         rows' = WithStatus(p, s) \/ rows' = WithRow(p, s),
         Sign(p, who)
  PROVE  /\ DOMAIN rows' \subseteq DOMAIN rows \cup {p}
         /\ DOMAIN rows' \subseteq Payments
         /\ rows' \in [DOMAIN rows' -> Statuses]
         /\ \A q \in DOMAIN rows' : rows'[q] = IF q = p THEN s ELSE rows[q]
         /\ writer' \in [Payments -> Writers]
         /\ \A q \in Payments : writer'[q] = IF q = p THEN who ELSE writer[q]
<1>1. /\ writer' \in [Payments -> Writers]
      /\ \A q \in Payments : writer'[q] = IF q = p THEN who ELSE writer[q]
  BY DEF Sign, TypeOK
<1>2. CASE rows' = WithStatus(p, s)
  BY <1>1, <1>2 DEF WithStatus, Known, TypeOK
<1>3. CASE rows' = WithRow(p, s)
  BY <1>1, <1>3 DEF WithRow, TypeOK
<1>. QED
  BY <1>2, <1>3

\* A statement either works or is counted as failing.
LEMMA Counted ==
  ASSUME TypeOK, Works \/ Fails
  PROVE  /\ dbErrors' \in 0 .. MaxDbErrors
         /\ dbErrors' = 0 => dbErrors = 0
         /\ dbErrors' = 0 => Works
         /\ Fails => store = "postgres" /\ dbErrors' # 0
  BY SettlementAssumption DEF TypeOK, Works, Fails

\* What AddSettle leaves behind: at most one more settlement, its last, and the
\* payment booked unless the transaction failed.
LEMMA SettleAdded ==
  ASSUME TypeOK, NEW e \in EntrySet, AddSettle(e)
  PROVE  /\ settles' \in Seq(EntrySet)
         /\ \/ settles' = settles
            \/ settles' = Append(settles, e) /\ (store = "postgres" => ~Booked(e.pid))
         /\ \A p : Booked(p) => Booked(p)'
         /\ Works => Booked(e.pid)'
         /\ \/ UNCHANGED <<rows, writer>>
            \/ /\ rows' = WithStatus(e.pid, "settled") /\ Sign(e.pid, "pass")
               /\ Booked(e.pid)'
         /\ Works \/ Fails
         /\ UNCHANGED chargebacks
<1>1. /\ Append(settles, e) \in Seq(EntrySet)
      /\ \A i \in DOMAIN settles :
            i \in DOMAIN Append(settles, e) /\ Append(settles, e)[i] = settles[i]
      /\ \E i \in DOMAIN Append(settles, e) : Append(settles, e)[i] = e
  <2>1. settles \in Seq(EntrySet)
    BY DEF TypeOK
  <2>. QED
    BY <2>1, Appended
<1>2. CASE /\ Works
           /\ settles' = IF store = "postgres" /\ Booked(e.pid)
                            THEN settles ELSE Append(settles, e)
           /\ rows' = WithStatus(e.pid, "settled") /\ Sign(e.pid, "pass")
  <2>1. CASE settles' = settles
    BY <1>2, <2>1, <1>1 DEF AddSettle, Booked, TypeOK
  <2>2. CASE settles' = Append(settles, e)
    BY <1>1, <1>2, <2>2 DEF AddSettle, Booked
  <2>. QED
    BY <1>2, <2>1, <2>2
<1>3. CASE Fails /\ UNCHANGED <<rows, writer, settles>>
  BY <1>3 DEF AddSettle, Booked, TypeOK, Works, Fails
<1>. QED
  BY <1>2, <1>3 DEF AddSettle

\* Likewise AddChargeback.
LEMMA ChargebackAdded ==
  ASSUME TypeOK, NEW p \in Payments, AddChargeback(p)
  PROVE  /\ chargebacks' \in Seq(Payments)
         /\ \A q : Charged(q) => Charged(q)'
         /\ Works => Charged(p)'
         /\ \/ UNCHANGED <<rows, writer>>
            \/ /\ rows' = WithStatus(p, "chargeback") /\ Sign(p, "dispute")
               /\ Charged(p)'
         /\ Works \/ Fails
         /\ UNCHANGED settles
<1>1. /\ Append(chargebacks, p) \in Seq(Payments)
      /\ \A i \in DOMAIN chargebacks :
            i \in DOMAIN Append(chargebacks, p) /\ Append(chargebacks, p)[i] = chargebacks[i]
      /\ \E i \in DOMAIN Append(chargebacks, p) : Append(chargebacks, p)[i] = p
  <2>1. chargebacks \in Seq(Payments)
    BY DEF TypeOK
  <2>. QED
    BY <2>1, Appended
<1>2. CASE /\ Works
           /\ chargebacks' = IF store = "postgres" /\ Charged(p)
                                THEN chargebacks ELSE Append(chargebacks, p)
           /\ rows' = WithStatus(p, "chargeback") /\ Sign(p, "dispute")
  <2>1. CASE chargebacks' = chargebacks
    BY <1>2, <2>1, <1>1 DEF AddChargeback, Charged, TypeOK
  <2>2. CASE chargebacks' = Append(chargebacks, p)
    BY <1>1, <1>2, <2>2 DEF AddChargeback, Charged
  <2>. QED
    BY <1>2, <2>1, <2>2
<1>3. CASE Fails /\ UNCHANGED <<rows, writer, chargebacks>>
  BY <1>3 DEF AddChargeback, Charged, TypeOK, Works, Fails
<1>. QED
  BY <1>2, <1>3 DEF AddChargeback

\* A row keeps its record if whoever writes it has one.
LEMMA StatusKept ==
  ASSUME TypeOK, StatusHasRecord, NEW p, NEW s, NEW who,
         \A q : (Booked(q) => Booked(q)') /\ (Charged(q) => Charged(q)'),
         dbErrors' = 0 => dbErrors = 0,
         \/ UNCHANGED <<rows, writer>>
         \/ /\ DOMAIN rows' \subseteq DOMAIN rows \cup {p}
            /\ \A q \in DOMAIN rows' : rows'[q] = IF q = p THEN s ELSE rows[q]
            /\ \A q \in DOMAIN rows' : writer'[q] = IF q = p THEN who ELSE writer[q]
            /\ who = "pass" => s = "settled" /\ Booked(p)'
            /\ who = "dispute" =>
                  s = "failed" \/ (s = "chargeback" /\ (dbErrors' = 0 => Charged(p)'))
  PROVE  StatusHasRecord'
<1>. SUFFICES ASSUME NEW q \in DOMAIN rows'
              PROVE  /\ writer'[q] = "pass" => rows'[q] = "settled" /\ Booked(q)'
                     /\ writer'[q] = "dispute" =>
                           \/ rows'[q] = "failed"
                           \/ rows'[q] = "chargeback" /\ (dbErrors' = 0 => Charged(q)')
  BY DEF StatusHasRecord
<1>1. CASE UNCHANGED <<rows, writer>>
  BY <1>1 DEF StatusHasRecord
<1>2. CASE ~(UNCHANGED <<rows, writer>>) /\ q = p
  BY <1>2
<1>3. CASE ~(UNCHANGED <<rows, writer>>) /\ q # p
  <2>1. q \in DOMAIN rows /\ rows'[q] = rows[q] /\ writer'[q] = writer[q]
    BY <1>3
  <2>. QED
    BY <2>1 DEF StatusHasRecord
<1>. QED
  BY <1>1, <1>2, <1>3

-----------------------------------------------------------------------------
(* What passes and disputes leave of each other *)

\* A step that leaves a dispute where it is and loses no chargeback.
LEMMA DisputesStand ==
  ASSUME DisputeInv,
         \A d \in Disputes : pc'[d] = pc[d] /\ log'[d] = log[d],
         \A p : Charged(p) => Charged(p)',
         dbErrors' = 0 => dbErrors = 0,
         Trusted' => Trusted
  PROVE  DisputeInv'
<1>1. DisputePositions'
  BY DEF DisputeInv, DisputePositions
<1>2. Recorded'
  BY DEF DisputeInv, Recorded
<1>. QED
  BY <1>1, <1>2 DEF DisputeInv

\* A step that leaves every pass where it is and adds no settlement.
LEMMA PassesStand ==
  ASSUME PassInv,
         \A x \in Passes : pc'[x] = pc[x] /\ log'[x] = log[x],
         UNCHANGED <<store, settles, input, todo>>,
         Trusted' => Trusted
  PROVE  PassInv'
<1>1. \A p : Booked(p)' <=> Booked(p)
  BY DEF Booked
<1>2. \A x \in Passes : Announced(x)' = Announced(x) /\ Entry(x)' = Entry(x)
  BY DEF Announced, Entry
<1>3. PassPositions'
  BY DEF PassInv, PassPositions
<1>4. ResultsFollowFile'
  BY DEF PassInv, ResultsFollowFile
<1>5. SettledOnceAndAnnounced'
  BY <1>2 DEF PassInv, SettledOnceAndAnnounced
<1>6. CompletedIsBooked'
  BY <1>1, <1>2 DEF PassInv, CompletedIsBooked
<1>7. AboutToAnnounce'
  BY <1>1, <1>2 DEF PassInv, AboutToAnnounce
<1>. QED
  BY <1>3, <1>4, <1>5, <1>6, <1>7 DEF PassInv

\* The control of one pass or dispute moves, that of the others does not.
LEMMA Moved ==
  ASSUME TypeOK, NEW x \in Passes \cup Disputes,
         NEW step \in PassSteps \cup DisputeSteps \cup Ended \cup {"idle"},
         x \in Passes => step \notin DisputeSteps,
         x \in Disputes => step \notin PassSteps,
         Goto(x, step)
  PROVE  /\ pc' \in [Passes \cup Disputes -> PassSteps \cup DisputeSteps \cup Ended \cup {"idle"}]
         /\ \A y \in Passes : pc'[y] \notin DisputeSteps
         /\ \A d \in Disputes : pc'[d] \notin PassSteps
         /\ pc'[x] = step
         /\ \A y \in (Passes \cup Disputes) \ {x} : pc'[y] = pc[y]
  BY DEF TypeOK, Goto

\* A pass is no dispute.
LEMMA Apart == \A x \in Passes : \A d \in Disputes : x # d
  BY SettlementAssumption

\* The entry a pass works on is one of its file's.
LEMMA EntryInSet ==
  ASSUME TypeOK, NEW x \in Passes, todo[x] # <<>>
  PROVE  /\ Entry(x) \in EntrySet
         /\ Tail(todo[x]) \in Seq(EntrySet)
         /\ Len(todo[x]) \in Nat \ {0}
         /\ Len(todo[x]) # 1 => Tail(todo[x]) # <<>>
<1>1. todo[x] \in Seq(EntrySet)
  BY DEF TypeOK
<1>2. /\ Head(todo[x]) \in EntrySet
      /\ Tail(todo[x]) \in Seq(EntrySet)
      /\ Len(Tail(todo[x])) = Len(todo[x]) - 1
      /\ Len(todo[x]) \in Nat \ {0}
  BY <1>1, HeadTailProperties, EmptySeq
<1>3. Len(todo[x]) # 1 => Tail(todo[x]) # <<>>
  <2>1. ASSUME Tail(todo[x]) = <<>> PROVE Len(todo[x]) - 1 = 0
    BY <1>2, <2>1, EmptySeq
  <2>. QED
    BY <1>2, <2>1
<1>. QED
  BY <1>2, <1>3 DEF Entry
-----------------------------------------------------------------------------
(* Steps of a pass *)

\* It holds when the process starts.
LEMMA InitInv == Init => IInv
<1>. SUFFICES ASSUME Init PROVE IInv
  OBVIOUS
<1>1. TypeOK
  <2>1. DOMAIN rows = {}
    BY DEF Init
  <2>2. rows \in [DOMAIN rows -> Statuses]
    BY <2>1 DEF Init
  <2>3. settles \in Seq(EntrySet) /\ chargebacks \in Seq(Payments)
    BY EmptySeq DEF Init
  <2>4. /\ log \in [Passes \cup Disputes -> Seq(Results) \cup Seq(Payments)]
        /\ \A x \in Passes : log[x] \in Seq(Results)
        /\ \A d \in Disputes : log[d] \in Seq({PaymentOf[d]})
    BY EmptySeq DEF Init
  <2>5. /\ pc \in [Passes \cup Disputes -> PassSteps \cup DisputeSteps \cup Ended \cup {"idle"}]
        /\ \A x \in Passes : pc[x] \notin DisputeSteps
        /\ \A d \in Disputes : pc[d] \notin PassSteps
    BY DEF Init, PassSteps, DisputeSteps
  <2>6. input \in [Passes -> Seq(EntrySet)] /\ todo \in [Passes -> Seq(EntrySet)]
    BY EmptySeq DEF Init
  <2>7. writer \in [Payments -> Writers]
    BY DEF Init, Writers
  <2>. QED
    BY <2>1, <2>2, <2>3, <2>4, <2>5, <2>6, <2>7, SettlementAssumption DEF Init, TypeOK
<1>2. PassPositions /\ DisputePositions
  BY SettlementAssumption DEF Init, PassPositions, DisputePositions, PassSteps
<1>3. ResultsFollowFile
  <2>. SUFFICES ASSUME NEW x \in Passes
                PROVE  input[x] = EntriesOf(log[x]) \o todo[x]
    BY DEF ResultsFollowFile
  <2>1. input[x] = <<>> /\ log[x] = <<>> /\ todo[x] = <<>>
    BY DEF Init
  <2>2. EntriesOf(log[x]) = <<>>
    BY <2>1 DEF EntriesOf
  <2>. QED
    BY <2>1, <2>2
<1>4. SettledOnceAndAnnounced /\ StatusHasRecord
  BY DEF Init, SettledOnceAndAnnounced, StatusHasRecord
<1>5. \A x \in Passes : Announced(x) = {}
  BY DEF Init, Announced
<1>6. CompletedIsBooked /\ AboutToAnnounce /\ Recorded
  BY <1>5, SettlementAssumption DEF Init, CompletedIsBooked, AboutToAnnounce, Recorded
<1>. QED
  BY <1>1, <1>2, <1>3, <1>4, <1>6 DEF IInv, PassInv, DisputeInv

\* A file that arrives is the whole of what its pass has to do.
LEMMA IngestStep ==
  ASSUME IInv, NEW x \in Passes, NEW f \in Files, Ingest(x, f)
  PROVE  IInv'
<1>. USE DEF IInv, PassInv
<1>1. /\ pc[x] = "idle" /\ log[x] = <<>> /\ input[x] = <<>> /\ todo[x] = <<>>
      /\ x \in Passes \cup Disputes
      /\ UNCHANGED <<store, tables, log, crashes, dbErrors>>
  BY DEF Ingest, PassPositions
<1>2. /\ \/ /\ input' = [input EXCEPT ![x] = Entries(f)]
            /\ todo' = [todo EXCEPT ![x] = Entries(f)]
            /\ Entries(f) \in Seq(EntrySet)
         \/ UNCHANGED <<input, todo>>
      /\ \E step \in {"done", "get", "rejected"} :
            Goto(x, step) /\ (step = "get" => todo'[x] # <<>>)
  BY EntriesOfFile DEF Ingest, TypeOK
<1>3. PICK step \in {"done", "get", "rejected"} :
         Goto(x, step) /\ (step = "get" => todo'[x] # <<>>)
  BY <1>2
<1>4. /\ pc' \in [Passes \cup Disputes -> PassSteps \cup DisputeSteps \cup Ended \cup {"idle"}]
      /\ \A y \in Passes : pc'[y] \notin DisputeSteps
      /\ \A d \in Disputes : pc'[d] \notin PassSteps
      /\ pc'[x] = step
      /\ \A y \in (Passes \cup Disputes) \ {x} : pc'[y] = pc[y]
  BY <1>1, <1>3, Moved, Apart DEF PassSteps, DisputeSteps, Ended
<1>5. /\ input' \in [Passes -> Seq(EntrySet)] /\ todo' \in [Passes -> Seq(EntrySet)]
      /\ \A y \in Passes \ {x} : input'[y] = input[y] /\ todo'[y] = todo[y]
      /\ input'[x] = todo'[x]
  BY <1>1, <1>2 DEF TypeOK
<1>6. TypeOK'
  BY <1>1, <1>4, <1>5 DEF TypeOK, tables
<1>7. PassPositions'
  BY <1>1, <1>3, <1>4, <1>5 DEF PassPositions, PassSteps
<1>8. ResultsFollowFile'
  <2>. SUFFICES ASSUME NEW y \in Passes
                PROVE  input'[y] = EntriesOf(log[y]) \o todo'[y]
    BY <1>1 DEF ResultsFollowFile
  <2>1. CASE y = x
    <3>1. EntriesOf(log[x]) = <<>>
      BY <1>1 DEF EntriesOf
    <3>2. todo'[x] \in Seq(EntrySet)
      BY <1>5
    <3>3. <<>> \o todo'[x] = todo'[x]
      BY <3>2, ConcatEmptySeq
    <3>. QED
      BY <1>5, <2>1, <3>1, <3>3
  <2>2. CASE y # x
    BY <1>5, <2>2 DEF ResultsFollowFile
  <2>. QED
    BY <2>1, <2>2
<1>9. /\ \A y \in Passes : Announced(y)' = Announced(y)
      /\ \A y \in Passes \ {x} : Entry(y)' = Entry(y)
      /\ \A p : (Booked(p)' <=> Booked(p)) /\ (Charged(p)' <=> Charged(p))
      /\ Trusted' = Trusted
  BY <1>1, <1>5 DEF Announced, Entry, Booked, Charged, Trusted, tables
<1>10. SettledOnceAndAnnounced'
  <2>. SUFFICES ASSUME store = "postgres", NEW i \in DOMAIN settles
                PROVE  /\ \A j \in DOMAIN settles : settles[i].pid = settles[j].pid => i = j
                       /\ \E y \in Passes :
                             \/ settles[i] \in Announced(y)
                             \/ pc'[y] \in {"emit", "silenced"} /\ Entry(y)' = settles[i]
    BY <1>1, <1>9 DEF SettledOnceAndAnnounced, tables
  <2>. QED
    BY <1>1, <1>4, <1>9 DEF SettledOnceAndAnnounced
<1>11. CompletedIsBooked' /\ AboutToAnnounce'
  BY <1>3, <1>4, <1>9 DEF CompletedIsBooked, AboutToAnnounce
<1>12. DisputeInv'
  BY <1>1, <1>4, <1>9, DisputesStand, Apart
<1>13. StatusHasRecord'
  BY <1>1, <1>9 DEF StatusHasRecord, tables
<1>. QED
  BY <1>6, <1>7, <1>8, <1>10, <1>11, <1>12, <1>13
\* A lookup changes nothing but where the pass goes on.
LEMMA GetStep ==
  ASSUME IInv, NEW x \in Passes, Get(x)
  PROVE  IInv'
<1>. USE DEF IInv, PassInv
<1>1. /\ pc[x] = "get" /\ todo[x] # <<>> /\ x \in Passes \cup Disputes
      /\ UNCHANGED <<store, tables, log, input, todo, crashes>>
      /\ Works \/ Fails
  BY DEF Get, PassPositions, PassSteps, GetFinds, GetMisses
<1>2. PICK step \in {"add", "break"} : Goto(x, step)
  BY DEF Get
<1>3. /\ pc' \in [Passes \cup Disputes -> PassSteps \cup DisputeSteps \cup Ended \cup {"idle"}]
      /\ \A y \in Passes : pc'[y] \notin DisputeSteps
      /\ \A d \in Disputes : pc'[d] \notin PassSteps
      /\ pc'[x] = step
      /\ \A y \in (Passes \cup Disputes) \ {x} : pc'[y] = pc[y]
  BY <1>1, <1>2, Moved, Apart DEF PassSteps, DisputeSteps, Ended
<1>4. dbErrors' \in 0 .. MaxDbErrors /\ (dbErrors' = 0 => dbErrors = 0)
  BY <1>1, Counted
<1>5. TypeOK'
  BY <1>1, <1>3, <1>4 DEF TypeOK, tables
<1>6. PassPositions'
  BY <1>1, <1>3 DEF PassPositions
<1>7. ResultsFollowFile'
  BY <1>1 DEF ResultsFollowFile
<1>8. /\ \A y \in Passes : Announced(y)' = Announced(y) /\ Entry(y)' = Entry(y)
      /\ \A p : (Booked(p)' <=> Booked(p)) /\ (Charged(p)' <=> Charged(p))
      /\ Trusted' => Trusted
  BY <1>1, <1>4 DEF Announced, Entry, Booked, Charged, Trusted, tables
<1>9. SettledOnceAndAnnounced'
  <2>. SUFFICES ASSUME store = "postgres", NEW i \in DOMAIN settles
                PROVE  /\ \A j \in DOMAIN settles : settles[i].pid = settles[j].pid => i = j
                       /\ \E y \in Passes :
                             \/ settles[i] \in Announced(y)
                             \/ pc'[y] \in {"emit", "silenced"} /\ Entry(y) = settles[i]
    BY <1>1, <1>8 DEF SettledOnceAndAnnounced, tables
  <2>. QED
    BY <1>1, <1>3 DEF SettledOnceAndAnnounced
<1>10. CompletedIsBooked' /\ AboutToAnnounce'
  BY <1>2, <1>3, <1>8 DEF CompletedIsBooked, AboutToAnnounce
<1>11. DisputeInv'
  BY <1>1, <1>3, <1>4, <1>8, DisputesStand, Apart
<1>12. StatusHasRecord'
  BY <1>1, <1>4, <1>8 DEF StatusHasRecord, tables
<1>. QED
  BY <1>5, <1>6, <1>7, <1>9, <1>10, <1>11, <1>12

\* What a pass has announced after one more event.
LEMMA AnnouncedGrows ==
  ASSUME NEW x \in Passes, log[x] \in Seq(Results), NEW r \in Results,
         log'[x] = Append(log[x], r)
  PROVE  Announced(x)' = Announced(x) \cup (IF r.type = "completed" THEN {r.entry} ELSE {})
<1>1. /\ Len(log[x]) \in Nat
      /\ DOMAIN log[x] = 1 .. Len(log[x])
      /\ DOMAIN log'[x] = 1 .. Len(log[x]) + 1
      /\ \A i \in 1 .. Len(log[x]) : log'[x][i] = log[x][i]
      /\ log'[x][Len(log[x]) + 1] = r
  BY Appended
<1>2. \A i : i \in DOMAIN log'[x] <=> i \in DOMAIN log[x] \/ i = Len(log[x]) + 1
  BY <1>1
<1>. QED
  BY <1>1, <1>2 DEF Announced

\* A pass reports the entry it is at, as a break or as settled, and goes on.
LEMMA ReportStep ==
  ASSUME IInv, NEW x \in Passes, NEW r \in Results,
         Break(x) \/ Complete(x),
         r = [type |-> IF pc[x] = "emit" THEN "completed" ELSE "break", entry |-> Entry(x)]
  PROVE  IInv'
<1>. USE DEF IInv, PassInv
<1>1. /\ pc[x] \in {"break", "emit"} /\ todo[x] # <<>> /\ x \in Passes \cup Disputes
      /\ UNCHANGED <<store, tables, input, crashes, dbErrors>>
      /\ Emit(x, r) /\ NextEntry(x)
  BY DEF Break, Complete, PassPositions, PassSteps
<1>2. PICK step \in {"done", "get"} : Goto(x, step) /\ (step = "get" => Len(todo[x]) # 1)
  BY <1>1 DEF NextEntry
<1>3. /\ pc' \in [Passes \cup Disputes -> PassSteps \cup DisputeSteps \cup Ended \cup {"idle"}]
      /\ \A y \in Passes : pc'[y] \notin DisputeSteps
      /\ \A d \in Disputes : pc'[d] \notin PassSteps
      /\ pc'[x] = step
      /\ \A y \in (Passes \cup Disputes) \ {x} : pc'[y] = pc[y]
  BY <1>1, <1>2, Moved, Apart DEF PassSteps, DisputeSteps, Ended
<1>4. /\ log[x] \in Seq(Results) /\ Append(log[x], r) \in Seq(Results)
      /\ log' = [log EXCEPT ![x] = Append(log[x], r)]
      /\ log'[x] = Append(log[x], r)
      /\ \A y \in (Passes \cup Disputes) \ {x} : log'[y] = log[y]
  BY <1>1, Appended DEF TypeOK, Emit
<1>5. /\ Tail(todo[x]) \in Seq(EntrySet)
      /\ todo' = [todo EXCEPT ![x] = Tail(todo[x])]
      /\ todo'[x] = Tail(todo[x])
      /\ step = "get" => todo'[x] # <<>>
      /\ \A y \in Passes \ {x} : todo'[y] = todo[y]
  BY <1>1, <1>2, EntryInSet DEF NextEntry, TypeOK
<1>6. TypeOK'
  <2>1. /\ log' \in [Passes \cup Disputes -> Seq(Results) \cup Seq(Payments)]
        /\ \A y \in Passes : log'[y] \in Seq(Results)
        /\ \A d \in Disputes : log'[d] \in Seq({PaymentOf[d]})
    BY <1>4, Apart DEF TypeOK
  <2>2. todo' \in [Passes -> Seq(EntrySet)]
    BY <1>5 DEF TypeOK
  <2>. QED
    BY <1>1, <1>3, <2>1, <2>2 DEF TypeOK, tables
<1>7. PassPositions'
  <2>. SUFFICES ASSUME NEW y \in Passes
                PROVE  /\ pc'[y] = "idle" => log'[y] = <<>> /\ input'[y] = <<>> /\ todo'[y] = <<>>
                       /\ pc'[y] \in PassSteps => todo'[y] # <<>>
    BY DEF PassPositions
  <2>1. CASE y = x
    BY <1>2, <1>3, <1>5, <2>1 DEF PassSteps
  <2>2. CASE y # x
    BY <1>1, <1>3, <1>4, <1>5, <2>2 DEF PassPositions
  <2>. QED
    BY <2>1, <2>2
<1>8. ResultsFollowFile'
  <2>. SUFFICES ASSUME NEW y \in Passes
                PROVE  input[y] = EntriesOf(log'[y]) \o todo'[y]
    BY <1>1 DEF ResultsFollowFile
  <2>1. CASE y = x
    <3>1. input[x] = EntriesOf(log[x]) \o todo[x]
      BY DEF ResultsFollowFile
    <3>2. todo[x] \in Seq(EntrySet)
      BY DEF TypeOK
    <3>3. r.entry = Head(todo[x])
      BY DEF Entry
    <3>4. input[x] = EntriesOf(Append(log[x], r)) \o Tail(todo[x])
      BY <1>1, <1>4, <3>1, <3>2, <3>3, ReportHead
    <3>. QED
      BY <1>4, <1>5, <2>1, <3>4
  <2>2. CASE y # x
    BY <1>4, <1>5, <2>2 DEF ResultsFollowFile
  <2>. QED
    BY <2>1, <2>2
<1>9. /\ Announced(x)' = Announced(x) \cup (IF pc[x] = "emit" THEN {Entry(x)} ELSE {})
      /\ \A y \in Passes \ {x} : Announced(y)' = Announced(y) /\ Entry(y)' = Entry(y)
  <2>1. Announced(x)' = Announced(x) \cup (IF r.type = "completed" THEN {r.entry} ELSE {})
    BY <1>4, AnnouncedGrows
  <2>2. \A y \in Passes \ {x} : Announced(y)' = Announced(y) /\ Entry(y)' = Entry(y)
    BY <1>4, <1>5 DEF Announced, Entry
  <2>. QED
    BY <2>1, <2>2
<1>10. /\ \A p : (Booked(p)' <=> Booked(p)) /\ (Charged(p)' <=> Charged(p))
       /\ Trusted' <=> Trusted
  BY <1>1 DEF Booked, Charged, Trusted, tables
<1>11. SettledOnceAndAnnounced'
  <2>. SUFFICES ASSUME store = "postgres", NEW i \in DOMAIN settles
                PROVE  /\ \A j \in DOMAIN settles : settles[i].pid = settles[j].pid => i = j
                       /\ \E y \in Passes :
                             \/ settles[i] \in Announced(y)'
                             \/ pc'[y] \in {"emit", "silenced"} /\ Entry(y)' = settles[i]
    BY <1>1 DEF SettledOnceAndAnnounced, tables
  <2>1. PICK y \in Passes :
           \/ settles[i] \in Announced(y)
           \/ pc[y] \in {"emit", "silenced"} /\ Entry(y) = settles[i]
    BY DEF SettledOnceAndAnnounced
  <2>2. \/ settles[i] \in Announced(y)'
        \/ pc'[y] \in {"emit", "silenced"} /\ Entry(y)' = settles[i]
    <3>1. CASE y = x
      BY <1>1, <1>9, <2>1, <3>1
    <3>2. CASE y # x
      BY <1>3, <1>9, <2>1, <3>2
    <3>. QED
      BY <3>1, <3>2
  <2>. QED
    BY <2>2 DEF SettledOnceAndAnnounced
<1>12. CompletedIsBooked'
  BY <1>9, <1>10 DEF CompletedIsBooked, AboutToAnnounce
<1>13. AboutToAnnounce'
  BY <1>2, <1>3, <1>9, <1>10 DEF AboutToAnnounce
<1>14. DisputeInv'
  BY <1>1, <1>3, <1>4, <1>10, DisputesStand, Apart
<1>15. StatusHasRecord'
  BY <1>1, <1>10 DEF StatusHasRecord, tables
<1>. QED
  BY <1>6, <1>7, <1>8, <1>11, <1>12, <1>13, <1>14, <1>15

\* An entry is added to the store, or its transaction fails; either way the pass
\* will announce it.
LEMMA AddStep ==
  ASSUME IInv, NEW x \in Passes, Add(x)
  PROVE  IInv'
<1>. USE DEF IInv, PassInv
<1>1. /\ pc[x] = "add" /\ todo[x] # <<>> /\ x \in Passes \cup Disputes
      /\ UNCHANGED <<store, log, input, todo, crashes>>
      /\ AddSettle(Entry(x)) /\ Goto(x, "emit")
  BY DEF Add, PassPositions, PassSteps
<1>2. Entry(x) \in EntrySet
  BY <1>1, EntryInSet
<1>3. /\ settles' \in Seq(EntrySet)
      /\ \/ settles' = settles
         \/ settles' = Append(settles, Entry(x)) /\ (store = "postgres" => ~Booked(Entry(x).pid))
      /\ \A p : Booked(p) => Booked(p)'
      /\ Works => Booked(Entry(x).pid)'
      /\ \/ UNCHANGED <<rows, writer>>
         \/ /\ rows' = WithStatus(Entry(x).pid, "settled") /\ Sign(Entry(x).pid, "pass")
            /\ \E i \in DOMAIN settles' : settles'[i].pid = Entry(x).pid
      /\ Works \/ Fails
      /\ UNCHANGED chargebacks
  BY <1>1, <1>2, SettleAdded DEF Entry, Booked
<1>4. /\ pc' \in [Passes \cup Disputes -> PassSteps \cup DisputeSteps \cup Ended \cup {"idle"}]
      /\ \A y \in Passes : pc'[y] \notin DisputeSteps
      /\ \A d \in Disputes : pc'[d] \notin PassSteps
      /\ pc'[x] = "emit"
      /\ \A y \in (Passes \cup Disputes) \ {x} : pc'[y] = pc[y]
  BY <1>1, Moved, Apart DEF PassSteps, DisputeSteps, Ended
<1>5. /\ dbErrors' \in 0 .. MaxDbErrors /\ (dbErrors' = 0 => dbErrors = 0)
      /\ dbErrors' = 0 => Works
      /\ Fails => store = "postgres" /\ dbErrors' # 0
  BY <1>3, Counted
<1>6. /\ DOMAIN rows' \subseteq Payments /\ rows' \in [DOMAIN rows' -> Statuses]
      /\ writer' \in [Payments -> Writers]
      /\ \/ UNCHANGED <<rows, writer>>
         \/ /\ DOMAIN rows' \subseteq DOMAIN rows \cup {Entry(x).pid}
            /\ \A q \in DOMAIN rows' :
                  /\ rows'[q] = IF q = Entry(x).pid THEN "settled" ELSE rows[q]
                  /\ writer'[q] = IF q = Entry(x).pid THEN "pass" ELSE writer[q]
  <2>1. CASE UNCHANGED <<rows, writer>>
    BY <2>1 DEF TypeOK
  <2>2. CASE rows' = WithStatus(Entry(x).pid, "settled") /\ Sign(Entry(x).pid, "pass")
    <3>1. Entry(x).pid \in Payments
      BY <1>2, EntryOfPayment
    <3>2. "settled" \in Statuses /\ "pass" \in Writers
      BY DEF Statuses, Writers
    <3>3. PICK p \in Payments : p = Entry(x).pid
      BY <3>1
    <3>4. /\ DOMAIN rows' \subseteq DOMAIN rows \cup {p}
          /\ DOMAIN rows' \subseteq Payments
          /\ rows' \in [DOMAIN rows' -> Statuses]
          /\ \A q \in DOMAIN rows' : rows'[q] = IF q = p THEN "settled" ELSE rows[q]
          /\ writer' \in [Payments -> Writers]
          /\ \A q \in Payments : writer'[q] = IF q = p THEN "pass" ELSE writer[q]
      <4>1. TypeOK /\ rows' = WithStatus(p, "settled") /\ Sign(p, "pass")
        BY <2>2, <3>3
      <4>. QED
        BY <3>2, <4>1, RowWritten, Zenon
    <3>. QED
      BY <3>3, <3>4
  <2>. QED
    BY <1>3, <2>1, <2>2
<1>7. TypeOK'
  BY <1>1, <1>3, <1>4, <1>5, <1>6 DEF TypeOK
<1>8. PassPositions'
  BY <1>1, <1>4 DEF PassPositions
<1>9. ResultsFollowFile'
  BY <1>1 DEF ResultsFollowFile
<1>10. /\ \A y \in Passes : Announced(y)' = Announced(y) /\ Entry(y)' = Entry(y)
       /\ \A p : Charged(p)' <=> Charged(p)
       /\ Trusted' => Trusted /\ Works
  BY <1>1, <1>3, <1>5 DEF Announced, Entry, Charged, Trusted
<1>11. SettledOnceAndAnnounced'
  <2>. SUFFICES ASSUME store = "postgres"
                PROVE  \A i \in DOMAIN settles' :
                          /\ \A j \in DOMAIN settles' : settles'[i].pid = settles'[j].pid => i = j
                          /\ \E y \in Passes :
                                \/ settles'[i] \in Announced(y)
                                \/ pc'[y] \in {"emit", "silenced"} /\ Entry(y) = settles'[i]
    BY <1>1, <1>10 DEF SettledOnceAndAnnounced
  <2>1. \A i \in DOMAIN settles :
           /\ \A j \in DOMAIN settles : settles[i].pid = settles[j].pid => i = j
           /\ \E y \in Passes :
                 \/ settles[i] \in Announced(y)
                 \/ pc'[y] \in {"emit", "silenced"} /\ Entry(y) = settles[i]
    BY <1>1, <1>4 DEF SettledOnceAndAnnounced
  <2>2. CASE settles' = settles
    BY <2>1, <2>2
  <2>3. CASE settles' = Append(settles, Entry(x)) /\ ~Booked(Entry(x).pid)
    <3>1. settles \in Seq(EntrySet)
      BY DEF TypeOK
    <3>2. /\ Len(settles) \in Nat
          /\ DOMAIN settles = 1 .. Len(settles)
          /\ DOMAIN settles' = 1 .. Len(settles) + 1
          /\ \A i \in 1 .. Len(settles) : settles'[i] = settles[i]
          /\ settles'[Len(settles) + 1] = Entry(x)
      BY <1>2, <2>3, <3>1, Appended
    <3>3. \A i : i \in DOMAIN settles' <=> i \in DOMAIN settles \/ i = Len(settles) + 1
      BY <3>2
    <3>4. \A i \in DOMAIN settles : settles[i].pid # Entry(x).pid
      BY <2>3 DEF Booked
    <3>. QED
      BY <1>4, <2>1, <3>2, <3>3, <3>4
  <2>. QED
    BY <1>3, <2>2, <2>3
<1>12. CompletedIsBooked'
  BY <1>3, <1>10 DEF CompletedIsBooked
<1>13. AboutToAnnounce'
  <2>. SUFFICES ASSUME Trusted', NEW y \in Passes, pc'[y] = "emit"
                PROVE  Booked(Entry(y).pid)'
    BY DEF AboutToAnnounce
  <2>1. CASE y = x
    BY <1>3, <1>10, <2>1
  <2>2. CASE y # x
    <3>1. Booked(Entry(y).pid)
      BY <1>4, <1>10, <2>2 DEF AboutToAnnounce
    <3>. QED
      BY <1>1, <1>3, <1>10, <3>1 DEF Booked
  <2>. QED
    BY <2>1, <2>2
<1>14. DisputeInv'
  BY <1>1, <1>4, <1>5, <1>10, DisputesStand, Apart
<1>15. StatusHasRecord'
  <2>1. PICK p : p = Entry(x).pid
    OBVIOUS
  <2>2. \A q : (Booked(q) => Booked(q)') /\ (Charged(q) => Charged(q)')
    BY <1>3, <1>10
  <2>3. \/ UNCHANGED <<rows, writer>>
        \/ /\ DOMAIN rows' \subseteq DOMAIN rows \cup {p}
           /\ \A q \in DOMAIN rows' : rows'[q] = IF q = p THEN "settled" ELSE rows[q]
           /\ \A q \in DOMAIN rows' : writer'[q] = IF q = p THEN "pass" ELSE writer[q]
           /\ Booked(p)'
    BY <1>3, <1>6, <2>1 DEF Booked
  <2>. QED
    BY <1>5, <2>2, <2>3, StatusKept
<1>. QED
  BY <1>7, <1>8, <1>9, <1>11, <1>12, <1>13, <1>14, <1>15
-----------------------------------------------------------------------------
(* Steps of a dispute, of the rail service and restarts *)

\* A step of a dispute that is not its last one: it may write the row, and adds a
\* chargeback before any step that says so.
LEMMA DisputeMoves ==
  ASSUME IInv, NEW d \in Disputes, NEW step \in DisputeSteps \cup {"failed", "rejected"},
         pc[d] # "done", Goto(d, step),
         UNCHANGED <<store, settles, log, input, todo, crashes>>,
         Works \/ Fails,
         DOMAIN rows' \subseteq Payments,
         rows' \in [DOMAIN rows' -> Statuses],
         writer' \in [Payments -> Writers],
         chargebacks' \in Seq(Payments),
         \A q : Charged(q) => Charged(q)',
         step \in {"mark", "save", "tell"} /\ dbErrors' = 0 => Charged(PaymentOf[d])',
         StatusHasRecord'
  PROVE  IInv'
<1>1. /\ pc' \in [Passes \cup Disputes -> PassSteps \cup DisputeSteps \cup Ended \cup {"idle"}]
      /\ \A x \in Passes : pc'[x] \notin DisputeSteps
      /\ \A e \in Disputes : pc'[e] \notin PassSteps
      /\ pc'[d] = step
      /\ \A y \in (Passes \cup Disputes) \ {d} : pc'[y] = pc[y]
  BY Moved, Apart DEF IInv, PassSteps, DisputeSteps, Ended
<1>2. dbErrors' \in 0 .. MaxDbErrors /\ (dbErrors' = 0 => dbErrors = 0)
  BY Counted DEF IInv
<1>3. Trusted' => Trusted
  BY <1>2 DEF Trusted
<1>4. TypeOK'
  BY <1>1, <1>2 DEF IInv, TypeOK
<1>5. PassInv'
  BY <1>1, <1>3, PassesStand, Apart DEF IInv
<1>6. DisputePositions'
  <2>1. step # "done"
    BY DEF DisputeSteps
  <2>. QED
    BY <1>1, <2>1 DEF IInv, DisputeInv, DisputePositions
<1>7. Recorded'
  <2>1. step # "done"
    BY DEF DisputeSteps
  <2>2. ASSUME NEW e \in Disputes
        PROVE  /\ pc'[e] \in {"mark", "save", "tell"} /\ dbErrors' = 0 => Charged(PaymentOf[e])'
               /\ pc'[e] = "done" /\ Trusted' => Charged(PaymentOf[e])'
    <3>1. CASE e = d
      BY <1>1, <2>1, <3>1
    <3>2. CASE e # d
      BY <1>1, <1>2, <1>3, <3>2 DEF IInv, DisputeInv, Recorded
    <3>. QED
      BY <3>1, <3>2
  <2>. QED
    BY <2>2 DEF Recorded
<1>. QED
  BY <1>4, <1>5, <1>6, <1>7 DEF IInv, DisputeInv

\* The steps of a dispute that leave the tables alone.
LEMMA DisputeAsks ==
  ASSUME IInv, NEW d \in Disputes, Raise(d) \/ Lookup(d) \/ RecordDispute(d)
  PROVE  IInv'
<1>1. /\ pc[d] # "done"
      /\ UNCHANGED <<store, tables, log, input, todo, crashes>>
      /\ Works \/ Fails
      /\ \E step \in {"lookup", "call", "rejected", "record", "savefailed"} : Goto(d, step)
  BY DEF Raise, Lookup, RecordDispute, Works, GetFinds, GetMisses
<1>2. PICK step \in {"lookup", "call", "rejected", "record", "savefailed"} : Goto(d, step)
  BY <1>1
<1>3. \A q : (Charged(q)' <=> Charged(q)) /\ (Booked(q)' <=> Booked(q))
  BY <1>1 DEF tables, Charged, Booked
<1>4. dbErrors' = 0 => dbErrors = 0
  BY <1>1, Counted DEF IInv
<1>5. StatusHasRecord'
  BY <1>1, <1>3, <1>4 DEF IInv, StatusHasRecord, tables
<1>6. /\ DOMAIN rows' \subseteq Payments
      /\ rows' \in [DOMAIN rows' -> Statuses]
      /\ writer' \in [Payments -> Writers]
      /\ chargebacks' \in Seq(Payments)
  BY <1>1 DEF IInv, TypeOK, tables
<1>. QED
  BY <1>1, <1>2, <1>3, <1>5, <1>6, DisputeMoves DEF DisputeSteps, tables

\* What the writes of one row's status have in common, a dispute's and the service's.
LEMMA WrittenStatus ==
  ASSUME IInv, NEW p \in Payments, NEW s \in Statuses, NEW who \in {"service", "dispute"},
         SetStatus(p, s, who) \/ Upsert(p, s, who),
         who = "dispute" => s = "failed" \/ (s = "chargeback" /\ (dbErrors = 0 => Charged(p)))
  PROVE  /\ Works \/ Fails
         /\ UNCHANGED <<settles, chargebacks>>
         /\ dbErrors' = 0 => dbErrors = 0
         /\ DOMAIN rows' \subseteq Payments
         /\ rows' \in [DOMAIN rows' -> Statuses]
         /\ writer' \in [Payments -> Writers]
         /\ StatusHasRecord'
<1>1. (Works \/ Fails) /\ UNCHANGED <<settles, chargebacks>>
  BY DEF SetStatus, Upsert
<1>2. dbErrors' = 0 => dbErrors = 0
  BY <1>1, Counted DEF IInv
<1>3. /\ DOMAIN rows' \subseteq Payments /\ rows' \in [DOMAIN rows' -> Statuses]
      /\ writer' \in [Payments -> Writers]
      /\ \/ UNCHANGED <<rows, writer>>
         \/ /\ DOMAIN rows' \subseteq DOMAIN rows \cup {p}
            /\ \A q \in DOMAIN rows' : rows'[q] = IF q = p THEN s ELSE rows[q]
            /\ \A q \in DOMAIN rows' : writer'[q] = IF q = p THEN who ELSE writer[q]
  <2>1. CASE UNCHANGED <<rows, writer>>
    BY <2>1 DEF IInv, TypeOK
  <2>2. CASE /\ Sign(p, who)
             /\ rows' = WithStatus(p, s) \/ rows' = WithRow(p, s)
    <3>1. who \in Writers
      BY DEF Writers
    <3>2. TypeOK
      BY DEF IInv
    <3>3. /\ DOMAIN rows' \subseteq DOMAIN rows \cup {p}
          /\ DOMAIN rows' \subseteq Payments
          /\ rows' \in [DOMAIN rows' -> Statuses]
          /\ \A q \in DOMAIN rows' : rows'[q] = IF q = p THEN s ELSE rows[q]
          /\ writer' \in [Payments -> Writers]
          /\ \A q \in Payments : writer'[q] = IF q = p THEN who ELSE writer[q]
      <4>1. CASE rows' = WithStatus(p, s)
        BY <2>2, <3>1, <3>2, <4>1, RowWritten, Zenon
      <4>2. CASE rows' = WithRow(p, s)
        BY <2>2, <3>1, <3>2, <4>2, RowWritten, Zenon
      <4>. QED
        BY <2>2, <4>1, <4>2, Zenon
    <3>. QED
      BY <3>3
  <2>. QED
    BY <2>1, <2>2 DEF SetStatus, Upsert
<1>4. \A q : (Charged(q)' <=> Charged(q)) /\ (Booked(q)' <=> Booked(q))
  BY <1>1 DEF Charged, Booked
<1>5. StatusHasRecord'
  BY <1>2, <1>3, <1>4, StatusKept DEF IInv
<1>. QED
  BY <1>1, <1>2, <1>3, <1>5

\* The steps of a dispute that write the row.
LEMMA DisputeWrites ==
  ASSUME IInv, NEW d \in Disputes, SaveFailed(d) \/ Mark(d) \/ Save(d)
  PROVE  IInv'
<1>1. PICK s \in {"chargeback", "failed"}, step \in {"failed", "save", "tell"} :
         /\ pc[d] # "done" /\ Goto(d, step)
         /\ SetStatus(PaymentOf[d], s, "dispute") \/ Upsert(PaymentOf[d], s, "dispute")
         /\ UNCHANGED <<store, log, input, todo, crashes>>
         /\ s = "chargeback" \/ step \in {"save", "tell"} => pc[d] \in {"mark", "save"}
  BY DEF SaveFailed, Mark, Save
<1>2. PaymentOf[d] \in Payments
  BY SettlementAssumption
<1>3. pc[d] \in {"mark", "save"} /\ dbErrors = 0 => Charged(PaymentOf[d])
  BY DEF IInv, DisputeInv, Recorded
<1>4. /\ Works \/ Fails
      /\ UNCHANGED <<settles, chargebacks>>
      /\ dbErrors' = 0 => dbErrors = 0
      /\ DOMAIN rows' \subseteq Payments
      /\ rows' \in [DOMAIN rows' -> Statuses]
      /\ writer' \in [Payments -> Writers]
      /\ StatusHasRecord'
  <2>1. PICK p \in Payments : p = PaymentOf[d]
    BY <1>2
  <2>2. s \in Statuses
    BY DEF Statuses
  <2>3. s = "failed" \/ (s = "chargeback" /\ (dbErrors = 0 => Charged(p)))
    BY <1>1, <1>3, <2>1
  <2>4. SetStatus(p, s, "dispute") \/ Upsert(p, s, "dispute")
    BY <1>1, <2>1
  <2>. QED
    BY <2>2, <2>3, <2>4, WrittenStatus
<1>5. \A q : Charged(q)' <=> Charged(q)
  BY <1>4 DEF Charged
<1>6. chargebacks' \in Seq(Payments)
  BY <1>4 DEF IInv, TypeOK
<1>. QED
  BY <1>1, <1>3, <1>4, <1>5, <1>6, DisputeMoves DEF DisputeSteps
\* The step of a dispute that adds the chargeback.
LEMMA RecordStep ==
  ASSUME IInv, NEW d \in Disputes, Record(d)
  PROVE  IInv'
<1>1. /\ pc[d] # "done" /\ Goto(d, "mark")
      /\ AddChargeback(PaymentOf[d])
      /\ UNCHANGED <<store, log, input, todo, crashes>>
  BY DEF Record
<1>2. PICK p \in Payments : p = PaymentOf[d]
  BY SettlementAssumption
<1>3. /\ chargebacks' \in Seq(Payments)
      /\ \A q : Charged(q) => Charged(q)'
      /\ Works => Charged(p)'
      /\ \/ UNCHANGED <<rows, writer>>
         \/ /\ rows' = WithStatus(p, "chargeback") /\ Sign(p, "dispute")
            /\ Charged(p)'
      /\ Works \/ Fails
      /\ UNCHANGED settles
  BY <1>1, <1>2, ChargebackAdded DEF IInv
<1>4. (dbErrors' = 0 => dbErrors = 0) /\ (dbErrors' = 0 => Works)
  BY <1>3, Counted DEF IInv
<1>5. /\ DOMAIN rows' \subseteq Payments /\ rows' \in [DOMAIN rows' -> Statuses]
      /\ writer' \in [Payments -> Writers]
      /\ \/ UNCHANGED <<rows, writer>>
         \/ /\ DOMAIN rows' \subseteq DOMAIN rows \cup {p}
            /\ \A q \in DOMAIN rows' : rows'[q] = IF q = p THEN "chargeback" ELSE rows[q]
            /\ \A q \in DOMAIN rows' : writer'[q] = IF q = p THEN "dispute" ELSE writer[q]
            /\ Charged(p)'
  <2>1. CASE UNCHANGED <<rows, writer>>
    BY <2>1 DEF IInv, TypeOK
  <2>2. CASE /\ rows' = WithStatus(p, "chargeback") /\ Sign(p, "dispute")
             /\ Charged(p)'
    <3>1. "chargeback" \in Statuses /\ "dispute" \in Writers
      BY DEF Statuses, Writers
    <3>. QED
      BY <2>2, <3>1, RowWritten DEF IInv
  <2>. QED
    BY <1>3, <2>1, <2>2
<1>6. \A q : Booked(q)' <=> Booked(q)
  BY <1>3 DEF Booked
<1>7. StatusHasRecord'
  BY <1>3, <1>4, <1>5, <1>6, StatusKept DEF IInv
<1>. QED
  BY <1>1, <1>2, <1>3, <1>4, <1>5, <1>7, DisputeMoves DEF DisputeSteps

\* The last step of a dispute tells the log.
LEMMA TellStep ==
  ASSUME IInv, NEW d \in Disputes, Tell(d)
  PROVE  IInv'
<1>1. /\ pc[d] = "tell" /\ d \in Passes \cup Disputes /\ Goto(d, "done")
      /\ Emit(d, PaymentOf[d])
      /\ UNCHANGED <<store, tables, input, todo, crashes, dbErrors>>
  BY DEF Tell
<1>2. /\ pc' \in [Passes \cup Disputes -> PassSteps \cup DisputeSteps \cup Ended \cup {"idle"}]
      /\ \A x \in Passes : pc'[x] \notin DisputeSteps
      /\ \A e \in Disputes : pc'[e] \notin PassSteps
      /\ pc'[d] = "done"
      /\ \A y \in (Passes \cup Disputes) \ {d} : pc'[y] = pc[y]
  BY <1>1, Moved, Apart DEF IInv, PassSteps, DisputeSteps, Ended
<1>3. /\ log[d] \in Seq({PaymentOf[d]}) /\ log[d] = <<>>
      /\ log' = [log EXCEPT ![d] = Append(log[d], PaymentOf[d])]
      /\ d \in DOMAIN log
  BY <1>1 DEF IInv, TypeOK, DisputeInv, DisputePositions, Emit
<1>4. /\ log'[d] \in Seq({PaymentOf[d]}) /\ Len(log'[d]) = 1
      /\ \A y \in (Passes \cup Disputes) \ {d} : log'[y] = log[y]
  <2>1. log'[d] = Append(log[d], PaymentOf[d])
    BY <1>3 DEF IInv, TypeOK
  <2>2. Append(log[d], PaymentOf[d]) \in Seq({PaymentOf[d]}) /\ Len(log[d]) = 0
        /\ Len(Append(log[d], PaymentOf[d])) = Len(log[d]) + 1
    BY <1>3, Appended, EmptySeq
  <2>. QED
    BY <1>3, <2>1, <2>2
<1>5. TypeOK'
  <2>1. log'[d] \in Seq(Payments)
    <3>1. {PaymentOf[d]} \subseteq Payments
      BY SettlementAssumption
    <3>. QED
      BY <1>4, <3>1, SeqMonotonic
  <2>2. /\ log' \in [Passes \cup Disputes -> Seq(Results) \cup Seq(Payments)]
        /\ \A x \in Passes : log'[x] \in Seq(Results)
        /\ \A e \in Disputes : log'[e] \in Seq({PaymentOf[e]})
    BY <1>3, <1>4, <2>1, Apart DEF IInv, TypeOK
  <2>. QED
    BY <1>1, <1>2, <2>2 DEF IInv, TypeOK, tables
<1>6. /\ Trusted' <=> Trusted
      /\ \A q : (Charged(q)' <=> Charged(q)) /\ (Booked(q)' <=> Booked(q))
  BY <1>1 DEF Trusted, tables, Charged, Booked
<1>7. PassInv'
  BY <1>1, <1>2, <1>4, <1>6, PassesStand, Apart DEF IInv, tables
<1>8. DisputePositions'
  BY <1>2, <1>4 DEF IInv, DisputeInv, DisputePositions
<1>9. Recorded'
  <2>1. Trusted => Charged(PaymentOf[d])
    BY <1>1 DEF IInv, DisputeInv, Recorded, Trusted
  <2>2. ASSUME NEW e \in Disputes
        PROVE  /\ pc'[e] \in {"mark", "save", "tell"} /\ dbErrors' = 0 => Charged(PaymentOf[e])'
               /\ pc'[e] = "done" /\ Trusted' => Charged(PaymentOf[e])'
    <3>1. CASE e = d
      BY <1>2, <1>6, <2>1, <3>1
    <3>2. CASE e # d
      BY <1>1, <1>2, <1>6, <3>2 DEF IInv, DisputeInv, Recorded
    <3>. QED
      BY <3>1, <3>2
  <2>. QED
    BY <2>2 DEF Recorded
<1>10. StatusHasRecord'
  BY <1>1, <1>6 DEF IInv, StatusHasRecord, tables
<1>. QED
  BY <1>5, <1>7, <1>8, <1>9, <1>10 DEF IInv, DisputeInv

\* Whatever the rest of the service writes, it signs as its own.
LEMMA ServeStep ==
  ASSUME IInv, NEW p \in Payments, Serve(p)
  PROVE  IInv'
<1>1. PICK s \in Statuses : SetStatus(p, s, "service") \/ Upsert(p, s, "service")
  BY SettlementAssumption DEF Serve
<1>2. UNCHANGED <<store, log, pc, input, todo, crashes>>
  BY DEF Serve
<1>3. /\ Works \/ Fails
      /\ UNCHANGED <<settles, chargebacks>>
      /\ dbErrors' = 0 => dbErrors = 0
      /\ DOMAIN rows' \subseteq Payments
      /\ rows' \in [DOMAIN rows' -> Statuses]
      /\ writer' \in [Payments -> Writers]
      /\ StatusHasRecord'
  BY <1>1, WrittenStatus
<1>4. TypeOK'
  BY <1>2, <1>3, Counted DEF IInv, TypeOK
<1>5. (Trusted' => Trusted) /\ \A q : (Charged(q)' <=> Charged(q)) /\ (Booked(q)' <=> Booked(q))
  BY <1>2, <1>3 DEF Trusted, Charged, Booked
<1>6. PassInv' /\ DisputeInv'
  BY <1>2, <1>3, <1>5, PassesStand, DisputesStand DEF IInv
<1>. QED
  BY <1>3, <1>4, <1>6 DEF IInv

\* A restart forgets what memory held together with everything that relied on it.
LEMMA CrashStep ==
  ASSUME IInv, Crash
  PROVE  IInv'
<1>. DEFINE Working == {"emit", "mark", "save", "tell"}
<1>1. /\ crashes' = crashes + 1 /\ crashes < MaxCrashes
      /\ pc' = [x \in DOMAIN pc |->
                   IF pc[x] \in Working THEN "silenced"
                   ELSE IF pc[x] \in Ended \cup {"idle"} THEN pc[x] ELSE "dead"]
      /\ UNCHANGED <<store, log, input, todo, dbErrors>>
      /\ store = "postgres" => UNCHANGED <<rows, writer, settles, chargebacks>>
      /\ store = "memory" =>
            /\ rows' = <<>> /\ settles' = <<>> /\ chargebacks' = <<>>
            /\ writer' = [p \in Payments |-> "service"]
  BY DEF Crash, tables
<1>2. crashes \in Nat /\ crashes' \in 0 .. MaxCrashes /\ crashes' # 0
  BY <1>1, SettlementAssumption DEF IInv, TypeOK
<1>3. /\ Trusted' => Trusted /\ store = "postgres"
      /\ store = "postgres" => \A q : (Charged(q)' <=> Charged(q)) /\ (Booked(q)' <=> Booked(q))
  BY <1>1, <1>2 DEF Trusted, Charged, Booked
<1>4. DOMAIN pc = Passes \cup Disputes
  BY DEF IInv, TypeOK
<1>5. /\ \A y \in Passes \cup Disputes :
            /\ pc'[y] \in Ended \cup {"idle"}
            /\ pc'[y] \in {"idle", "done"} \/ pc[y] = "done" => pc'[y] = pc[y]
            /\ pc[y] \in {"emit", "silenced"} => pc'[y] = "silenced"
      /\ pc' \in [Passes \cup Disputes -> PassSteps \cup DisputeSteps \cup Ended \cup {"idle"}]
  BY <1>1, <1>4 DEF Ended
<1>6. \A y \in Passes \cup Disputes : pc'[y] \notin PassSteps \cup DisputeSteps
  BY <1>5 DEF Ended, PassSteps, DisputeSteps
<1>7. TypeOK'
  <2>1. store = "memory" => /\ DOMAIN rows' = {} /\ rows' \in [{} -> Statuses]
                            /\ writer' \in [Payments -> Writers]
    BY <1>1 DEF Writers
  <2>2. store = "memory" => settles' \in Seq(EntrySet) /\ chargebacks' \in Seq(Payments)
    BY <1>1, EmptySeq
  <2>3. store \in {"memory", "postgres"}
    BY DEF IInv, TypeOK
  <2>4. /\ DOMAIN rows' \subseteq Payments
        /\ rows' \in [DOMAIN rows' -> Statuses]
        /\ writer' \in [Payments -> Writers]
        /\ settles' \in Seq(EntrySet) /\ chargebacks' \in Seq(Payments)
    BY <1>1, <2>1, <2>2, <2>3 DEF IInv, TypeOK
  <2>. QED
    BY <1>1, <1>2, <1>5, <1>6, <2>4 DEF IInv, TypeOK
<1>8. \A y \in Passes : Announced(y)' = Announced(y) /\ Entry(y)' = Entry(y)
  BY <1>1 DEF Announced, Entry
<1>9. PassPositions'
  BY <1>1, <1>5, <1>6 DEF IInv, PassInv, PassPositions
<1>10. ResultsFollowFile'
  BY <1>1 DEF IInv, PassInv, ResultsFollowFile
<1>11. SettledOnceAndAnnounced'
  <2>. SUFFICES ASSUME store = "postgres", NEW i \in DOMAIN settles
                PROVE  /\ \A j \in DOMAIN settles : settles[i].pid = settles[j].pid => i = j
                       /\ \E y \in Passes :
                             \/ settles[i] \in Announced(y)
                             \/ pc'[y] \in {"emit", "silenced"} /\ Entry(y) = settles[i]
    BY <1>1, <1>8 DEF SettledOnceAndAnnounced
  <2>. QED
    BY <1>5 DEF IInv, PassInv, SettledOnceAndAnnounced
<1>12. CompletedIsBooked'
  BY <1>3, <1>8 DEF IInv, PassInv, CompletedIsBooked
<1>13. AboutToAnnounce'
  BY <1>6 DEF AboutToAnnounce, PassSteps
<1>14. DisputePositions'
  BY <1>1, <1>5, <1>6 DEF IInv, DisputeInv, DisputePositions
<1>15. Recorded'
  BY <1>3, <1>5, <1>6 DEF IInv, DisputeInv, Recorded, DisputeSteps
<1>16. StatusHasRecord'
  <2>1. CASE store = "memory"
    <3>1. DOMAIN rows' = {}
      BY <1>1, <2>1
    <3>. QED
      BY <3>1 DEF StatusHasRecord
  <2>2. CASE store = "postgres"
    BY <1>1, <1>3, <2>2 DEF IInv, StatusHasRecord
  <2>. QED
    BY <2>1, <2>2 DEF IInv, TypeOK
<1>. QED
  BY <1>7, <1>9, <1>10, <1>11, <1>12, <1>13, <1>14, <1>15, <1>16 DEF IInv, PassInv, DisputeInv
\* Every step keeps it.
LEMMA NextInv == IInv /\ [Next]_vars => IInv'
<1>. SUFFICES ASSUME IInv, [Next]_vars PROVE IInv'
  OBVIOUS
<1>1. ASSUME NEW x \in Passes, NEW f \in Files, Ingest(x, f) PROVE IInv'
  BY <1>1, IngestStep
<1>2. ASSUME NEW x \in Passes, MatchEntries(x) PROVE IInv'
  <2>1. CASE Get(x)
    BY <2>1, GetStep
  <2>2. CASE Break(x) \/ Complete(x)
    <3>1. PICK r : r = [type |-> IF pc[x] = "emit" THEN "completed" ELSE "break",
                        entry |-> Entry(x)]
      OBVIOUS
    <3>2. todo[x] # <<>>
      BY <2>2 DEF Break, Complete, IInv, PassInv, PassPositions, PassSteps
    <3>3. r \in Results
      BY <3>1, <3>2, EntryInSet DEF IInv, Results
    <3>. QED
      BY <2>2, <3>1, <3>3, ReportStep
  <2>3. CASE Add(x)
    BY <2>3, AddStep
  <2>. QED
    BY <1>2, <2>1, <2>2, <2>3 DEF MatchEntries
<1>3. ASSUME NEW d \in Disputes, Raise(d) \/ Chargeback(d) PROVE IInv'
  BY <1>3, DisputeAsks, DisputeWrites, RecordStep, TellStep DEF Chargeback
<1>4. ASSUME NEW p \in Payments, Serve(p) PROVE IInv'
  BY <1>4, ServeStep
<1>5. CASE Crash
  BY <1>5, CrashStep
<1>6. CASE UNCHANGED vars
  <2>1. UNCHANGED <<store, tables, log, pc, input, todo, crashes, dbErrors>>
    BY <1>6 DEF vars, tables
  <2>2. /\ Trusted' <=> Trusted
        /\ \A q : (Charged(q)' <=> Charged(q)) /\ (Booked(q)' <=> Booked(q))
    BY <2>1 DEF Trusted, Charged, Booked, tables
  <2>3. PassInv' /\ DisputeInv'
    BY <2>1, <2>2, PassesStand, DisputesStand DEF IInv, tables
  <2>. QED
    BY <2>1, <2>2, <2>3 DEF IInv, TypeOK, StatusHasRecord, tables
<1>. QED
  BY <1>1, <1>2, <1>3, <1>4, <1>5, <1>6 DEF Next

\* The invariant holds whatever files arrive, however often, and whatever fails.
LEMMA Invariance == Spec => []IInv
  BY InitInv, NextInv, PTL DEF Spec

-----------------------------------------------------------------------------
(* The amounts of memory *)

\* A pass is counted from the moment its file arrives; finitely many have started.
MemoryInv == IsFiniteSet(Started) /\ MemoryMatchesLog

\* What an entry settles, or a result announces, is an amount.
LEMMA AmountsAreInts ==
  ASSUME NEW p
  PROVE  /\ \A e \in EntrySet : Share(p, e) \in Int
         /\ \A r \in Results : Told(p, r) \in Int
<1>1. ASSUME NEW e \in EntrySet PROVE Share(p, e) \in Int
  <2>1. PICK f \in {g \in Files : Accepts(g)} : e \in ToSet(Entries(f))
    BY DEF EntrySet
  <2>2. PICK i \in DOMAIN Entries(f) : e = Entries(f)[i]
    BY <2>1 DEF ToSet
  <2>3. Entries(f) \in Seq([pid : Payments, amount : Int])
    BY SettlementAssumption
  <2>4. e \in [pid : Payments, amount : Int]
    BY <2>2, <2>3, LenProperties, ElementOfSeq
  <2>. QED
    BY <2>4 DEF Share
<1>2. ASSUME NEW r \in Results PROVE Told(p, r) \in Int
  <2>1. r.entry \in EntrySet
    BY DEF Results
  <2>. QED
    BY <1>1, <2>1 DEF Told
<1>. QED
  BY <1>1, <1>2

\* One more entry adds its share.
LEMMA ShareAppended ==
  ASSUME NEW p, NEW s \in Seq(EntrySet), NEW e \in EntrySet
  PROVE  /\ SumFunction([i \in DOMAIN s |-> Share(p, s[i])]) \in Int
         /\ SumFunction([i \in DOMAIN Append(s, e) |-> Share(p, Append(s, e)[i])])
               = SumFunction([i \in DOMAIN s |-> Share(p, s[i])]) + Share(p, e)
<1>. DEFINE t == Append(s, e)
            n == Len(s) + 1
            D == DOMAIN s
            f == [i \in DOMAIN s |-> Share(p, s[i])]
            g == [i \in DOMAIN t |-> Share(p, t[i])]
<1>1. /\ Len(s) \in Nat /\ DOMAIN s = 1 .. Len(s) /\ DOMAIN t = 1 .. n
      /\ \A i \in DOMAIN s : t[i] = s[i] /\ s[i] \in EntrySet
      /\ t[n] = e
  BY Appended, ElementOfSeq
<1>2. /\ IsFiniteSet(DOMAIN s) /\ n \notin DOMAIN s /\ n \in DOMAIN t
      /\ DOMAIN t = DOMAIN s \cup {n}
  <2>1. IsFiniteSet(1 .. Len(s))
    BY <1>1, FS_Interval
  <2>. QED
    BY <1>1, <2>1
<1>. HIDE DEF t, n
<1>3. \A i \in DOMAIN s : f[i] \in Int /\ g[i] = f[i]
  BY <1>1, <1>2, AmountsAreInts
<1>4. g[n] = Share(p, e) /\ g[n] \in Int
  BY <1>1, <1>2, AmountsAreInts
<1>5. DOMAIN f = DOMAIN s /\ DOMAIN g = DOMAIN s \cup {n}
  BY <1>2
<1>6. SumFunctionOnSet(g, D \cup {n}) = SumFunctionOnSet(f, D) + g[n]
  <2>. HIDE DEF f, g, D
  <2>1. IsFiniteSet(D) /\ n \notin D /\ g[n] \in Int
    BY <1>2, <1>4 DEF D
  <2>2. \A i \in D : f[i] \in Int /\ g[i] = f[i]
    BY <1>3 DEF D
  <2>. QED
    BY <2>1, <2>2, SumGrows, Zenon
<1>7. SumFunctionOnSet(f, D) \in Int
  <2>. HIDE DEF f
  <2>. QED
    BY <1>2, <1>3, SumType, Zenon
<1>8. SumFunction(g) = SumFunction(f) + g[n] /\ SumFunction(f) \in Int
  BY <1>5, <1>6, <1>7, Zenon DEF SumFunction
<1>. HIDE DEF D
<1>. QED
  BY <1>4, <1>8, Zenon DEF t

\* One more result adds what it announces.
LEMMA ToldAppended ==
  ASSUME NEW p, NEW s \in Seq(Results), NEW r \in Results
  PROVE  /\ SumFunction([i \in DOMAIN s |-> Told(p, s[i])]) \in Int
         /\ SumFunction([i \in DOMAIN Append(s, r) |-> Told(p, Append(s, r)[i])])
               = SumFunction([i \in DOMAIN s |-> Told(p, s[i])]) + Told(p, r)
<1>. DEFINE t == Append(s, r)
            n == Len(s) + 1
            D == DOMAIN s
            f == [i \in DOMAIN s |-> Told(p, s[i])]
            g == [i \in DOMAIN t |-> Told(p, t[i])]
<1>1. /\ Len(s) \in Nat /\ DOMAIN s = 1 .. Len(s) /\ DOMAIN t = 1 .. n
      /\ \A i \in DOMAIN s : t[i] = s[i] /\ s[i] \in Results
      /\ t[n] = r
  BY Appended, ElementOfSeq
<1>2. /\ IsFiniteSet(DOMAIN s) /\ n \notin DOMAIN s /\ n \in DOMAIN t
      /\ DOMAIN t = DOMAIN s \cup {n}
  <2>1. IsFiniteSet(1 .. Len(s))
    BY <1>1, FS_Interval
  <2>. QED
    BY <1>1, <2>1
<1>. HIDE DEF t, n
<1>3. \A i \in DOMAIN s : f[i] \in Int /\ g[i] = f[i]
  BY <1>1, <1>2, AmountsAreInts
<1>4. g[n] = Told(p, r) /\ g[n] \in Int
  BY <1>1, <1>2, AmountsAreInts
<1>5. DOMAIN f = DOMAIN s /\ DOMAIN g = DOMAIN s \cup {n}
  BY <1>2
<1>6. SumFunctionOnSet(g, D \cup {n}) = SumFunctionOnSet(f, D) + g[n]
  <2>. HIDE DEF f, g, D
  <2>1. IsFiniteSet(D) /\ n \notin D /\ g[n] \in Int
    BY <1>2, <1>4 DEF D
  <2>2. \A i \in D : f[i] \in Int /\ g[i] = f[i]
    BY <1>3 DEF D
  <2>. QED
    BY <2>1, <2>2, SumGrows, Zenon
<1>7. SumFunctionOnSet(f, D) \in Int
  <2>. HIDE DEF f
  <2>. QED
    BY <1>2, <1>3, SumType, Zenon
<1>8. SumFunction(g) = SumFunction(f) + g[n] /\ SumFunction(f) \in Int
  BY <1>5, <1>6, <1>7, Zenon DEF SumFunction
<1>. HIDE DEF D
<1>. QED
  BY <1>4, <1>8, Zenon DEF t

\* Sums over nothing.
LEMMA NothingAdded ==
  ASSUME NEW f, DOMAIN f = {}
  PROVE  SumFunction(f) = 0
  BY SumOfNone, Zenon DEF SumFunction

\* What a pass announces is an amount.
AmountsAnnounced == \A p : \A x \in Passes : AnnouncedAmount(p, x) \in Int

LEMMA AnnouncedAreInts ==
  IInv => AmountsAnnounced
<1>. SUFFICES ASSUME IInv, NEW p, NEW x \in Passes
              PROVE  AnnouncedAmount(p, x) \in Int
  BY DEF AmountsAnnounced
<1>. DEFINE f == [i \in DOMAIN log[x] |-> Told(p, log[x][i])]
<1>1. log[x] \in Seq(Results)
  BY DEF IInv, TypeOK
<1>2. IsFiniteSet(DOMAIN log[x]) /\ \A i \in DOMAIN log[x] : f[i] \in Int
  <2>1. Len(log[x]) \in Nat /\ DOMAIN log[x] = 1 .. Len(log[x])
    BY <1>1, LenProperties
  <2>2. IsFiniteSet(1 .. Len(log[x]))
    <3>1. 1 \in Int /\ Len(log[x]) \in Int
      BY <2>1
    <3>. QED
      BY <3>1, FS_Interval, Zenon
  <2>3. \A i \in DOMAIN log[x] : log[x][i] \in Results
    BY <1>1, <2>1, ElementOfSeq
  <2>. QED
    BY <2>1, <2>2, <2>3, AmountsAreInts
<1>3. SumFunctionOnSet(f, DOMAIN log[x]) \in Int
  <2>. HIDE DEF f
  <2>. QED
    BY <1>2, SumType, Zenon
<1>4. SumFunction(f) \in Int
  BY <1>3 DEF SumFunction
<1>5. pc[x] = "emit" => Share(p, Entry(x)) \in Int
  BY EntryInSet, AmountsAreInts DEF IInv, PassInv, PassPositions, PassSteps
<1>. HIDE DEF f
<1>6. AnnouncedAmount(p, x) = SumFunction(f) + IF pc[x] = "emit" THEN Share(p, Entry(x)) ELSE 0
  BY DEF AnnouncedAmount, f
<1>. QED
  BY <1>4, <1>5, <1>6

\* Only one pass moved: the sum changes as its share of it does.
LEMMA OnePassMoved ==
  ASSUME IInv, IInv', IsFiniteSet(Started), NEW x \in Started, pc'[x] # "idle", NEW p,
         \A y \in Passes \ {x} : pc'[y] = pc[y] /\ log'[y] = log[y] /\ todo'[y] = todo[y]
  PROVE  /\ Started' = Started
         /\ SumFunction([y \in Started |-> AnnouncedAmount(p, y)]) \in Int
         /\ SumFunction([y \in Started |-> AnnouncedAmount(p, y)])'
               = SumFunction([y \in Started |-> AnnouncedAmount(p, y)])
                    + (AnnouncedAmount(p, x)' - AnnouncedAmount(p, x))
<1>. DEFINE f == [y \in Started |-> AnnouncedAmount(p, y)]
            g == [y \in Started |-> AnnouncedAmount(p, y)']
<1>1. Started' = Started /\ x \in Passes
  BY DEF Started
<1>2. \A y \in Started : y # x => g[y] = f[y]
  BY DEF Started, AnnouncedAmount, Entry
<1>3. \A y \in Started : f[y] \in Int
  BY AnnouncedAreInts DEF AmountsAnnounced, Started
<1>4. AmountsAnnounced'
  <2>1. IInv'
    OBVIOUS
  <2>. QED
    BY <2>1, AnnouncedAreInts, PTL
<1>5. g[x] \in Int
  BY <1>1, <1>4 DEF AmountsAnnounced
<1>6. SumFunctionOnSet(g, Started) = SumFunctionOnSet(f, Started) + (g[x] - f[x])
  <2>. HIDE DEF f, g
  <2>. QED
    BY <1>2, <1>3, <1>5, SumChanges
<1>7. SumFunctionOnSet(f, Started) \in Int
  <2>. HIDE DEF f
  <2>. QED
    BY <1>3, SumType, Zenon
<1>8. [y \in Started |-> AnnouncedAmount(p, y)]' = g
  BY <1>1
<1>. QED
  BY <1>1, <1>6, <1>7, <1>8, Zenon DEF SumFunction

\* A step that neither adds nor announces anything of a running pass.
LEMMA NothingMoved ==
  ASSUME MemoryInv, UNCHANGED store, crashes' = 0 => crashes = 0 /\ settles' = settles,
         \A x \in Passes :
            /\ log'[x] = log[x]
            /\ pc'[x] = "idle" <=> pc[x] = "idle"
            /\ crashes' = 0 =>
                  todo'[x] = todo[x] /\ (pc'[x] = "emit" <=> pc[x] = "emit")
  PROVE  MemoryInv'
<1>1. Started' = Started
  BY DEF Started
<1>2. MemoryMatchesLog'
  <2>. SUFFICES ASSUME store = "memory", crashes' = 0, NEW p \in Payments
                PROVE  SettledAmount(p)'
                          = SumFunction([x \in Started |-> AnnouncedAmount(p, x)])'
    BY DEF MemoryMatchesLog
  <2>1. SettledAmount(p)' = SettledAmount(p)
    BY DEF SettledAmount
  <2>2. \A x \in Started : AnnouncedAmount(p, x)' = AnnouncedAmount(p, x)
    BY DEF Started, AnnouncedAmount, Entry
  <2>3. [x \in Started |-> AnnouncedAmount(p, x)]' = [x \in Started |-> AnnouncedAmount(p, x)]
    BY <1>1, <2>2
  <2>4. SettledAmount(p) = SumFunction([x \in Started |-> AnnouncedAmount(p, x)])
    BY DEF MemoryInv, MemoryMatchesLog
  <2>. QED
    BY <2>1, <2>3, <2>4
<1>. QED
  BY <1>1, <1>2 DEF MemoryInv

\* A pass that starts has announced nothing.
LEMMA IngestMemory ==
  ASSUME IInv, IInv', MemoryInv, NEW x \in Passes, NEW f \in Files, Ingest(x, f)
  PROVE  MemoryInv'
<1>1. /\ pc[x] = "idle" /\ log[x] = <<>> /\ pc'[x] \in {"done", "get", "rejected"}
      /\ UNCHANGED <<store, settles, log, crashes>>
      /\ \A y \in Passes \ {x} : pc'[y] = pc[y] /\ todo'[y] = todo[y]
  BY DEF Ingest, IInv, TypeOK, PassInv, PassPositions, Goto, tables
<1>2. Started' = Started \cup {x} /\ x \notin Started /\ IsFiniteSet(Started)
  BY <1>1 DEF Started, MemoryInv
<1>3. IsFiniteSet(Started)'
  <2>1. IsFiniteSet(Started \cup {x})
    BY <1>2, FS_AddElement
  <2>. QED
    BY <1>2, <2>1
<1>4. ASSUME store = "memory", crashes = 0, NEW p \in Payments
      PROVE  SettledAmount(p)' = SumFunction([y \in Started |-> AnnouncedAmount(p, y)])'
  <2>. DEFINE a == [y \in Started |-> AnnouncedAmount(p, y)]
              b == [y \in Started' |-> AnnouncedAmount(p, y)']
  <2>1. AnnouncedAmount(p, x)' = 0
    <3>1. SumFunction([i \in DOMAIN log[x] |-> Told(p, log[x][i])]) = 0
      BY <1>1, NothingAdded
    <3>2. UNCHANGED log /\ pc'[x] # "emit"
      BY <1>1
    <3>. QED
      BY <3>1, <3>2 DEF AnnouncedAmount, Told, Share
  <2>2. b[x] = 0 /\ DOMAIN a = Started /\ DOMAIN b = Started \cup {x}
    BY <1>2, <2>1
  <2>3. \A y \in Started : a[y] \in Int /\ b[y] = a[y]
    <3>1. \A y \in Started : AnnouncedAmount(p, y) \in Int
      BY AnnouncedAreInts DEF AmountsAnnounced, Started
    <3>2. \A y \in Started : AnnouncedAmount(p, y)' = AnnouncedAmount(p, y)
      BY <1>1, <1>2 DEF Started, AnnouncedAmount, Entry
    <3>. QED
      BY <1>2, <3>1, <3>2
  <2>4. SumFunctionOnSet(b, Started \cup {x}) = SumFunctionOnSet(a, Started) + b[x]
    <3>. HIDE DEF a, b
    <3>1. b[x] \in Int
      BY <2>2
    <3>. QED
      BY <1>2, <2>3, <3>1, SumGrows, Zenon
  <2>5. SumFunctionOnSet(a, Started) \in Int
    <3>. HIDE DEF a, b
    <3>. QED
      BY <1>2, <2>3, SumType, Zenon
  <2>6. SumFunctionOnSet(b, Started \cup {x}) = SumFunctionOnSet(a, Started)
    <3>. HIDE DEF a, b
    <3>. QED
      BY <2>2, <2>4, <2>5
  <2>7. SumFunction(b) = SumFunction(a)
    BY <2>2, <2>6, Zenon DEF SumFunction
  <2>8. SettledAmount(p) = SumFunction(a)
    BY <1>4 DEF MemoryInv, MemoryMatchesLog
  <2>9. SettledAmount(p)' = SettledAmount(p)
    BY <1>1 DEF SettledAmount
  <2>. QED
    BY <2>7, <2>8, <2>9
<1>. QED
  BY <1>1, <1>3, <1>4 DEF MemoryInv, MemoryMatchesLog

\* What a pass reports as settled it had handed to the store.
LEMMA ReportMemory ==
  ASSUME IInv, IInv', MemoryInv, NEW x \in Passes, Break(x) \/ Complete(x)
  PROVE  MemoryInv'
<1>. DEFINE r == [type |-> IF pc[x] = "emit" THEN "completed" ELSE "break", entry |-> Entry(x)]
<1>1. /\ pc[x] \in {"break", "emit"} /\ pc'[x] \in {"done", "get"}
      /\ UNCHANGED <<store, settles, crashes>>
      /\ log' = [log EXCEPT ![x] = Append(log[x], r)]
      /\ \A y \in Passes \ {x} : pc'[y] = pc[y] /\ log'[y] = log[y] /\ todo'[y] = todo[y]
      /\ log'[x] = Append(log[x], r)
  BY DEF Break, Complete, NextEntry, Goto, Emit, IInv, TypeOK, tables
<1>2. log[x] \in Seq(Results) /\ r \in Results
  <2>1. Entry(x) \in EntrySet
    BY <1>1, EntryInSet DEF IInv, PassInv, PassPositions, PassSteps
  <2>. QED
    BY <2>1 DEF Results, IInv, TypeOK
<1>3. x \in Started /\ IsFiniteSet(Started)
  BY <1>1 DEF Started, MemoryInv
<1>4. ASSUME NEW p \in Payments
      PROVE  AnnouncedAmount(p, x)' = AnnouncedAmount(p, x)
  <2>. DEFINE before == SumFunction([i \in DOMAIN log[x] |-> Told(p, log[x][i])])
              after == SumFunction([i \in DOMAIN Append(log[x], r)
                                       |-> Told(p, Append(log[x], r)[i])])
  <2>1. before \in Int /\ after = before + Told(p, r)
    <3>. HIDE DEF r
    <3>. QED
      BY <1>2, ToldAppended
  <2>2. Told(p, r) = IF pc[x] = "emit" THEN Share(p, Entry(x)) ELSE 0
    BY DEF Told
  <2>3. AnnouncedAmount(p, x) = before + IF pc[x] = "emit" THEN Share(p, Entry(x)) ELSE 0
    BY DEF AnnouncedAmount
  <2>4. Told(p, r) \in Int
    BY <1>2, AmountsAreInts
  <2>5. AnnouncedAmount(p, x)' = after + 0
    <3>. HIDE DEF r
    <3>1. (pc[x] # "emit")'
      BY <1>1
    <3>. QED
      BY <1>1, <3>1 DEF AnnouncedAmount, Told, Share
  <2>. HIDE DEF before, after, r
  <2>. QED
    BY <2>1, <2>2, <2>3, <2>4, <2>5
<1>5. ASSUME store = "memory", crashes = 0, NEW p \in Payments
      PROVE  SettledAmount(p)' = SumFunction([y \in Started |-> AnnouncedAmount(p, y)])'
  <2>. DEFINE sum == SumFunction([y \in Started |-> AnnouncedAmount(p, y)])
  <2>1. sum \in Int /\ sum' = sum + (AnnouncedAmount(p, x)' - AnnouncedAmount(p, x))
    BY <1>1, <1>3, OnePassMoved
  <2>2. AnnouncedAmount(p, x)' = AnnouncedAmount(p, x) /\ AnnouncedAmount(p, x) \in Int
    BY <1>4, AnnouncedAreInts DEF AmountsAnnounced
  <2>3. SettledAmount(p) = sum
    BY <1>5 DEF MemoryInv, MemoryMatchesLog
  <2>4. SettledAmount(p)' = SettledAmount(p)
    BY <1>1 DEF SettledAmount
  <2>. HIDE DEF sum
  <2>5. sum' = sum
    BY <2>1, <2>2
  <2>. QED
    BY <2>3, <2>4, <2>5 DEF sum
<1>6. Started' = Started
  BY <1>1 DEF Started
<1>. QED
  BY <1>1, <1>3, <1>5, <1>6 DEF MemoryInv, MemoryMatchesLog

\* What memory books, the pass is about to announce.
LEMMA AddMemory ==
  ASSUME IInv, IInv', MemoryInv, NEW x \in Passes, Add(x)
  PROVE  MemoryInv'
<1>1. /\ pc[x] = "add" /\ pc'[x] = "emit" /\ todo[x] # <<>>
      /\ UNCHANGED <<store, log, todo, crashes>>
      /\ store = "memory" => settles' = Append(settles, Entry(x))
      /\ \A y \in Passes \ {x} : pc'[y] = pc[y]
  BY DEF Add, AddSettle, Fails, Goto, IInv, TypeOK, PassInv, PassPositions, PassSteps
<1>2. Entry(x) \in EntrySet /\ settles \in Seq(EntrySet) /\ log[x] \in Seq(Results)
  BY <1>1, EntryInSet DEF IInv, TypeOK
<1>3. x \in Started /\ IsFiniteSet(Started) /\ Started' = Started
  BY <1>1 DEF Started, MemoryInv
<1>4. ASSUME store = "memory", crashes = 0, NEW p \in Payments
      PROVE  SettledAmount(p)' = SumFunction([y \in Started |-> AnnouncedAmount(p, y)])'
  <2>. DEFINE sum == SumFunction([y \in Started |-> AnnouncedAmount(p, y)])
  <2>1. sum \in Int /\ sum' = sum + (AnnouncedAmount(p, x)' - AnnouncedAmount(p, x))
    BY <1>1, <1>3, OnePassMoved
  <2>2. AnnouncedAmount(p, x)' = AnnouncedAmount(p, x) + Share(p, Entry(x))
    <3>. DEFINE told == SumFunction([i \in DOMAIN log[x] |-> Told(p, log[x][i])])
    <3>1. AnnouncedAmount(p, x) = told + 0
      BY <1>1 DEF AnnouncedAmount
    <3>2. AnnouncedAmount(p, x)' = told + Share(p, Entry(x))
      <4>1. UNCHANGED <<log, todo>> /\ pc'[x] = "emit"
        BY <1>1
      <4>2. told' = told
        BY <4>1 DEF Told, Share
      <4>3. AnnouncedAmount(p, x)' = told' + IF pc'[x] = "emit" THEN Share(p, Entry(x))' ELSE 0
        BY Zenon DEF AnnouncedAmount
      <4>4. Share(p, Entry(x))' = Share(p, Entry(x))
        BY <4>1 DEF Share, Entry
      <4>. HIDE DEF told
      <4>. QED
        BY <4>1, <4>2, <4>3, <4>4
    <3>3. told \in Int
      <4>1. [type |-> "completed", entry |-> Entry(x)] \in Results
        BY <1>2 DEF Results
      <4>. QED
        BY <1>2, <4>1, ToldAppended
    <3>. HIDE DEF told
    <3>. QED
      BY <3>1, <3>2, <3>3
  <2>3. Share(p, Entry(x)) \in Int /\ AnnouncedAmount(p, x) \in Int
    BY <1>2, AmountsAreInts, AnnouncedAreInts DEF AmountsAnnounced
  <2>4. SettledAmount(p)' = SettledAmount(p) + Share(p, Entry(x))
    <3>1. settles' = Append(settles, Entry(x))
      BY <1>1, <1>4
    <3>2. SettledAmount(p)'
             = SumFunction([i \in DOMAIN Append(settles, Entry(x))
                               |-> Share(p, Append(settles, Entry(x))[i])])
      BY <3>1 DEF SettledAmount, Share
    <3>. QED
      BY <1>2, <3>2, ShareAppended DEF SettledAmount
  <2>5. SettledAmount(p) = sum
    BY <1>4 DEF MemoryInv, MemoryMatchesLog
  <2>. HIDE DEF sum
  <2>6. SettledAmount(p)' = sum'
    BY <2>1, <2>2, <2>3, <2>4, <2>5
  <2>. QED
    BY <2>6 DEF sum
<1>. QED
  BY <1>1, <1>3, <1>4 DEF MemoryInv, MemoryMatchesLog

\* The store of a fresh process holds nothing and nothing was announced.
LEMMA MemoryInit == Init => MemoryInv
<1>. SUFFICES ASSUME Init PROVE MemoryInv
  OBVIOUS
<1>1. Started = {}
  BY DEF Init, Started
<1>2. IsFiniteSet(Started)
  BY <1>1, FS_EmptySet
<1>3. ASSUME NEW p PROVE SettledAmount(p) = SumFunction([x \in Started |-> AnnouncedAmount(p, x)])
  <2>1. DOMAIN settles = {}
    BY DEF Init
  <2>2. SettledAmount(p) = 0
    BY <2>1, NothingAdded DEF SettledAmount
  <2>3. DOMAIN [x \in Started |-> AnnouncedAmount(p, x)] = {}
    BY <1>1
  <2>. QED
    BY <2>2, <2>3, NothingAdded
<1>. QED
  BY <1>2, <1>3 DEF MemoryInv, MemoryMatchesLog

\* Every step books and announces the same of each payment.
LEMMA MemoryStep == IInv /\ MemoryInv /\ [Next]_vars => MemoryInv'
<1>. SUFFICES ASSUME IInv, MemoryInv, [Next]_vars PROVE MemoryInv'
  OBVIOUS
<1>1. IInv'
  BY NextInv
<1>2. ASSUME NEW x \in Passes, NEW f \in Files, Ingest(x, f) PROVE MemoryInv'
  BY <1>1, <1>2, IngestMemory
<1>3. ASSUME NEW x \in Passes, MatchEntries(x) PROVE MemoryInv'
  <2>1. CASE Get(x)
    <3>1. /\ UNCHANGED <<store, settles, log, todo, crashes>>
          /\ \A y \in Passes :
                /\ pc'[y] = "idle" <=> pc[y] = "idle"
                /\ pc'[y] = "emit" <=> pc[y] = "emit"
      BY <2>1 DEF Get, Goto, IInv, TypeOK, tables
    <3>. QED
      BY <3>1, NothingMoved
  <2>2. CASE Break(x) \/ Complete(x)
    BY <1>1, <2>2, ReportMemory
  <2>3. CASE Add(x)
    BY <1>1, <2>3, AddMemory
  <2>. QED
    BY <1>3, <2>1, <2>2, <2>3 DEF MatchEntries
<1>4. ASSUME NEW d \in Disputes, Raise(d) \/ Chargeback(d) PROVE MemoryInv'
  <2>1. UNCHANGED <<store, settles, todo, crashes>>
    BY <1>4 DEF Raise, Chargeback, Lookup, RecordDispute, SaveFailed, Record, Mark, Save, Tell,
                AddChargeback, SetStatus, Upsert, tables
  <2>2. \A x \in Passes : x # d
    BY Apart
  <2>3. \A x \in Passes : pc'[x] = pc[x] /\ log'[x] = log[x]
    BY <1>4, <2>2 DEF Raise, Chargeback, Lookup, RecordDispute, SaveFailed, Record, Mark, Save,
                      Tell, Goto, Emit, IInv, TypeOK
  <2>. QED
    BY <2>1, <2>3, NothingMoved
<1>5. ASSUME NEW p \in Payments, Serve(p) PROVE MemoryInv'
  BY <1>5, NothingMoved DEF Serve, SetStatus, Upsert
<1>6. CASE Crash
  <2>1. UNCHANGED <<store, log>> /\ crashes' # 0
    BY <1>6, SettlementAssumption DEF Crash, IInv, TypeOK
  <2>2. \A x \in Passes : pc'[x] = "idle" <=> pc[x] = "idle"
    BY <1>6 DEF Crash, IInv, TypeOK, Ended
  <2>. QED
    BY <2>1, <2>2, NothingMoved
<1>7. CASE UNCHANGED vars
  BY <1>7, NothingMoved DEF vars
<1>. QED
  BY <1>2, <1>3, <1>4, <1>5, <1>6, <1>7 DEF Next

-----------------------------------------------------------------------------
(* What follows from the invariant                                           *)

\* The tables, the log and the positions of passes and disputes keep their types.
THEOREM TypeCorrect == Spec => []TypeOK
<1>1. IInv => TypeOK
  BY DEF IInv
<1>. QED
  BY <1>1, Invariance, PTL

\* PostgreSQL books a payment once and nothing that no pass announces, unless a
\* restart silenced the pass.
THEOREM SettledOnce == Spec => []SettledOnceAndAnnounced
<1>1. IInv => SettledOnceAndAnnounced
  BY DEF IInv, PassInv
<1>. QED
  BY <1>1, Invariance, PTL

\* What is announced as settled is booked, while statements and memory last.
THEOREM AnnouncedIsBooked == Spec => []CompletedIsBooked
<1>1. IInv => CompletedIsBooked
  BY DEF IInv, PassInv
<1>. QED
  BY <1>1, Invariance, PTL

\* A row is settled by a pass, or charged back by a dispute, only with the record
\* beside it, whatever the service writes before and after and whatever fails.
THEOREM StatusIsRecorded == Spec => []StatusHasRecord
<1>1. IInv => StatusHasRecord
  BY DEF IInv
<1>. QED
  BY <1>1, Invariance, PTL

\* Results and remaining entries are the file's, in its order, at every moment.
THEOREM NoEntrySkipped == Spec => []ResultsFollowFile
<1>1. IInv => ResultsFollowFile
  BY DEF IInv, PassInv
<1>. QED
  BY <1>1, Invariance, PTL

\* A dispute that was answered has its event and its chargeback.
THEOREM DisputesAreRecorded == Spec => []AnsweredDisputesAreRecorded
<1>1. IInv => AnsweredDisputesAreRecorded
  BY DEF IInv, DisputeInv, DisputePositions, Recorded, AnsweredDisputesAreRecorded
<1>. QED
  BY <1>1, Invariance, PTL

\* Memory holds of each payment what was announced, to the amount, whatever is
\* ingested twice or at the same time.
THEOREM MemoryIsAnnounced == Spec => []MemoryMatchesLog
<1>1. MemoryInv => MemoryMatchesLog
  BY DEF MemoryInv
<1>. QED
  BY <1>1, InitInv, NextInv, MemoryInit, MemoryStep, PTL DEF Spec

=============================================================================
