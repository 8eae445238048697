----------------------------- MODULE NachaFile -----------------------------
(***************************************************************************)
(* The bank file of the ACH adapter (internal/ach/nacha): Encode writes    *)
(* batches of entries as lines of fixed columns, Validate reads such a     *)
(* file and compares its control line with what it counts.  A number is    *)
(* padded to its columns and not cut, so one that is too wide moves what   *)
(* follows it, while Validate reads by columns.                            *)
(*                                                                         *)
(* The widths and the radix are parameters, the code's being 10, 6, 12, 10 *)
(* and ten; int64 overflow is beyond any amount and left out.  Names, ids, *)
(* dates and blanks are left out; of a routing number only its digit sum   *)
(* is kept.                                                                *)
(***************************************************************************)
EXTENDS Integers, SequencesExt

CONSTANTS
    Radix,
    AmountWidth,    \* columns of an entry's amount
    CountWidth,     \* and, in a control line, of its count,
    TotalWidth,     \* total
    HashWidth,      \* and hash
    Files           \* the files to be written: sequences of batches of entries

ASSUME NachaAssumption ==
    /\ Radix \in Nat \ {0, 1}
    /\ {AmountWidth, CountWidth, TotalWidth, HashWidth} \subseteq Nat \ {0}
    /\ Files \subseteq Seq(Seq([amount : Int, hash : Nat]))

BlockSize == 10

Kinds == {"header", "batch", "entry", "batchControl", "control"}

VARIABLES
    file,       \* what was asked for
    lines,      \* what was written
    verdict     \* how it ended

vars == <<file, lines, verdict>>

TypeOK ==
    /\ file \in Files
    /\ lines \in Seq([kind : Kinds, digits : Seq(0 .. Radix - 1), hash : Nat])
    /\ verdict \in {"none", "refused", "written", "accepted", "rejected"}

-----------------------------------------------------------------------------
(* Numbers in columns                                                        *)

\* The digits after a leading number, read as parseInt does.
Value(lead, digits) ==
    LET v[k \in 0 .. Len(digits)] ==
            IF k = 0 THEN lead ELSE v[k - 1] * Radix + digits[k]
    IN  v[Len(digits)]

\* A one and k zeros.
Power(k) == Value(1, [i \in 1 .. k |-> 0])

Length(n) ==
    CHOOSE k \in 1 .. n + 1 : n < Power(k) /\ \A j \in 1 .. k - 1 : n >= Power(j)

\* Mutant: a digit keeps those before it.
ColumnsUncut(n, width) ==
    LET len == Max({width, Length(n)}) IN
    [i \in 1 .. len |-> n \div Power(len - i)]

\* What "%0<width>d" prints.
Columns(n, width) ==
    LET len == Max({width, Length(n)}) IN
    [i \in 1 .. len |-> (n \div Power(len - i)) % Radix]

\* A number read from its columns, after those of the fields before it.
Field(line, before, width) ==
    Value(0, [i \in 1 .. width |-> line.digits[before + i]])

-----------------------------------------------------------------------------
(* Encode                                                                    *)

Line(kind, digits) == [kind |-> kind, digits |-> digits, hash |-> 0]

EntryLine(e) ==
    [kind |-> "entry", digits |-> Columns(e.amount, AmountWidth), hash |-> e.hash]

Control(kind, count, amount, hash) ==
    Line(kind, Columns(count, CountWidth) \o Columns(amount, TotalWidth)
                   \o Columns(hash, HashWidth))

Entries(f) == FlattenSeq(f)
Amount(entries) == SumFunction([i \in DOMAIN entries |-> entries[i].amount])
Hash(entries) == SumFunction([i \in DOMAIN entries |-> entries[i].hash])

Detail(entries) == [i \in DOMAIN entries |-> EntryLine(entries[i])]

\* Mutant: the sums of a batch go on from those of the batch before.
BatchGoesOn(f, b) ==
    LET sofar == Entries(SubSeq(f, 1, b)) IN
    <<Line("batch", <<>>)>> \o Detail(f[b])
        \o <<Control("batchControl", Len(f[b]) + 1, Amount(sofar), Hash(sofar))>>

Batch(f, b) ==
    <<Line("batch", <<>>)>> \o Detail(f[b])
        \o <<Control("batchControl", Len(f[b]) + 1, Amount(f[b]), Hash(f[b]))>>

\* Mutant: the file's own two records are not counted.
RecordsOfBatches(f) == Len(Entries(f)) + 2 * Len(f)

Records(f) == Len(Entries(f)) + 2 * Len(f) + 2

\* Mutant: a full block gets another one.
FillerAlways(f) ==
    [i \in 1 .. BlockSize - (Records(f) % BlockSize) |-> Line("control", <<>>)]

\* Lines of nines, which begin like a control line, up to the end of the block.
Filler(f) ==
    [i \in 1 .. (BlockSize - (Records(f) % BlockSize)) % BlockSize |-> Line("control", <<>>)]

FileLines(f) ==
    <<Line("header", <<>>)>>
        \o FlattenSeq([b \in DOMAIN f |-> Batch(f, b)])
        \o <<Control("control", Records(f), Amount(Entries(f)), Hash(Entries(f)))>>
        \o Filler(f)

\* A negative amount is refused; so is an id or a routing number of a wrong length.
Writable(f) == \A i \in DOMAIN Entries(f) : Entries(f)[i].amount >= 0

-----------------------------------------------------------------------------
(* Validate                                                                  *)

\* The lines of one kind, in their order.
LinesOf(written, kind) ==
    FlattenSeq([i \in DOMAIN written |->
                   IF written[i].kind = kind THEN <<written[i]>> ELSE <<>>])

\* The sum of a field over lines.
Read(those, before, width) ==
    SumFunction([i \in DOMAIN those |-> Field(those[i], before, width)])

\* The first control line decides, by what has been counted before it.
FirstControl(written) ==
    CHOOSE i \in DOMAIN written :
        /\ written[i].kind = "control"
        /\ \A j \in 1 .. i - 1 : written[j].kind # "control"

\* Mutant: the total is not compared.
MatchesCounts(line, counted) ==
    LET entries == LinesOf(counted, "entry") IN
    /\ Field(line, 0, CountWidth) = Len(entries) + 2 * Len(LinesOf(counted, "batch")) + 2
    /\ Field(line, CountWidth + TotalWidth, HashWidth) = Hash(entries)

Matches(line, counted) ==
    LET entries == LinesOf(counted, "entry") IN
    /\ Field(line, 0, CountWidth) = Len(entries) + 2 * Len(LinesOf(counted, "batch")) + 2
    /\ Field(line, CountWidth, TotalWidth) = Read(entries, 0, AmountWidth)
    /\ Field(line, CountWidth + TotalWidth, HashWidth) = Hash(entries)

Valid(written) ==
    /\ written # <<>>
    /\ Head(written).kind = "header"
    /\ Last(written).kind = "control"
    /\ LET c == FirstControl(written) IN
       Matches(written[c], SubSeq(written, 1, c - 1))

-----------------------------------------------------------------------------
Init ==
    /\ file \in Files
    /\ lines = <<>>
    /\ verdict = "none"

Encode ==
    /\ verdict = "none"
    /\ IF Writable(file)
          THEN lines' = FileLines(file) /\ verdict' = "written"
          ELSE verdict' = "refused" /\ UNCHANGED lines
    /\ UNCHANGED file

Validate ==
    /\ verdict = "written"
    /\ verdict' = IF Valid(lines) THEN "accepted" ELSE "rejected"
    /\ UNCHANGED <<file, lines>>

Next == Encode \/ Validate

Spec == Init /\ [][Next]_vars

-----------------------------------------------------------------------------
(* Properties                                                                *)

TotalFits == Amount(Entries(file)) < Power(TotalWidth)

\* A file that Validate accepts says, column by column, what was asked for, if its
\* total fits: no entry and no count that overflowed its columns goes unnoticed.
\* (A total that does not moves the hash, and what is then read may match: with ten
\* digits a hundred entries of 10^10 whose hashes are zero.)
AcceptedIsAsAsked ==
    verdict = "accepted" /\ TotalFits =>
        LET entries == LinesOf(lines, "entry")
            control == Head(LinesOf(lines, "control")) IN
        /\ Len(entries) = Len(Entries(file))
        /\ \A i \in DOMAIN entries :
              Field(entries[i], 0, AmountWidth) = Entries(file)[i].amount
        /\ Field(control, 0, CountWidth) = Records(file)
        /\ Field(control, CountWidth, TotalWidth) = Amount(Entries(file))

\* Then the controls of the batches, which Validate does not read, add up to the
\* control of the file.
BatchControlsAddUp ==
    verdict = "accepted" /\ TotalFits =>
        LET controls == LinesOf(lines, "batchControl")
            control == Head(LinesOf(lines, "control")) IN
        /\ Read(controls, CountWidth, TotalWidth) = Field(control, CountWidth, TotalWidth)
        /\ Read(controls, CountWidth + TotalWidth, HashWidth)
              = Field(control, CountWidth + TotalWidth, HashWidth)

Fits ==
    /\ \A i \in DOMAIN Entries(file) : Entries(file)[i].amount < Power(AmountWidth)
    /\ Records(file) < Power(CountWidth)
    /\ TotalFits
    /\ Hash(Entries(file)) < Power(HashWidth)

\* A file whose numbers fit their columns is accepted, whatever its batches.
FittingIsAccepted == verdict = "rejected" => ~Fits

\* A written file ends with its block: what follows its control line fills the last
\* block, and none is all filler.
BlocksAreFull ==
    lines # <<>> =>
        /\ Len(lines) % BlockSize = 0
        /\ Len(LinesOf(lines, "control")) <= BlockSize

=============================================================================
