--------------------------- MODULE SettlementFiles ---------------------------
(***************************************************************************)
(* The settlement files the rails deliver and what the parsers of          *)
(* internal/settlement read from them.  A file says whether it is          *)
(* well-formed CSV, JSON or XML, whether it has a header line (CSV only),  *)
(* and its lines.  A line of a CSV or SPI file names one payment, an entry *)
(* of a bank statement any number of them; an amount may be unreadable.    *)
(***************************************************************************)
EXTENDS Integers, Sequences, SequencesExt

CONSTANTS
    BadAmount,      \* what does not parse as a decimal
    NoRef           \* a transaction without a creditor reference

CsvAccepts(f) ==
    /\ f.wellformed
    /\ f.header \/ f.lines # <<>>
    /\ \A i \in DOMAIN f.lines : f.lines[i].amount # BadAmount

\* One unreadable line refuses the whole file.
NachaAccepts(f) == CsvAccepts(f)
NpciAccepts(f) == CsvAccepts(f)
SpiAccepts(f) ==
    /\ f.wellformed
    /\ \A i \in DOMAIN f.lines : f.lines[i].amount # BadAmount
CamtAccepts(f) == f.wellformed

NachaEntries(f) == f.lines
NpciEntries(f) == f.lines
SpiEntries(f) == f.lines

\* Every transaction of a statement entry that names a payment becomes a settled
\* entry with the amount of the statement entry, which is 0 if unreadable.
EntriesFromNtry(n) ==
    LET refs == SelectSeq(n.refs, LAMBDA r : r # NoRef) IN
    [i \in DOMAIN refs |->
        [pid |-> refs[i], amount |-> IF n.amount = BadAmount THEN 0 ELSE n.amount]]

CamtEntries(f) == FlattenSeq([i \in DOMAIN f.lines |-> EntriesFromNtry(f.lines[i])])

Accepts(f) ==
    CASE f.format = "nacha" -> NachaAccepts(f)
      [] f.format = "npci"  -> NpciAccepts(f)
      [] f.format = "spi"   -> SpiAccepts(f)
      [] f.format = "camt"  -> CamtAccepts(f)

Entries(f) ==
    CASE f.format = "nacha" -> NachaEntries(f)
      [] f.format = "npci"  -> NpciEntries(f)
      [] f.format = "spi"   -> SpiEntries(f)
      [] f.format = "camt"  -> CamtEntries(f)

=============================================================================
