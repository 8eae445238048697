---------------------------- MODULE MCNachaFile ----------------------------
(* Files for NachaFile: up to two batches of up to two entries, with amounts *)
(* at the edges of the columns of an entry and of a total.                   *)
EXTENDS NachaFile

Amounts == {0, Power(AmountWidth) - 1, Power(AmountWidth), Power(TotalWidth)}

AnEntry == [amount : Amounts, hash : {1, 7}]
ABatch == BoundedSeq(AnEntry, 2)

\* Files with 10 to 21 records, which fit and fill a block, or two, or just do not,
\* and with 63 and 64, where their number leaves its two columns.
LongFiles ==
    {<<[i \in 1 .. n |-> [amount |-> 1, hash |-> 1]]>> : n \in (6 .. 17) \cup {59, 60}}

SmallFiles ==
    BoundedSeq(ABatch, 2) \cup LongFiles \cup {<< <<[amount |-> -1, hash |-> 1]>> >>}
=============================================================================
