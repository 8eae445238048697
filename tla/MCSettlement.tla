---------------------------- MODULE MCSettlement ----------------------------
(* Settlement files for Settlement.                                         *)
EXTENDS Settlement, TLC

CONSTANTS x1, x2, d1, p1, p2

File(format, header, lines) ==
    [format |-> format, wellformed |-> TRUE, header |-> header, lines |-> lines]

Line(p, a) == [pid |-> p, amount |-> a]

\* Two payments in one file; an unreadable line; a bank statement with an unnamed
\* transaction and two partial settlements of one payment; a report of a payment.
AllFiles ==
    {File("nacha", TRUE, <<Line(p1, 1), Line(p2, 2)>>),
     File("npci", FALSE, <<Line(p1, BadAmount)>>),
     File("camt", FALSE, <<[refs |-> <<p1, NoRef>>, amount |-> 3],
                           [refs |-> <<p1>>, amount |-> BadAmount]>>),
     File("spi", FALSE, <<Line(p2, 2)>>)}

\* Two partial settlements of one payment.
PartialSettlements == {File("npci", FALSE, <<Line(p1, 1), Line(p1, 2)>>)}

PassSymmetry == Permutations(Passes)

\* The dispute is about the first payment.
DisputeOfFirst == [d \in Disputes |-> p1]
=============================================================================
