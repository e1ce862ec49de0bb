----------------------------- MODULE MCBootLoad -----------------------------
(* Programs for the model checker: sections of different lengths, one        *)
(* without data, one that holds the loader's command.                        *)
EXTENDS BootLoad

MCByte == {1, 2, 3, 4, 9, 45, 112}
TwoSections == [inst |-> <<1, 2>>, data |-> <<3>>]
NoData      == [inst |-> <<4>>, data |-> << >>]
HoldsDashP  == [inst |-> <<45, 112>>, data |-> <<3, 4>>]

MCImages == {TwoSections, NoData, HoldsDashP}
=============================================================================
