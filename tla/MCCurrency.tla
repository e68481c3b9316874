----------------------------- MODULE MCCurrency -----------------------------
(* The yen and the pound beside the dollar, and the krona, which the       *)
(* bundled document does not list; two amounts, and two request objects so *)
(* that one could overtake the other.                                      *)
EXTENDS Currency
=============================================================================
