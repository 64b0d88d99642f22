--------------------------- MODULE MCAgencyLedger ---------------------------
EXTENDS AgencyLedger

(* Rows of all kinds together: with three entries and two invoices there   *)
(* is one payment, with two payments one entry or one invoice less.        *)
Few == Len(entry) + Len(invoice) + Len(payment) <= 6
=============================================================================
