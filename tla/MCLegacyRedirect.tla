--------------------------- MODULE MCLegacyRedirect ---------------------------
(***************************************************************************)
(* Four fragments: an id of both pages, one that has gone, and one whose   *)
(* namesake on index.html is something else, with its replacement.         *)
(***************************************************************************)
EXTENDS LegacyRedirect

CONSTANTS claims, witness, receiptSummary, legacyReceiptSummary

MCNames == {claims, witness, receiptSummary, legacyReceiptSummary}
MCOnPage == {claims, receiptSummary, legacyReceiptSummary}
MCTarget == [n \in MCNames |-> IF n = receiptSummary THEN legacyReceiptSummary ELSE n]
=============================================================================
