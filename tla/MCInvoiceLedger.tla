--------------------------- MODULE MCInvoiceLedger ---------------------------
(***************************************************************************)
(* Small instances of InvoiceLedger.  Every payment is of one unit, and a  *)
(* net amount n is covered by n units.                                     *)
(***************************************************************************)
EXTENDS InvoiceLedgerRefinement, TLC

F == INSTANCE Functions

MCCovers(n, c) == F!FoldFunction(LAMBDA a, b : a + b, 0, c) >= n

MCSymmetry ==
    Permutations(Invoices) \union Permutations(References) \union Permutations(Workers)
=============================================================================
