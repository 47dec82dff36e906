-------------------------- MODULE MCInvoiceDrafting --------------------------
(***************************************************************************)
(* Small instances of InvoiceDrafting.                                     *)
(***************************************************************************)
EXTENDS InvoiceDrafting, TLC

MCSymmetry ==
    UNION {Permutations(S) : S \in {Invoices, Lines, Workers, Amounts, Taxes}}
=============================================================================
