----------------------- MODULE InvoiceLedgerRefinement -----------------------
(***************************************************************************)
(* InvoiceLedger implements AtomicLedger.  The balance, the locks and the  *)
(* requests in flight are hidden; the commit of a request is its atomic    *)
(* step, and every other step stutters.                                    *)
(***************************************************************************)
EXTENDS InvoiceLedger

Atomic == INSTANCE AtomicLedger WITH contended <- raced # {}

\* As long as no two sessions hold one invoice at once, requests on different
\* invoices interleave without a trace: each is one atomic step that decides on
\* the committed state (every handler of invoice_service.py and
\* invoice_payment_service.py).
ImplementsAtomicLedger == Atomic!Spec
=============================================================================
