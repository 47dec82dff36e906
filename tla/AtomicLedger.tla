----------------------------- MODULE AtomicLedger -----------------------------
(***************************************************************************)
(* What the invoice endpoints promise: every request is one atomic step,   *)
(* what an invoice has been paid is what the payments table holds for it,  *)
(* and the numbers of a year are handed out one after the other.           *)
(*                                                                         *)
(* The promise is given as long as no two sessions hold the same invoice   *)
(* at once.  From then on the ledger is contended and anything may happen. *)
(***************************************************************************)
EXTENDS Naturals, FiniteSets

CONSTANTS
    Invoices,    \* as in InvoiceLedger
    References,
    Nets,
    Covers(_, _),
    NoInvoice,
    NoNet,
    MaxYear

VARIABLES
    status,      \* "absent", an InvoiceStatus, or "deleted"
    number,      \* year and sequence number
    lined,       \* the invoices that have line items
    net,         \* the amount due
    payment,     \* reference -> invoice
    contended    \* two sessions have held one invoice

vars == <<status, number, lined, net, payment, contended>>

Unnumbered == [year |-> 0, seq |-> 0]

\* The payments on record for i, each counted once.
Paid(i) == [r \in References |-> IF payment[r] = i THEN 1 ELSE 0]

Init ==
    /\ status = [i \in Invoices |-> "absent"]
    /\ number = [i \in Invoices |-> Unnumbered]
    /\ lined = {}
    /\ net = [i \in Invoices |-> NoNet]
    /\ payment = [r \in References |-> NoInvoice]
    /\ contended = FALSE

\* Lines and totals are whatever the request makes them.
Write(i) ==
    /\ lined' \in {lined \union {i}, lined \ {i}}
    /\ \E n \in Nets : net' = [net EXCEPT ![i] = n]
    /\ UNCHANGED <<number, payment>>

Create(i) ==
    /\ status[i] = "absent"
    /\ status' = [status EXCEPT ![i] = "draft"]
    /\ Write(i)

Edit(i) ==
    /\ status[i] = "draft"
    /\ Write(i)
    /\ UNCHANGED status

Delete(i) ==
    /\ status[i] = "draft"
    /\ i \notin lined
    /\ status' = [status EXCEPT ![i] = "deleted"]
    /\ net' = [net EXCEPT ![i] = NoNet]
    /\ UNCHANGED <<number, lined, payment>>

Issue(i, y) ==
    /\ status[i] = "draft"
    /\ i \in lined
    /\ status' = [status EXCEPT ![i] = "sent"]
    /\ number' = [number EXCEPT ![i] =
         [year |-> y, seq |-> Cardinality({j \in Invoices : number[j].year = y}) + 1]]
    /\ UNCHANGED <<lined, net, payment>>

Void(i) ==
    /\ status[i] \in {"draft", "sent", "part_paid", "overdue"}
    /\ \A r \in References : payment[r] # i
    /\ status' = [status EXCEPT ![i] = "void"]
    /\ UNCHANGED <<number, lined, net, payment>>

Pay(i, r) ==
    /\ status[i] \in {"sent", "part_paid", "overdue"}
    /\ payment[r] = NoInvoice
    /\ payment' = [payment EXCEPT ![r] = i]
    /\ status' = [status EXCEPT ![i] =
         IF Covers(net[i], [Paid(i) EXCEPT ![r] = 1]) THEN "paid" ELSE "part_paid"]
    /\ UNCHANGED <<number, lined, net>>

FallDue(S) ==
    /\ \A i \in S : status[i] \in {"sent", "part_paid"}
    /\ status' = [i \in Invoices |-> IF i \in S THEN "overdue" ELSE status[i]]
    /\ UNCHANGED <<number, lined, net, payment>>

Step ==
    \/ \E i \in Invoices :
        \/ Create(i)
        \/ Edit(i)
        \/ Delete(i)
        \/ \E y \in 1..MaxYear : Issue(i, y)
        \/ Void(i)
        \/ \E r \in References : Pay(i, r)
    \/ \E S \in SUBSET Invoices : FallDue(S)

Next == \/ contended'
        \/ ~contended /\ ~contended' /\ Step

Spec == Init /\ [][Next]_vars
=============================================================================
