---------------------------- MODULE InvoiceLedger ----------------------------
(***************************************************************************)
(* The life of an invoice in backend/app/services/invoice_service.py and   *)
(* invoice_payment_service.py, run by concurrent HTTP requests (Workers)   *)
(* and by the daily Celery sweep (Sweepers) over PostgreSQL at its default *)
(* isolation level, READ COMMITTED.                                        *)
(*                                                                         *)
(* A handler loads the invoice row with a plain SELECT, decides on what it *)
(* loaded, and flushes at commit, so it is a Load step and a Commit step.  *)
(* The session writes only the columns whose value differs from the loaded *)
(* one, by primary key and with no version check.  A request that is       *)
(* refused (4xx) changes nothing and is left out, except that of a payment *)
(* whose client may be repeating one that was recorded.                    *)
(*                                                                         *)
(* Money is not added up.  amount_paid_kobo is how often the amount of     *)
(* each payment was added into it; net_payable_kobo is a member of Nets;   *)
(* Covers(n, c) is "amount_paid_kobo >= net_payable_kobo".                 *)
(***************************************************************************)
EXTENDS Naturals, FiniteSets

CONSTANTS
    Invoices,        \* primary keys of the organisation's invoices
    References,      \* payment references, unique per organisation
    Nets,            \* values of net_payable_kobo
    Covers(_, _),    \* Covers(n, c): payments counted as often as c says reach n
    BillsOfCharges,  \* invoices whose is_bill_of_charges is set when they are served: only
                     \* mark_served reads the flag, so edits that change it are left out
    Workers,         \* HTTP requests in flight
    Sweepers,        \* executions of tasks.mark_overdue_invoices
    NoInvoice,       \* "no row": a reference that no payment carries
    NoReference,     \* a request that carries no payment reference
    NoNet,           \* no row, or no row read: no net_payable_kobo
    NoWorker,        \* nobody holds the lock on the organisation row
    MaxYear          \* bound: how many calendar years pass

ASSUME LedgerAssumption ==
    /\ IsFiniteSet(Invoices)
    /\ NoInvoice \notin Invoices
    /\ NoReference \notin References
    /\ NoNet \notin Nets
    /\ NoWorker \notin Workers
    /\ BillsOfCharges \subseteq Invoices
    /\ MaxYear \in Nat \ {0}

VARIABLES
    status,    \* Invoice.status, or "absent" before and "deleted" after the row
    number,    \* Invoice.number: year and sequence number, or NoNumber
    lined,     \* the invoices that have at least one line item
    net,       \* Invoice.net_payable_kobo
    credited,  \* how often each payment counts in Invoice.amount_paid_kobo
    served,    \* the invoices whose served_at is set
    payment,   \* the payments table: reference -> invoice, or NoInvoice
    pastDue,   \* the invoices whose due_date has passed
    year,      \* the calendar year
    orgLock,   \* who holds SELECT ... FOR UPDATE on the organisation row
    req,       \* per worker: where its handler is and what it loaded
    due,       \* per sweeper: the rows it loaded and has not committed
    raced      \* history: invoices loaded while another session held them

invoiceVars == <<status, number, lined, net, credited, served, payment>>
clockVars   == <<pastDue, year>>
vars == <<invoiceVars, clockVars, orgLock, req, due, raced>>

(***************************************************************************)
(* Types                                                                   *)
(***************************************************************************)
Payable   == {"sent", "part_paid", "overdue"}
Voidable  == Payable \union {"draft"}
Statuses  == Voidable \union {"paid", "void"}
RowStates == Statuses \union {"absent", "deleted"}

Numbers  == [year : Nat, seq : Nat]
NoNumber == [year |-> 0, seq |-> 0]

\* An amount_paid_kobo is zero only if nothing was added: amounts are positive
\* (PaymentCreate.amount_kobo, gt=0).
Balances == [References -> Nat]
NothingPaid == [r \in References |-> 0]

Idle == [op |-> "idle", inv |-> NoInvoice, ref |-> NoReference, num |-> NoNumber,
         status |-> "absent", credited |-> NothingPaid, net |-> NoNet]

Phases == {"edit", "delete", "issue", "locked", "counted", "void", "serve"}

RequestsOf(ops, refs) ==
    [op : ops, inv : Invoices, ref : refs, num : Numbers,
     status : RowStates, credited : Balances, net : Nets \union {NoNet}]

Requests == {Idle} \union RequestsOf(Phases, {NoReference})
                  \union RequestsOf({"pay", "refused"}, References)

TypeOK ==
    /\ status \in [Invoices -> RowStates]
    /\ number \in [Invoices -> Numbers]
    /\ lined \subseteq Invoices
    /\ net \in [Invoices -> Nets \union {NoNet}]
    /\ credited \in [Invoices -> Balances]
    /\ served \subseteq Invoices
    /\ payment \in [References -> Invoices \union {NoInvoice}]
    /\ pastDue \subseteq Invoices
    /\ year \in 1..MaxYear
    /\ orgLock \in Workers \union {NoWorker}
    /\ req \in [Workers -> Requests]
    /\ due \in [Sweepers -> SUBSET Invoices]
    /\ raced \subseteq Invoices

(***************************************************************************)
(* Sessions                                                                *)
(***************************************************************************)
Exists(i) == status[i] \in Statuses

Recorded(i) == {r \in References : payment[r] = i}

\* Some session has loaded invoice i and has neither committed nor ended.
InFlight(i) ==
    \/ \E w \in Workers : req[w].inv = i /\ req[w].op # "refused"
    \/ \E s \in Sweepers : i \in due[s]

\* The handler of request w has loaded invoice i and goes on as op.
Load(w, i, op) ==
    /\ req[w].op = "idle"
    /\ Exists(i)
    /\ req' = [req EXCEPT ![w] = [Idle EXCEPT !.op = op, !.inv = i]]
    /\ raced' = IF InFlight(i) THEN raced \union {i} ELSE raced
    /\ UNCHANGED <<invoiceVars, clockVars, orgLock, due>>

\* The transaction of w ends, by commit or rollback, and its row lock with it.
Close(w) ==
    /\ req' = [req EXCEPT ![w] = Idle]
    /\ orgLock' = IF orgLock = w THEN NoWorker ELSE orgLock

\* The flush finds its row gone (StaleDataError) or hits a unique constraint.
Rollback(w) ==
    /\ Close(w)
    /\ UNCHANGED <<invoiceVars, clockVars, due, raced>>

\* A client that disconnects or a process that dies, before the commit.
Abort(w) ==
    /\ req[w].op # "idle"
    /\ Rollback(w)

(***************************************************************************)
(* create_invoice, add_line_item, update_line_item, delete_line_item,      *)
(* update_invoice                                                          *)
(***************************************************************************)
PutIn(S, i, in) == IF in THEN S \union {i} ELSE S \ {i}

CreateInvoice(i) ==
    /\ status[i] = "absent"
    /\ status' = [status EXCEPT ![i] = "draft"]
    /\ \E n \in Nets : net' = [net EXCEPT ![i] = n]
    /\ \E has \in BOOLEAN : lined' = PutIn(lined, i, has)
    /\ UNCHANGED <<number, credited, served, payment, clockVars, orgLock, req, due, raced>>

\* Mutant: the draft guard of the edits is missing.
EditLoadAnyStatus(w, i) == Exists(i) /\ Load(w, i, "edit")

EditLoad(w, i) ==
    /\ status[i] = "draft"
    /\ Load(w, i, "edit")

\* An edit may change the lines, the totals and the due date.
EditCommit(w) ==
    LET i == req[w].inv IN
    /\ req[w].op = "edit"
    /\ \/ /\ Exists(i)
          /\ \E n \in Nets : net' = [net EXCEPT ![i] = n]
          /\ \E has \in BOOLEAN : lined' = PutIn(lined, i, has)
          /\ \E late \in BOOLEAN : pastDue' = PutIn(pastDue, i, late)
          /\ Close(w)
          /\ UNCHANGED <<status, number, credited, served, payment, year, due, raced>>
       \/ /\ ~Exists(i)
          /\ Rollback(w)

(***************************************************************************)
(* delete_invoice.  The key of a deleted row is a UUID and never comes     *)
(* back; its payments go with it (ON DELETE CASCADE).                      *)
(***************************************************************************)
DeleteLoad(w, i) ==
    /\ status[i] = "draft"
    /\ i \notin lined
    /\ Load(w, i, "delete")

DeleteCommit(w) ==
    LET i == req[w].inv IN
    /\ req[w].op = "delete"
    /\ status' = [status EXCEPT ![i] = "deleted"]
    /\ number' = [number EXCEPT ![i] = NoNumber]
    /\ lined' = lined \ {i}
    /\ net' = [net EXCEPT ![i] = NoNet]
    /\ credited' = [credited EXCEPT ![i] = NothingPaid]
    /\ served' = served \ {i}
    /\ payment' = [r \in References |-> IF payment[r] = i THEN NoInvoice ELSE payment[r]]
    /\ pastDue' = pastDue \ {i}
    /\ Close(w)
    /\ UNCHANGED <<year, due, raced>>

(***************************************************************************)
(* issue_invoice: the status is read before the organisation row is        *)
(* locked, and not again.                                                  *)
(***************************************************************************)
IssueLoad(w, i) ==
    /\ status[i] = "draft"
    /\ i \in lined
    /\ Load(w, i, "issue")

\* Mutant: the organisation row is read without FOR UPDATE.
IssueWithoutLock(w) ==
    /\ req[w].op = "issue"
    /\ req' = [req EXCEPT ![w].op = "locked"]
    /\ UNCHANGED <<invoiceVars, clockVars, orgLock, due, raced>>

IssueLock(w) ==
    /\ req[w].op = "issue"
    /\ orgLock = NoWorker
    /\ orgLock' = w
    /\ req' = [req EXCEPT ![w].op = "locked"]
    /\ UNCHANGED <<invoiceVars, clockVars, due, raced>>

NumberedIn(y) == {i \in Invoices : number[i].year = y}

\* Mutant: the count is not of this year.
NextNumberOfAllYears ==
    [year |-> year, seq |-> Cardinality({i \in Invoices : number[i] # NoNumber}) + 1]

NextNumber == [year |-> year, seq |-> Cardinality(NumberedIn(year)) + 1]

IssueCount(w) ==
    /\ req[w].op = "locked"
    /\ req' = [req EXCEPT ![w].op = "counted", ![w].num = NextNumber]
    /\ UNCHANGED <<invoiceVars, clockVars, orgLock, due, raced>>

\* uq_invoices_org_number
NumberTaken(n, i) == \E j \in Invoices \ {i} : number[j] = n

IssueCommit(w) ==
    LET i == req[w].inv IN
    /\ req[w].op = "counted"
    /\ \/ /\ Exists(i)
          /\ ~NumberTaken(req[w].num, i)
          /\ number' = [number EXCEPT ![i] = req[w].num]
          /\ status' = [status EXCEPT ![i] = "sent"]
          /\ Close(w)
          /\ UNCHANGED <<lined, net, credited, served, payment, clockVars, due, raced>>
       \/ /\ ~Exists(i) \/ NumberTaken(req[w].num, i)
          /\ Rollback(w)

(***************************************************************************)
(* void_invoice and mark_served                                            *)
(***************************************************************************)
\* Mutant: the balance is not checked.
VoidLoadAnyBalance(w, i) == status[i] \in Voidable /\ Load(w, i, "void")

VoidLoad(w, i) ==
    /\ status[i] \in Voidable
    /\ credited[i] = NothingPaid
    /\ Load(w, i, "void")

VoidCommit(w) ==
    LET i == req[w].inv IN
    /\ req[w].op = "void"
    /\ \/ /\ Exists(i)
          /\ status' = [status EXCEPT ![i] = "void"]
          /\ Close(w)
          /\ UNCHANGED <<number, lined, net, credited, served, payment, clockVars, due, raced>>
       \/ /\ ~Exists(i)
          /\ Rollback(w)

\* Mutant: a draft may be served.
ServeLoadDraft(w, i) ==
    /\ i \in BillsOfCharges
    /\ Load(w, i, "serve")

ServeLoad(w, i) ==
    /\ i \in BillsOfCharges
    /\ status[i] # "draft"
    /\ Load(w, i, "serve")

ServeCommit(w) ==
    LET i == req[w].inv IN
    /\ req[w].op = "serve"
    /\ \/ /\ Exists(i)
          /\ served' = served \union {i}
          /\ Close(w)
          /\ UNCHANGED <<status, number, lined, net, credited, payment, clockVars, due, raced>>
       \/ /\ ~Exists(i)
          /\ Rollback(w)

(***************************************************************************)
(* record_payment.  The status is judged before the reference is looked    *)
(* up; a reference already recorded, found by the lookup or by the unique  *)
(* constraint, changes nothing.                                            *)
(***************************************************************************)
PayLoad(w, i, r) ==
    /\ req[w].op = "idle"
    /\ status[i] \in Payable
    /\ req' = [req EXCEPT ![w] =
         [op |-> "pay", inv |-> i, ref |-> r, num |-> NoNumber,
          status |-> status[i], credited |-> credited[i], net |-> net[i]]]
    /\ raced' = IF InFlight(i) THEN raced \union {i} ELSE raced
    /\ UNCHANGED <<invoiceVars, clockVars, orgLock, due>>

PayRefuse(w, i, r) ==
    /\ req[w].op = "idle"
    /\ Exists(i)
    /\ status[i] \notin Payable
    /\ req' = [req EXCEPT ![w] = [Idle EXCEPT !.op = "refused", !.inv = i, !.ref = r]]
    /\ UNCHANGED <<invoiceVars, clockVars, orgLock, due, raced>>

\* The 422 reaches the client.
Refused(w) ==
    /\ req[w].op = "refused"
    /\ Rollback(w)

\* Mutant: the payment replaces the balance, "=" for "+=".
BalanceReplaced(w) == [NothingPaid EXCEPT ![req[w].ref] = 1]

Balance(w) == [req[w].credited EXCEPT ![req[w].ref] = @ + 1]

\* Mutant: the balance is compared before the payment is added to it.
NewStatusOfOldBalance(w) ==
    IF Covers(req[w].net, req[w].credited) THEN "paid" ELSE "part_paid"

NewStatus(w) == IF Covers(req[w].net, Balance(w)) THEN "paid" ELSE "part_paid"

\* Mutant: no lookup of the reference and no unique constraint.
PayCommitTwice(w) ==
    LET i == req[w].inv IN
    /\ req[w].op = "pay"
    /\ Exists(i)
    /\ credited[i][req[w].ref] < 2
    /\ payment' = [payment EXCEPT ![req[w].ref] = i]
    /\ credited' = [credited EXCEPT ![i] = Balance(w)]
    /\ status' = [status EXCEPT ![i] = NewStatus(w)]
    /\ Close(w)
    /\ UNCHANGED <<number, lined, net, served, clockVars, due, raced>>

\* The session writes amount_paid_kobo always, and status only if its value
\* is no longer the one that was loaded.
PayCommit(w) ==
    LET i == req[w].inv
        r == req[w].ref
    IN
    /\ req[w].op = "pay"
    /\ payment[r] = NoInvoice
    /\ Exists(i)
    /\ payment' = [payment EXCEPT ![r] = i]
    /\ credited' = [credited EXCEPT ![i] = Balance(w)]
    /\ status' = IF NewStatus(w) = req[w].status THEN status
                 ELSE [status EXCEPT ![i] = NewStatus(w)]
    /\ Close(w)
    /\ UNCHANGED <<number, lined, net, served, clockVars, due, raced>>

PayUnchanged(w) ==
    /\ req[w].op = "pay"
    /\ payment[req[w].ref] # NoInvoice \/ ~Exists(req[w].inv)
    /\ Rollback(w)

(***************************************************************************)
(* mark_overdue_invoices: one transaction over every organisation; one row *)
(* that is gone rolls the whole sweep back.                                *)
(***************************************************************************)
\* Mutant: part-paid invoices are not swept.
SweepableSent(i) == status[i] = "sent" /\ i \in pastDue

Sweepable(i) == status[i] \in {"sent", "part_paid"} /\ i \in pastDue

SweepLoad(s) ==
    LET rows == {i \in Invoices : Sweepable(i)} IN
    /\ due[s] = {}
    /\ rows # {}
    /\ due' = [due EXCEPT ![s] = rows]
    /\ raced' = raced \union {i \in rows : InFlight(i)}
    /\ UNCHANGED <<invoiceVars, clockVars, orgLock, req>>

SweepCommit(s) ==
    /\ due[s] # {}
    /\ status' = IF \A i \in due[s] : Exists(i)
                 THEN [i \in Invoices |-> IF i \in due[s] THEN "overdue" ELSE status[i]]
                 ELSE status
    /\ due' = [due EXCEPT ![s] = {}]
    /\ UNCHANGED <<number, lined, net, credited, served, payment, clockVars, orgLock, req, raced>>

SweepAbort(s) ==
    /\ due[s] # {}
    /\ due' = [due EXCEPT ![s] = {}]
    /\ UNCHANGED <<invoiceVars, clockVars, orgLock, req, raced>>

(***************************************************************************)
(* The clock                                                               *)
(***************************************************************************)
PassDue(i) ==
    /\ Exists(i)
    /\ i \notin pastDue
    /\ pastDue' = pastDue \union {i}
    /\ UNCHANGED <<invoiceVars, year, orgLock, req, due, raced>>

NewYear ==
    /\ year < MaxYear
    /\ year' = year + 1
    /\ UNCHANGED <<invoiceVars, pastDue, orgLock, req, due, raced>>

(***************************************************************************)
(* The specification                                                       *)
(***************************************************************************)
Init ==
    /\ status = [i \in Invoices |-> "absent"]
    /\ number = [i \in Invoices |-> NoNumber]
    /\ lined = {}
    /\ net = [i \in Invoices |-> NoNet]
    /\ credited = [i \in Invoices |-> NothingPaid]
    /\ served = {}
    /\ payment = [r \in References |-> NoInvoice]
    /\ pastDue = {}
    /\ year = 1
    /\ orgLock = NoWorker
    /\ req = [w \in Workers |-> Idle]
    /\ due = [s \in Sweepers |-> {}]
    /\ raced = {}

Begin(w) ==
    \E i \in Invoices :
        \/ EditLoad(w, i)
        \/ DeleteLoad(w, i)
        \/ IssueLoad(w, i)
        \/ VoidLoad(w, i)
        \/ ServeLoad(w, i)
        \/ \E r \in References : PayLoad(w, i, r) \/ PayRefuse(w, i, r)

Continue(w) ==
    \/ EditCommit(w)
    \/ DeleteCommit(w)
    \/ IssueLock(w)
    \/ IssueCount(w)
    \/ IssueCommit(w)
    \/ VoidCommit(w)
    \/ ServeCommit(w)
    \/ Refused(w)
    \/ PayCommit(w)
    \/ PayUnchanged(w)

Sweep(s) == SweepLoad(s) \/ SweepCommit(s) \/ SweepAbort(s)

Clock == NewYear \/ \E i \in Invoices : PassDue(i)

Next ==
    \/ \E i \in Invoices : CreateInvoice(i)
    \/ \E w \in Workers : Begin(w) \/ Continue(w) \/ Abort(w)
    \/ \E s \in Sweepers : Sweep(s)
    \/ Clock

Spec == Init /\ [][Next]_vars

(***************************************************************************)
(* Celery beat starts the sweep every day, so it starts again as long as   *)
(* it has rows to flip; not every execution of it is cut short.            *)
(***************************************************************************)
SweepFairness ==
    \A s \in Sweepers : WF_vars(SweepLoad(s)) /\ SF_vars(SweepCommit(s))

LiveSpec == Spec /\ SweepFairness

(***************************************************************************)
(* What no interleaving breaks                                             *)
(***************************************************************************)
Issued == {"sent", "part_paid", "paid", "overdue"}

AtMostOnce(c, i) == \A r \in References : c[r] <= IF payment[r] = i THEN 1 ELSE 0

\* No payment is counted that is not recorded against this invoice, however
\* many requests carry its reference: a replay or a race of two requests with
\* one reference never credits an invoice twice (record_payment).
NoDoubleCredit == \A i \in Invoices : AtMostOnce(credited[i], i)

\* An invoice that is out carries a number, also when the sweep or a payment
\* that loaded it earlier writes its status last (issue_invoice,
\* mark_overdue_invoices, record_payment).
IssuedIsNumbered == \A i \in Invoices : status[i] \in Issued => number[i] # NoNumber

\* Two invoices never carry the same number (issue_invoice and the unique
\* constraint behind it).
NumbersAreUnique ==
    \A i, j \in Invoices : number[i] = number[j] /\ number[i] # NoNumber => i = j

\* An invoice marked paid or part-paid has a payment on record to show for it
\* (record_payment: status and payment row commit together).
ReceiptOnRecord ==
    \A i \in Invoices : status[i] \in {"paid", "part_paid"} => Recorded(i) # {}

\* A bill of charges that was marked served is no draft: the statutory clock
\* runs on a document that went out (mark_served).
ServedHasLeftDraft == \A i \in served : status[i] # "draft"

(***************************************************************************)
(* Why it holds: what a session that has not committed yet knows for sure  *)
(* of the row it is about to write, however old its copy is.               *)
(***************************************************************************)
Kept(i) == status[i] # "deleted"

PendingPay ==
    \A w \in Workers : req[w].op = "pay" /\ Kept(req[w].inv) =>
        /\ AtMostOnce(req[w].credited, req[w].inv)
        /\ number[req[w].inv] # NoNumber

PendingIssue == \A w \in Workers : req[w].op = "counted" => req[w].num # NoNumber

PendingServe ==
    \A w \in Workers : req[w].op = "serve" => status[req[w].inv] \notin {"absent", "draft"}

PendingSweep ==
    \A s \in Sweepers : \A i \in due[s] : Kept(i) => number[i] # NoNumber

Pending == PendingPay /\ PendingIssue /\ PendingServe /\ PendingSweep

ServedExists == \A i \in served : status[i] # "absent"

LedgerInv ==
    /\ TypeOK
    /\ NoDoubleCredit
    /\ IssuedIsNumbered
    /\ NumbersAreUnique
    /\ ReceiptOnRecord
    /\ ServedHasLeftDraft
    /\ ServedExists
    /\ Pending

(***************************************************************************)
(* What holds of an invoice that no two sessions have held at once: the    *)
(* handlers are right one after the other, and overlap on the same invoice *)
(* is the only thing that breaks them.                                     *)
(***************************************************************************)

\* amount_paid_kobo counts every recorded payment: none is lost.
NoPaymentLost == \A i \in Invoices \ raced : \A r \in Recorded(i) : credited[i][r] >= 1

\* The status says what the payments say: paid exactly when they cover the net
\* amount, part_paid when some but not enough came in, and nothing was ever
\* paid on a draft, a void invoice or one just sent.  An overdue invoice that
\* has payments is still not covered.
StatusFollowsPayments ==
    \A i \in Invoices \ raced :
        LET covered == Covers(net[i], credited[i]) IN
        CASE status[i] = "paid"      -> covered
          [] status[i] = "part_paid" -> credited[i] # NothingPaid /\ ~covered
          [] status[i] = "overdue"   -> credited[i] # NothingPaid => ~covered
          [] OTHER                   -> credited[i] = NothingPaid

\* Issued totals are final: the net amount and the number of an invoice that is
\* out never change and its row never goes (the draft guards of the edits, of
\* issue_invoice and of delete_invoice).
IssuedIsFinal ==
    [][\A i \in Invoices \ raced' :
         status[i] \in Issued =>
            /\ status'[i] \in Issued \union {"void"}
            /\ net'[i] = net[i]
            /\ number'[i] = number[i]]_vars

\* The numbers of a year are 1, 2, ... with no gap, whatever drafts were
\* abandoned, deleted or rolled back in between (issue_invoice; the comment on
\* Invoice.number).
NumbersHaveNoGap ==
    raced = {} =>
        \A y \in 1..MaxYear :
            {number[i].seq : i \in NumberedIn(y)} = 1..Cardinality(NumberedIn(y))

\* A number that a request holding the organisation lock has counted is free
\* until it commits, so issuing never fails on the unique constraint.
CountedNumberIsFree ==
    raced = {} =>
        \A w \in Workers : req[w].op = "counted" => ~NumberTaken(req[w].num, req[w].inv)

(***************************************************************************)
(* Progress: an invoice past its due date does not stay sent or part-paid  *)
(* for ever (mark_overdue_invoices), also when payments keep resetting it, *)
(* executions die and a deleted row rolls one back.                        *)
(***************************************************************************)
Lagging(i) == status[i] \in {"sent", "part_paid"} /\ i \in pastDue

SweepCatchesUp == \A i \in Invoices : Lagging(i) ~> ~Lagging(i)

(***************************************************************************)
(* What the code says and the code does not do                             *)
(***************************************************************************)

\* "Cannot void an invoice with recorded payments" (void_invoice): a void
\* invoice has no payment on record.
VoidHasNoPayments == \A i \in Invoices : status[i] = "void" => Recorded(i) = {}

\* "can't both count the same existing number and produce a duplicate"
\* (issue_invoice): the number a request has counted is not in use.
NumberIsFresh ==
    \A w \in Workers : req[w].op = "counted" => ~NumberTaken(req[w].num, req[w].inv)
=============================================================================
