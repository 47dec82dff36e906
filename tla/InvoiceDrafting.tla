--------------------------- MODULE InvoiceDrafting ---------------------------
(***************************************************************************)
(* How a draft gets its lines: invoice_service.py up to the issue of an    *)
(* invoice, disbursement_service.py, and the lines a desktop pushes        *)
(* (sync_service.py).  Requests are concurrent sessions at READ COMMITTED  *)
(* with autoflush off; what a session has flushed holds its row locks      *)
(* until the commit and is seen by nobody else.                            *)
(*                                                                         *)
(* The totals stored on an invoice are the lines and the tax setting they  *)
(* were computed from; tax_engine.py is a function of these.               *)
(***************************************************************************)
EXTENDS Naturals, FiniteSets

CONSTANTS
    Invoices,        \* primary keys, of drafts created and not yet created
    Lines,           \* primary keys of line items
    Amounts,         \* values of amount_kobo
    Disbursements,   \* primary keys of disbursements
    Keys,            \* idempotency keys
    Workers,         \* requests in flight
    Taxes,           \* settings of vat_enabled and wht_enabled
    Overrides,       \* values of vat_kobo and wht_kobo that a PATCH may set
    Synced,          \* invoices that a desktop installation holds as well
    NoInvoice, NoLine, NoAmount, NoDisbursement, NoKey, NoTax

ASSUME DraftingAssumption ==
    /\ NoInvoice \notin Invoices
    /\ NoLine \notin Lines
    /\ NoAmount \notin Amounts
    /\ NoDisbursement \notin Disbursements
    /\ NoKey \notin Keys
    /\ NoTax \notin Taxes \union Overrides
    /\ Taxes \intersect Overrides = {}
    /\ Synced \subseteq Invoices

VARIABLES
    state,      \* "absent", "draft", "out" (any status after issue), "void", "deleted"
    key,        \* Invoice.idempotency_key
    tax,        \* Invoice.vat_enabled and wht_enabled
    totals,     \* what the stored totals were computed from
    on,         \* InvoiceLineItem.invoice_id, or NoInvoice when there is no row
    amount,     \* InvoiceLineItem.amount_kobo
    source,     \* the disbursement a line was made from, not stored in its row
    disb,       \* "absent", "unbilled", "invoiced" (Disbursement.invoiced), "deleted"
    cost,       \* Disbursement.amount_kobo
    billedBy,   \* Disbursement.invoice_line_item_id
    req,        \* per worker: where its handler is and what it holds
    spent,      \* history: line keys that were drawn
    raced,      \* history: invoices loaded while another session held them
    contended,  \* history: disbursements read while another session held them
    pushed      \* history: invoices that had a new line pushed by a desktop

invoiceVars == <<state, key, tax, totals>>
lineVars    == <<on, amount, source>>
disbVars    == <<disb, cost, billedBy>>
tables      == <<invoiceVars, lineVars, disbVars>>
history     == <<spent, raced, contended, pushed>>
vars        == <<tables, req, history>>

(***************************************************************************)
(* Types                                                                   *)
(***************************************************************************)
\* An override replaces the computed tax until the next recomputation.
TotalsType == [lines : SUBSET (Lines \X Amounts), tax : Taxes \union Overrides \union {NoTax}]

NoTotals == [lines |-> {}, tax |-> NoTax]

Idle == [op |-> "idle", inv |-> NoInvoice, line |-> NoLine, amount |-> NoAmount,
         disb |-> NoDisbursement, key |-> NoKey, seen |-> {}, tax |-> NoTax, was |-> NoTotals]

Phases == {"idle", "create", "add", "built", "added", "edit", "remove", "removed", "patch",
           "retax", "delete", "issue", "void", "cost", "forget", "push", "pushnew"}

Requests ==
    [op : Phases, inv : Invoices \union {NoInvoice}, line : Lines \union {NoLine},
     amount : Amounts \union {NoAmount}, disb : Disbursements \union {NoDisbursement},
     key : Keys \union {NoKey}, seen : SUBSET (Lines \X Amounts),
     tax : Taxes \union Overrides \union {NoTax}, was : TotalsType]

TypeOK ==
    /\ state \in [Invoices -> {"absent", "draft", "out", "void", "deleted"}]
    /\ key \in [Invoices -> Keys \union {NoKey}]
    /\ tax \in [Invoices -> Taxes \union {NoTax}]
    /\ totals \in [Invoices -> TotalsType]
    /\ on \in [Lines -> Invoices \union {NoInvoice}]
    /\ amount \in [Lines -> Amounts \union {NoAmount}]
    /\ source \in [Lines -> Disbursements \union {NoDisbursement}]
    /\ disb \in [Disbursements -> {"absent", "unbilled", "invoiced", "deleted"}]
    /\ cost \in [Disbursements -> Amounts \union {NoAmount}]
    /\ billedBy \in [Disbursements -> Lines \union {NoLine}]
    /\ req \in [Workers -> Requests]
    /\ spent \subseteq Lines
    /\ raced \subseteq Invoices
    /\ contended \subseteq Disbursements
    /\ pushed \subseteq Invoices

(***************************************************************************)
(* Sessions                                                                *)
(***************************************************************************)
Exists(i) == state[i] \in {"draft", "out", "void"}
LinesOn(i) == {l \in Lines : on[l] = i}
Stored(i) == {<<l, amount[l]>> : l \in LinesOn(i)}

HoldsInvoice(i) == \E w \in Workers : req[w].inv = i
HoldsDisbursement(d) == \E w \in Workers : req[w].disb = d

\* What a session that has loaded invoice i with its lines goes on with, as op.
Copy(i, op) == [Idle EXCEPT !.op = op, !.inv = i, !.seen = Stored(i), !.tax = tax[i], !.was = totals[i]]

\* A session that needs no more of its copy than that it passed the guard.
Glance(i, op) == [Idle EXCEPT !.op = op, !.inv = i]

\* The session of w starts with the copy r.
Load(w, r) ==
    /\ req[w].op = "idle"
    /\ req' = [req EXCEPT ![w] = r]
    /\ raced' = IF HoldsInvoice(r.inv) THEN raced \union {r.inv} ELSE raced
    /\ UNCHANGED <<tables, contended, pushed>>

Close(w) == req' = [req EXCEPT ![w] = Idle]

\* A constraint is violated, a row of the flush is gone, the client is gone or
\* the process dies: nothing of the session is kept.
Rollback(w) ==
    /\ Close(w)
    /\ UNCHANGED <<tables, history>>

Abort(w) ==
    /\ req[w].op # "idle"
    /\ Rollback(w)

\* refresh(invoice, ["line_items"]): the lines that have a row now; a line that
\* was loaded before keeps the amount it was loaded with.
Refreshed(w) ==
    LET i == req[w].inv
        loaded == {p[1] : p \in req[w].seen}
    IN  {p \in req[w].seen : p[1] \in LinesOn(i)}
          \union {<<l, amount[l]>> : l \in LinesOn(i) \ loaded}

\* _recompute_totals from the copy of the session; the flush writes the columns
\* that differ from what was loaded.
Recomputed(w, t) == [lines |-> req[w].seen, tax |-> t]

WriteTotals(w, t) ==
    totals' = IF Recomputed(w, t) = req[w].was THEN totals
              ELSE [totals EXCEPT ![req[w].inv] = Recomputed(w, t)]

(***************************************************************************)
(* create_invoice: with a key that nobody has committed, and one line or   *)
(* none.  The first flush waits for a session that has flushed the same    *)
(* key, and fails if that one commits: it is outside the try that would    *)
(* return the existing draft.                                              *)
(***************************************************************************)
KeyTaken(k) == k # NoKey /\ \E i \in Invoices : Exists(i) /\ key[i] = k

Flushed(w) == req[w].op \in {"add", "built", "added"} /\ state[req[w].inv] = "absent"

CreateLoad(w, i, k, t) ==
    /\ req[w].op = "idle"
    /\ state[i] = "absent"
    /\ ~HoldsInvoice(i)
    /\ ~KeyTaken(k)
    /\ req' = [req EXCEPT ![w] = [Idle EXCEPT !.op = "create", !.inv = i, !.key = k, !.tax = t]]
    /\ UNCHANGED <<tables, history>>

\* Mutant: the key is not unique.
CreateFlushAnyKey(w) ==
    /\ req[w].op = "create"
    /\ req' = [req EXCEPT ![w].op = "add"]
    /\ UNCHANGED <<tables, history>>

CreateFlush(w) ==
    LET k == req[w].key IN
    /\ req[w].op = "create"
    /\ k # NoKey => \A v \in Workers : ~(Flushed(v) /\ req[v].key = k)
    /\ \/ /\ ~KeyTaken(k)
          /\ req' = [req EXCEPT ![w].op = "add"]
          /\ UNCHANGED <<tables, history>>
       \/ /\ KeyTaken(k)
          /\ Rollback(w)

\* The commit makes the row visible, if it is new.
Appear(w) ==
    LET i == req[w].inv IN
    IF state[i] = "absent"
    THEN /\ state' = [state EXCEPT ![i] = "draft"]
         /\ key' = [key EXCEPT ![i] = req[w].key]
         /\ tax' = [tax EXCEPT ![i] = req[w].tax]
    ELSE UNCHANGED <<state, key, tax>>

CreateCommit(w) ==
    /\ req[w].op = "add"
    /\ state[req[w].inv] = "absent"
    /\ Appear(w)
    /\ WriteTotals(w, req[w].tax)
    /\ Close(w)
    /\ UNCHANGED <<lineVars, disbVars, history>>

(***************************************************************************)
(* add_line_item and _build_line_item                                      *)
(***************************************************************************)
AddLoad(w, i) ==
    /\ state[i] = "draft"
    /\ Load(w, Copy(i, "add"))
    /\ UNCHANGED spent

\* Mutant: a disbursement that was invoiced is pulled in again.
BillableTwice(d) == disb[d] \in {"unbilled", "invoiced"}

Billable(d) == disb[d] = "unbilled"

BuildLine(w, l, a, d) ==
    /\ req[w].op = "add"
    /\ l \notin spent
    /\ spent' = spent \union {l}
    /\ d # NoDisbursement => Billable(d)
    /\ contended' = IF d # NoDisbursement /\ HoldsDisbursement(d)
                    THEN contended \union {d} ELSE contended
    /\ req' = [req EXCEPT ![w].op = "built", ![w].line = l, ![w].amount = a, ![w].disb = d]
    /\ UNCHANGED <<tables, raced, pushed>>

\* The line is inserted and the disbursement updated; another session that has
\* updated it is waited for.
FlushLine(w) ==
    LET i == req[w].inv
        d == req[w].disb
    IN
    /\ req[w].op = "built"
    /\ \A v \in Workers : req[v].op = "added" /\ d # NoDisbursement => req[v].disb # d
    /\ \/ /\ Exists(i) \/ Flushed(w)
          /\ d # NoDisbursement => disb[d] # "deleted"
          /\ req' = [req EXCEPT ![w].op = "added",
               ![w].seen = Refreshed(w) \union {<<req[w].line, req[w].amount>>}]
          /\ UNCHANGED <<tables, history>>
       \/ /\ \/ ~Exists(i) /\ ~Flushed(w)
             \/ d # NoDisbursement /\ disb[d] = "deleted"
          /\ Rollback(w)

\* disbursement.invoiced and invoice_line_item_id
MarkInvoiced(d, l) ==
    IF d = NoDisbursement THEN UNCHANGED disbVars
    ELSE /\ disb' = [disb EXCEPT ![d] = "invoiced"]
         /\ billedBy' = [billedBy EXCEPT ![d] = l]
         /\ UNCHANGED cost

AddCommit(w) ==
    LET i == req[w].inv
        l == req[w].line
    IN
    /\ req[w].op = "added"
    /\ Appear(w)
    /\ on' = [on EXCEPT ![l] = i]
    /\ amount' = [amount EXCEPT ![l] = req[w].amount]
    /\ source' = [source EXCEPT ![l] = req[w].disb]
    /\ MarkInvoiced(req[w].disb, l)
    /\ WriteTotals(w, req[w].tax)
    /\ Close(w)
    /\ UNCHANGED history

(***************************************************************************)
(* update_line_item: the totals come from the lines as they were loaded    *)
(***************************************************************************)
\* The copy of a session that has given line l of invoice i the amount a.
Edited(i, l, a, op) ==
    [Copy(i, op) EXCEPT !.line = l, !.amount = a,
       !.seen = {p \in Stored(i) : p[1] # l} \union {<<l, a>>}]

\* Mutant: a line of any invoice may be edited.
EditLoadAnyState(w, i, l, a) ==
    /\ Exists(i) /\ on[l] = i
    /\ Load(w, Edited(i, l, a, "edit"))
    /\ UNCHANGED spent

EditLoad(w, i, l, a) ==
    /\ state[i] = "draft"
    /\ on[l] = i
    /\ Load(w, Edited(i, l, a, "edit"))
    /\ UNCHANGED spent

\* Who has deleted line l and not committed holds its row.
Unlocked(w, l) == \A v \in Workers \ {w} : req[v].op = "removed" => req[v].line # l

EditCommit(w) ==
    LET l == req[w].line IN
    /\ req[w].op = "edit"
    /\ Unlocked(w, l)
    /\ \/ /\ on[l] = req[w].inv
          /\ amount' = [amount EXCEPT ![l] = req[w].amount]
          /\ WriteTotals(w, req[w].tax)
          /\ Close(w)
          /\ UNCHANGED <<state, key, tax, on, source, disbVars, history>>
       \/ /\ on[l] # req[w].inv
          /\ Rollback(w)

(***************************************************************************)
(* delete_line_item.  The foreign key of the disbursement is set to null   *)
(* by the database; its invoiced flag stays.                               *)
(***************************************************************************)
RemoveLoad(w, i, l) ==
    /\ state[i] = "draft"
    /\ on[l] = i
    /\ Load(w, [Copy(i, "remove") EXCEPT !.line = l])
    /\ UNCHANGED spent

\* Mutant: the totals are computed without a refresh.
RemovedStale(w) == req[w].seen

RemainingLines(w) == {p \in Refreshed(w) : p[1] # req[w].line}

RemoveFlush(w) ==
    /\ req[w].op = "remove"
    /\ Unlocked(w, req[w].line)
    /\ req' = [req EXCEPT ![w].op = "removed", ![w].seen = RemainingLines(w)]
    /\ UNCHANGED <<tables, history>>

\* Mutant: the foreign key is left dangling.
UnlinkNothing(S) == UNCHANGED billedBy

Unlink(S) == billedBy' = [d \in Disbursements |-> IF billedBy[d] \in S THEN NoLine ELSE billedBy[d]]

RemoveLines(S) ==
    /\ on' = [l \in Lines |-> IF l \in S THEN NoInvoice ELSE on[l]]
    /\ amount' = [l \in Lines |-> IF l \in S THEN NoAmount ELSE amount[l]]
    /\ source' = [l \in Lines |-> IF l \in S THEN NoDisbursement ELSE source[l]]
    /\ Unlink(S)
    /\ UNCHANGED <<disb, cost>>

RemoveCommit(w) ==
    /\ req[w].op = "removed"
    /\ \/ /\ Exists(req[w].inv)
          /\ RemoveLines({req[w].line})
          /\ WriteTotals(w, req[w].tax)
          /\ Close(w)
          /\ UNCHANGED <<state, key, tax, history>>
       \/ /\ ~Exists(req[w].inv)
          /\ Rollback(w)

(***************************************************************************)
(* update_invoice, as far as it recomputes: the tax toggles, or an         *)
(* override of the tax.  A toggle set to what it is already is not written *)
(* (nor is an edit of a line that changes nothing), but the totals may be. *)
(***************************************************************************)
PatchLoad(w, i, t) ==
    LET op == IF t \in Taxes \ {tax[i]} THEN "patch" ELSE "retax" IN
    /\ state[i] = "draft"
    /\ Load(w, [Copy(i, op) EXCEPT !.tax = t])
    /\ UNCHANGED spent

PatchCommit(w) ==
    LET i == req[w].inv IN
    /\ req[w].op \in {"patch", "retax"}
    /\ \/ /\ Exists(i)
          /\ tax' = IF req[w].op = "patch" THEN [tax EXCEPT ![i] = req[w].tax] ELSE tax
          /\ WriteTotals(w, req[w].tax)
          /\ Close(w)
          /\ UNCHANGED <<state, key, lineVars, disbVars, history>>
       \/ /\ ~Exists(i)
          /\ Rollback(w)

(***************************************************************************)
(* delete_invoice, issue_invoice, void_invoice.  Numbers, payments and the *)
(* balance that a void looks at are InvoiceLedger's: any invoice that is   *)
(* out may be voided here.                                                 *)
(***************************************************************************)
DeleteLoad(w, i) ==
    /\ state[i] = "draft"
    /\ LinesOn(i) = {}
    /\ Load(w, Glance(i, "delete"))
    /\ UNCHANGED spent

\* A session that has inserted a line shares the row of the invoice.
DeleteCommit(w) ==
    LET i == req[w].inv IN
    /\ req[w].op = "delete"
    /\ \A v \in Workers : req[v].inv = i => req[v].op # "added"
    /\ state' = [state EXCEPT ![i] = "deleted"]
    /\ key' = [key EXCEPT ![i] = NoKey]
    /\ tax' = [tax EXCEPT ![i] = NoTax]
    /\ totals' = [totals EXCEPT ![i] = NoTotals]
    /\ RemoveLines(LinesOn(i))
    /\ Close(w)
    /\ UNCHANGED history

IssueLoad(w, i) ==
    /\ state[i] = "draft"
    /\ LinesOn(i) # {}
    /\ Load(w, Glance(i, "issue"))
    /\ UNCHANGED spent

VoidLoad(w, i) ==
    /\ state[i] \in {"draft", "out"}
    /\ Load(w, Glance(i, "void"))
    /\ UNCHANGED spent

MoveCommit(w) ==
    LET i == req[w].inv IN
    /\ req[w].op \in {"issue", "void"}
    /\ \/ /\ Exists(i)
          /\ state' = [state EXCEPT ![i] = IF req[w].op = "issue" THEN "out" ELSE "void"]
          /\ Close(w)
          /\ UNCHANGED <<key, tax, totals, lineVars, disbVars, history>>
       \/ /\ ~Exists(i)
          /\ Rollback(w)

(***************************************************************************)
(* disbursement_service.py                                                 *)
(***************************************************************************)
CreateDisbursement(d, a) ==
    /\ disb[d] = "absent"
    /\ disb' = [disb EXCEPT ![d] = "unbilled"]
    /\ cost' = [cost EXCEPT ![d] = a]
    /\ UNCHANGED <<invoiceVars, lineVars, billedBy, req, history>>

\* update_disbursement and delete_disbursement refuse an invoiced one.
DisbursementLoad(w, d, op, a) ==
    /\ req[w].op = "idle"
    /\ Billable(d)
    /\ req' = [req EXCEPT ![w] = [Idle EXCEPT !.op = op, !.disb = d, !.amount = a]]
    /\ contended' = IF HoldsDisbursement(d) THEN contended \union {d} ELSE contended
    /\ UNCHANGED <<tables, spent, raced, pushed>>

DisbursementCommit(w) ==
    LET d == req[w].disb IN
    /\ req[w].op \in {"cost", "forget"}
    /\ \A v \in Workers : req[v].op = "added" => req[v].disb # d
    /\ \/ /\ req[w].op = "cost" /\ disb[d] # "deleted"
          /\ cost' = [cost EXCEPT ![d] = req[w].amount]
          /\ Close(w)
          /\ UNCHANGED <<invoiceVars, lineVars, disb, billedBy, history>>
       \/ /\ req[w].op = "cost" /\ disb[d] = "deleted"
          /\ Rollback(w)
       \/ /\ req[w].op = "forget"
          /\ disb' = [disb EXCEPT ![d] = "deleted"]
          /\ cost' = [cost EXCEPT ![d] = NoAmount]
          /\ billedBy' = [billedBy EXCEPT ![d] = NoLine]
          /\ Close(w)
          /\ UNCHANGED <<invoiceVars, lineVars, history>>

(***************************************************************************)
(* POST /sync/apply with one line.  A new line is added to the session and *)
(* not flushed when the lines are read back, so the totals miss it; an     *)
(* existing one is in the session and counts with its new amount.          *)
(***************************************************************************)
PushLoad(w, i, l, a) ==
    /\ Exists(i)
    /\ i \in Synced
    /\ \/ /\ on[l] = i
          /\ Load(w, Edited(i, l, a, "push"))
          /\ UNCHANGED spent
       \/ /\ l \notin spent
          /\ Load(w, [Copy(i, "pushnew") EXCEPT !.line = l, !.amount = a])
          /\ spent' = spent \union {l}

PushCommit(w) ==
    LET i == req[w].inv
        l == req[w].line
    IN
    /\ req[w].op \in {"push", "pushnew"}
    /\ Unlocked(w, l)
    /\ \/ /\ IF req[w].op = "push" THEN on[l] = i ELSE Exists(i)
          /\ on' = [on EXCEPT ![l] = i]
          /\ amount' = [amount EXCEPT ![l] = req[w].amount]
          /\ WriteTotals(w, req[w].tax)
          /\ pushed' = IF req[w].op = "pushnew" THEN pushed \union {i} ELSE pushed
          /\ Close(w)
          /\ UNCHANGED <<state, key, tax, source, disbVars, spent, raced, contended>>
       \/ /\ IF req[w].op = "push" THEN on[l] # i ELSE ~Exists(i)
          /\ Rollback(w)

(***************************************************************************)
(* The specification                                                       *)
(***************************************************************************)
Init ==
    /\ state = [i \in Invoices |-> "absent"]
    /\ key = [i \in Invoices |-> NoKey]
    /\ tax = [i \in Invoices |-> NoTax]
    /\ totals = [i \in Invoices |-> NoTotals]
    /\ on = [l \in Lines |-> NoInvoice]
    /\ amount = [l \in Lines |-> NoAmount]
    /\ source = [l \in Lines |-> NoDisbursement]
    /\ disb = [d \in Disbursements |-> "absent"]
    /\ cost = [d \in Disbursements |-> NoAmount]
    /\ billedBy = [d \in Disbursements |-> NoLine]
    /\ req = [w \in Workers |-> Idle]
    /\ spent = {}
    /\ raced = {}
    /\ contended = {}
    /\ pushed = {}

Begin(w) ==
    \/ \E i \in Invoices :
          \/ \E k \in Keys \union {NoKey}, t \in Taxes : CreateLoad(w, i, k, t)
          \/ AddLoad(w, i)
          \/ \E l \in Lines, a \in Amounts : EditLoad(w, i, l, a) \/ PushLoad(w, i, l, a)
          \/ \E l \in Lines : RemoveLoad(w, i, l)
          \/ \E t \in Taxes \union Overrides : PatchLoad(w, i, t)
          \/ DeleteLoad(w, i)
          \/ IssueLoad(w, i)
          \/ VoidLoad(w, i)
    \/ \E d \in Disbursements :
          \/ \E a \in Amounts : DisbursementLoad(w, d, "cost", a)
          \/ DisbursementLoad(w, d, "forget", NoAmount)

Continue(w) ==
    \/ CreateFlush(w)
    \/ CreateCommit(w)
    \/ \E l \in Lines, a \in Amounts, d \in Disbursements \union {NoDisbursement} :
          BuildLine(w, l, a, d)
    \/ FlushLine(w)
    \/ AddCommit(w)
    \/ EditCommit(w)
    \/ RemoveFlush(w)
    \/ RemoveCommit(w)
    \/ PatchCommit(w)
    \/ DeleteCommit(w)
    \/ MoveCommit(w)
    \/ DisbursementCommit(w)
    \/ PushCommit(w)

Next ==
    \/ \E w \in Workers : Begin(w) \/ Continue(w) \/ Abort(w)
    \/ \E d \in Disbursements, a \in Amounts : CreateDisbursement(d, a)

Spec == Init /\ [][Next]_vars

(***************************************************************************)
(* What no interleaving breaks                                             *)
(***************************************************************************)

\* A retried create never makes a second invoice, however it races the first
\* (create_invoice and uq_invoices_org_idempotency_key).
OneInvoicePerKey ==
    \A i, j \in Invoices : Exists(i) /\ Exists(j) /\ key[i] = key[j] /\ key[i] # NoKey => i = j

\* A disbursement that is on an invoice is marked invoiced as long as it is
\* there at all: line and mark commit together (_build_line_item), and neither
\* its update, nor the removal of a line takes the mark away.
BilledIsMarked ==
    \A l \in Lines : on[l] # NoInvoice /\ source[l] # NoDisbursement =>
        disb[source[l]] \in {"invoiced", "deleted"}

\* The line a disbursement points to exists and was made from it: no deleted
\* row is pointed to, and a double billing leaves a pointer to one of the two.
LinkIsItsLine ==
    \A d \in Disbursements : billedBy[d] # NoLine =>
        /\ disb[d] = "invoiced"
        /\ on[billedBy[d]] # NoInvoice
        /\ source[billedBy[d]] = d

(***************************************************************************)
(* Why it holds: what a session in flight knows of the rows it will write  *)
(***************************************************************************)

\* A session has at hand what the rest of its handler uses.
AtHand ==
    \A w \in Workers :
        /\ req[w].op \in Phases \ {"idle", "cost", "forget"} => req[w].inv # NoInvoice
        /\ req[w].op \in {"built", "added", "edit", "remove", "removed", "push", "pushnew"} =>
              req[w].line # NoLine
        /\ req[w].op \in {"built", "added", "edit", "push", "pushnew", "cost"} =>
              req[w].amount # NoAmount
        /\ req[w].op \in {"cost", "forget"} => req[w].disb # NoDisbursement
        /\ req[w].op \in {"create", "add", "built", "added", "patch"} => req[w].tax \notin Overrides

\* A line has an amount if and only if it has a row; without one it has nothing.
NoRowNoData ==
    \A l \in Lines :
        /\ on[l] = NoInvoice <=> amount[l] = NoAmount
        /\ on[l] = NoInvoice => source[l] = NoDisbursement

\* A key that a session has drawn for a new line is its own until the commit.
Draws(w) == req[w].op \in {"built", "added", "pushnew"}

LinesAreDrawn ==
    /\ \A l \in Lines : on[l] # NoInvoice => l \in spent
    /\ \A w \in Workers : Draws(w) => req[w].line \in spent /\ on[req[w].line] = NoInvoice
    /\ \A v, w \in Workers : Draws(v) /\ Draws(w) /\ req[v].line = req[w].line => v = w

\* An invoice that is not there yet is held by the session that creates it only.
NewIsOwn ==
    \A w \in Workers :
        /\ req[w].inv # NoInvoice /\ state[req[w].inv] = "absent" =>
              /\ req[w].op \in {"create", "add", "built", "added"}
              /\ \A v \in Workers : req[v].inv = req[w].inv => v = w
        /\ req[w].op = "create" => state[req[w].inv] = "absent"

\* An idempotency key that is flushed is nowhere else.
KeyIsOwn ==
    \A w \in Workers : Flushed(w) /\ req[w].key # NoKey =>
        /\ ~KeyTaken(req[w].key)
        /\ \A v \in Workers : Flushed(v) /\ req[v].key = req[w].key => v = w

DraftingInv ==
    /\ TypeOK
    /\ OneInvoicePerKey
    /\ BilledIsMarked
    /\ LinkIsItsLine
    /\ AtHand
    /\ NoRowNoData
    /\ LinesAreDrawn
    /\ NewIsOwn
    /\ KeyIsOwn

(***************************************************************************)
(* What holds as long as no two sessions hold the same row                 *)
(***************************************************************************)

\* "Always server-derived from line items": the stored totals are computed from
\* exactly the lines the invoice has, with its tax setting or an override
\* (every handler that touches a line or a toggle, a push of an edited line
\* included; a new line that is pushed is PushKeepsTotals).
Derived(i) ==
    /\ totals[i].lines = Stored(i)
    /\ totals[i].tax \in Overrides \union {tax[i]}

TotalsAreDerived ==
    \A i \in Invoices \ (raced \union pushed) : Exists(i) => Derived(i)

\* What was issued stays as it was issued: lines, amounts, totals (the draft
\* guard of every handler that edits; apply_rows has none).
Pushes(w, i) == req[w].op \in {"push", "pushnew"} /\ req[w].inv = i /\ req'[w] = Idle

IssuedIsFrozen ==
    [][\A i \in Invoices \ raced' :
         state[i] = "out" /\ (\A w \in Workers : ~Pushes(w, i)) =>
            /\ state'[i] \in {"out", "void"}
            /\ totals'[i] = totals[i]
            /\ Stored(i)' = Stored(i)]_vars

\* A disbursement is on one line at most (_build_line_item).
BilledOnce ==
    \A d \in Disbursements \ contended : Cardinality({l \in Lines : source[l] = d}) <= 1

\* A disbursement that was invoiced keeps its row and its amount
\* (update_disbursement, delete_disbursement).
InvoicedIsFrozen ==
    [][\A d \in Disbursements \ contended' :
         disb[d] = "invoiced" => disb'[d] = "invoiced" /\ cost'[d] = cost[d]]_vars

(***************************************************************************)
(* What the code says and the code does not do                             *)
(***************************************************************************)

\* "so subtotal/VAT/WHT/total/net_payable stay correct after a sync"
\* (_recompute_touched_invoices): a push keeps the totals derived.
PushKeepsTotals == \A i \in Invoices \ raced : Exists(i) => Derived(i)
=============================================================================
