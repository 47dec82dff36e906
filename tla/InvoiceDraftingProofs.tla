------------------------ MODULE InvoiceDraftingProofs ------------------------
(***************************************************************************)
(* What no interleaving of requests, pushes and crashes breaks while       *)
(* drafts are made, for every instance of InvoiceDrafting.                 *)
(***************************************************************************)
EXTENDS InvoiceDrafting, TLAPS

(***************************************************************************)
(* Type correctness                                                        *)
(***************************************************************************)

\* What a session may hold, field by field.
LEMMA RequestFields ==
    ASSUME NEW r \in Requests
    PROVE  /\ r.op \in Phases
           /\ r.inv \in Invoices \union {NoInvoice}
           /\ r.line \in Lines \union {NoLine}
           /\ r.amount \in Amounts \union {NoAmount}
           /\ r.disb \in Disbursements \union {NoDisbursement}
           /\ r.key \in Keys \union {NoKey}
           /\ r.seen \in SUBSET (Lines \X Amounts)
           /\ r.tax \in Taxes \union Overrides \union {NoTax}
           /\ r.was \in TotalsType
BY DEF Requests

\* A session that holds nothing is well typed.
LEMMA IdleType == Idle \in Requests
BY DEF Idle, Requests, Phases, TotalsType, NoTotals

\* The lines of an invoice, with their amounts: every row has an amount.
LEMMA StoredType ==
    ASSUME TypeOK, NoRowNoData, NEW i \in Invoices
    PROVE  Stored(i) \in SUBSET (Lines \X Amounts)
<1>1. \A l \in LinesOn(i) : l \in Lines /\ amount[l] \in Amounts
  BY DraftingAssumption DEF LinesOn, TypeOK, NoRowNoData
<1> QED BY <1>1 DEF Stored

\* A copy of an invoice is a request, whatever it is taken for.
LEMMA CopyType ==
    ASSUME TypeOK, NoRowNoData, NEW i \in Invoices, NEW op \in Phases
    PROVE  /\ Copy(i, op) \in Requests
           /\ Copy(i, op).op = op /\ Copy(i, op).inv = i
           /\ Copy(i, op).line = NoLine /\ Copy(i, op).disb = NoDisbursement
           /\ Copy(i, op).key = NoKey
BY IdleType, StoredType, RequestFields DEF Copy, Idle, Requests, TypeOK

\* So is a copy with one line edited.
LEMMA EditedType ==
    ASSUME TypeOK, NoRowNoData, NEW i \in Invoices, NEW op \in Phases, NEW l \in Lines, NEW a \in Amounts
    PROVE  /\ Edited(i, l, a, op) \in Requests
           /\ Edited(i, l, a, op).op = op /\ Edited(i, l, a, op).inv = i
           /\ Edited(i, l, a, op).line = l /\ Edited(i, l, a, op).amount = a
           /\ Edited(i, l, a, op).key = NoKey
<1>1. {p \in Stored(i) : p[1] # l} \union {<<l, a>>} \in SUBSET (Lines \X Amounts)
  BY StoredType
<1> QED BY <1>1, CopyType DEF Edited, Copy, Idle, Requests

\* The lines that a refresh finds are lines with amounts.
LEMMA RefreshedType ==
    ASSUME TypeOK, NoRowNoData, NEW w \in Workers, req[w].inv # NoInvoice
    PROVE  Refreshed(w) \in SUBSET (Lines \X Amounts)
<1>1. req[w].inv \in Invoices /\ req[w].seen \in SUBSET (Lines \X Amounts)
  BY RequestFields DEF TypeOK
<1>2. \A l \in LinesOn(req[w].inv) : l \in Lines /\ amount[l] \in Amounts
  BY <1>1, DraftingAssumption DEF LinesOn, TypeOK, NoRowNoData
<1> QED BY <1>1, <1>2 DEF Refreshed

\* Totals that a session writes are totals.
LEMMA WriteTotalsType ==
    ASSUME TypeOK, NEW w \in Workers, WriteTotals(w, req[w].tax)
    PROVE  totals' \in [Invoices -> TotalsType]
<1>1. Recomputed(w, req[w].tax) \in TotalsType
  BY RequestFields DEF Recomputed, TotalsType, TypeOK
<1> QED BY <1>1 DEF WriteTotals, TypeOK

(***************************************************************************)
(* Steps of a session before its commit                                    *)
(***************************************************************************)

\* What AtHand asks of one session.
Ready(r) ==
    /\ r.op \in Phases \ {"idle", "cost", "forget"} => r.inv # NoInvoice
    /\ r.op \in {"built", "added", "edit", "remove", "removed", "push", "pushnew"} => r.line # NoLine
    /\ r.op \in {"built", "added", "edit", "push", "pushnew", "cost"} => r.amount # NoAmount
    /\ r.op \in {"cost", "forget"} => r.disb # NoDisbursement
    /\ r.op \in {"create", "add", "built", "added", "patch"} => r.tax \notin Overrides

\* A session that moves on without a commit keeps every invariant, if it holds
\* what its phase needs, and an unborn invoice, a line key and an idempotency
\* key stay its own.
LEMMA SessionSafe ==
    ASSUME DraftingInv, NEW w \in Workers, NEW r \in Requests,
           req' = [req EXCEPT ![w] = r],
           UNCHANGED tables,
           spent \subseteq spent', spent' \subseteq Lines,
           raced' \subseteq Invoices, contended' \subseteq Disbursements, pushed' = pushed,
           Ready(r),
           r.op \in {"built", "added", "pushnew"} =>
              /\ r.line \in spent' /\ on[r.line] = NoInvoice
              /\ \A v \in Workers \ {w} : Draws(v) => req[v].line # r.line,
           r.inv # NoInvoice /\ state[r.inv] = "absent" =>
              /\ r.op \in {"create", "add", "built", "added"}
              /\ \A v \in Workers \ {w} : req[v].inv # r.inv,
           r.op = "create" => state[r.inv] = "absent",
           r.op \in {"add", "built", "added"} /\ state[r.inv] = "absent" /\ r.key # NoKey =>
              /\ ~KeyTaken(r.key)
              /\ \A v \in Workers \ {w} : Flushed(v) => req[v].key # r.key
    PROVE  DraftingInv'
<1>1. req'[w] = r /\ \A v \in Workers \ {w} : req'[v] = req[v]
  BY DEF DraftingInv, TypeOK
<1>2. TypeOK'
  BY DEF DraftingInv, TypeOK, tables, invoiceVars, lineVars, disbVars
<1>3. OneInvoicePerKey' /\ BilledIsMarked' /\ LinkIsItsLine' /\ NoRowNoData'
  BY DEF DraftingInv, tables, invoiceVars, lineVars, disbVars,
         OneInvoicePerKey, BilledIsMarked, LinkIsItsLine, NoRowNoData, Exists
<1>4. AtHand'
  BY <1>1 DEF DraftingInv, AtHand, Ready
<1>5. LinesAreDrawn'
  BY <1>1 DEF DraftingInv, LinesAreDrawn, Draws, tables, lineVars
<1>6. NewIsOwn'
  BY <1>1 DEF DraftingInv, NewIsOwn, tables, invoiceVars
<1>7. \A k : KeyTaken(k)' <=> KeyTaken(k)
  BY DEF KeyTaken, Exists, tables, invoiceVars
<1>8. Flushed(w)' <=> r.op \in {"add", "built", "added"} /\ state[r.inv] = "absent"
  BY <1>1 DEF Flushed, tables, invoiceVars
<1>9. \A v \in Workers \ {w} : Flushed(v)' <=> Flushed(v)
  BY <1>1 DEF Flushed, tables, invoiceVars
<1>10. KeyIsOwn'
  BY <1>1, <1>7, <1>8, <1>9 DEF DraftingInv, KeyIsOwn
<1> QED BY <1>2, <1>3, <1>4, <1>5, <1>6, <1>10 DEF DraftingInv

\* A session that ends without a write keeps every invariant.
LEMMA RollbackSafe ==
    ASSUME DraftingInv, NEW w \in Workers, Rollback(w)
    PROVE  DraftingInv'
<1>1. Idle \in Requests /\ Ready(Idle) /\ Idle.op = "idle" /\ Idle.inv = NoInvoice
  BY IdleType DEF Idle, Ready
<1> QED BY <1>1, SessionSafe DEF Rollback, Close, history, DraftingInv, TypeOK

\* A copy of an invoice that is there, taken for something else than a new line
\* or a new invoice, endangers nothing.
LEMMA LoadSafe ==
    ASSUME DraftingInv, NEW w \in Workers, NEW r \in Requests, Load(w, r),
           spent \subseteq spent', spent' \subseteq Lines,
           Ready(r), r.key = NoKey, r.op # "create",
           r.inv \in Invoices, state[r.inv] # "absent",
           r.op \in {"built", "added", "pushnew"} => r.op = "pushnew" /\ r.line \in spent' \ spent
    PROVE  DraftingInv'
<1>1. raced' \subseteq Invoices /\ contended' \subseteq Disbursements /\ pushed' = pushed
  BY DEF Load, DraftingInv, TypeOK
<1>2. r.op \in {"built", "added", "pushnew"} =>
         /\ r.line \in spent' /\ on[r.line] = NoInvoice
         /\ \A v \in Workers \ {w} : Draws(v) => req[v].line # r.line
  BY DEF DraftingInv, LinesAreDrawn, TypeOK
<1> QED BY <1>1, <1>2, SessionSafe DEF Load

\* create_invoice starts on an invoice that nobody else holds.
LEMMA CreateLoadSafe ==
    ASSUME DraftingInv, NEW w \in Workers, NEW i \in Invoices, NEW k \in Keys \union {NoKey},
           NEW t \in Taxes, CreateLoad(w, i, k, t)
    PROVE  DraftingInv'
<1> DEFINE r == [Idle EXCEPT !.op = "create", !.inv = i, !.key = k, !.tax = t]
<1>1. r \in Requests
  BY IdleType DEF Idle, Requests, Phases
<1>2. r.op = "create" /\ r.inv = i /\ r.tax = t
  BY DEF Idle
<1>3. Ready(r)
  BY <1>2, DraftingAssumption DEF Ready
<1>4. state[i] = "absent" /\ \A v \in Workers : req[v].inv # i
  BY DEF CreateLoad, HoldsInvoice
<1> HIDE DEF r
<1>5. req' = [req EXCEPT ![w] = r]
  BY DEF CreateLoad, r
<1> QED
  BY <1>1, <1>2, <1>3, <1>4, <1>5, SessionSafe DEF CreateLoad, history, DraftingInv, TypeOK

\* Its first flush takes a key that is neither committed nor flushed by another.
LEMMA CreateFlushSafe ==
    ASSUME DraftingInv, NEW w \in Workers, CreateFlush(w)
    PROVE  DraftingInv'
<1>1. CASE KeyTaken(req[w].key) /\ Rollback(w)
  BY <1>1, RollbackSafe
<1>2. CASE /\ ~KeyTaken(req[w].key)
           /\ req' = [req EXCEPT ![w].op = "add"]
           /\ UNCHANGED <<tables, history>>
  <2> DEFINE r == [req[w] EXCEPT !.op = "add"]
  <2>1. req[w] \in Requests /\ req[w].op = "create"
    BY DEF CreateFlush, DraftingInv, TypeOK
  <2>2. /\ r \in Requests /\ r.op = "add" /\ r.inv = req[w].inv
        /\ r.key = req[w].key /\ r.tax = req[w].tax
    BY <2>1 DEF Requests, Phases
  <2>3. req' = [req EXCEPT ![w] = r]
    BY <1>2, <2>1 DEF DraftingInv, TypeOK
  <2> HIDE DEF r
  <2>4. Ready(r)
    BY <2>1, <2>2 DEF Ready, DraftingInv, AtHand, Phases
  <2>5. \A v \in Workers \ {w} : req[v].inv # r.inv \/ r.inv = NoInvoice
    BY <2>1, <2>2 DEF DraftingInv, NewIsOwn
  <2>6. r.key # NoKey => \A v \in Workers : Flushed(v) => req[v].key # r.key
    BY <2>2 DEF CreateFlush
  <2> QED
    BY <1>2, <2>2, <2>3, <2>4, <2>5, <2>6, SessionSafe DEF history, DraftingInv, TypeOK
<1> QED BY <1>1, <1>2 DEF CreateFlush

\* add_line_item loads a draft.
LEMMA AddLoadSafe ==
    ASSUME DraftingInv, NEW w \in Workers, NEW i \in Invoices, AddLoad(w, i)
    PROVE  DraftingInv'
<1> DEFINE r == Copy(i, "add")
<1>1. /\ r \in Requests /\ r.op = "add" /\ r.inv = i /\ r.key = NoKey
      /\ r.tax \notin Overrides
  <2>1. "add" \in Phases /\ TypeOK /\ NoRowNoData
    BY DEF Phases, DraftingInv
  <2>2. r.tax = tax[i]
    BY DEF Copy, Idle
  <2> QED BY <2>1, <2>2, CopyType, DraftingAssumption DEF TypeOK
<1> HIDE DEF r
<1>2. Ready(r)
  BY <1>1, DraftingAssumption DEF Ready, Phases
<1>3. Load(w, r) /\ state[i] = "draft" /\ spent' = spent
  BY DEF AddLoad, r
<1> QED BY <1>1, <1>2, <1>3, LoadSafe DEF DraftingInv, TypeOK

\* _build_line_item draws a line key that nobody has drawn.
LEMMA BuildLineSafe ==
    ASSUME DraftingInv, NEW w \in Workers, NEW l \in Lines, NEW a \in Amounts,
           NEW d \in Disbursements \union {NoDisbursement}, BuildLine(w, l, a, d)
    PROVE  DraftingInv'
<1> DEFINE r == [req[w] EXCEPT !.op = "built", !.line = l, !.amount = a, !.disb = d]
<1>1. req[w] \in Requests /\ req[w].op = "add"
  BY DEF BuildLine, DraftingInv, TypeOK
<1>2. /\ r \in Requests /\ r.op = "built" /\ r.inv = req[w].inv /\ r.line = l /\ r.amount = a
      /\ r.key = req[w].key /\ r.tax = req[w].tax
  BY <1>1 DEF Requests, Phases
<1>3. req' = [req EXCEPT ![w] = r]
  BY <1>1 DEF BuildLine, DraftingInv, TypeOK
<1> HIDE DEF r
<1>4. Ready(r)
  BY <1>1, <1>2, DraftingAssumption DEF Ready, DraftingInv, AtHand, Phases
<1>5. /\ l \in spent' /\ on[l] = NoInvoice
      /\ \A v \in Workers \ {w} : Draws(v) => req[v].line # l
      /\ spent \subseteq spent' /\ spent' \subseteq Lines
  BY DEF BuildLine, DraftingInv, LinesAreDrawn, TypeOK
<1>6. r.inv # NoInvoice /\ state[r.inv] = "absent" => \A v \in Workers \ {w} : req[v].inv # r.inv
  BY <1>2 DEF DraftingInv, NewIsOwn
<1>7. state[r.inv] = "absent" /\ r.key # NoKey =>
         /\ ~KeyTaken(r.key)
         /\ \A v \in Workers \ {w} : Flushed(v) => req[v].key # r.key
  BY <1>1, <1>2 DEF DraftingInv, KeyIsOwn, Flushed
<1>8. raced' = raced /\ contended' \subseteq Disbursements /\ pushed' = pushed
  BY DEF BuildLine, DraftingInv, TypeOK
<1>9. UNCHANGED tables
  BY DEF BuildLine
<1> QED
  BY <1>2, <1>3, <1>4, <1>5, <1>6, <1>7, <1>8, <1>9, SessionSafe DEF DraftingInv, TypeOK

\* Its flush keeps the key drawn, and the copy gains the new line.
LEMMA FlushLineSafe ==
    ASSUME DraftingInv, NEW w \in Workers, FlushLine(w)
    PROVE  DraftingInv'
<1> DEFINE s == Refreshed(w) \union {<<req[w].line, req[w].amount>>}
           r == [req[w] EXCEPT !.op = "added", !.seen = s]
<1>1. CASE Rollback(w)
  BY <1>1, RollbackSafe
<1>2. CASE /\ req' = [req EXCEPT ![w].op = "added", ![w].seen = s]
           /\ UNCHANGED <<tables, history>>
  <2>1. /\ req[w] \in Requests /\ req[w].op = "built"
        /\ req[w].inv # NoInvoice /\ req[w].line # NoLine /\ req[w].amount # NoAmount
        /\ req[w].line \in Lines /\ req[w].amount \in Amounts
    BY RequestFields DEF FlushLine, DraftingInv, TypeOK, AtHand, Phases
  <2>2. s \in SUBSET (Lines \X Amounts)
    BY <2>1, RefreshedType DEF DraftingInv
  <2> HIDE DEF s
  <2>3. /\ r \in Requests /\ r.op = "added" /\ r.inv = req[w].inv /\ r.line = req[w].line
        /\ r.amount = req[w].amount /\ r.key = req[w].key /\ r.tax = req[w].tax
    BY <2>1, <2>2 DEF Requests, Phases
  <2>4. req' = [req EXCEPT ![w] = r]
    BY <1>2, <2>1 DEF DraftingInv, TypeOK
  <2> HIDE DEF r
  <2>5. Ready(r)
    BY <2>1, <2>3 DEF Ready, DraftingInv, AtHand, Phases
  <2>6. /\ r.line \in spent /\ on[r.line] = NoInvoice
        /\ \A v \in Workers \ {w} : Draws(v) => req[v].line # r.line
    BY <2>1, <2>3 DEF DraftingInv, LinesAreDrawn, Draws
  <2>7. r.inv # NoInvoice /\ state[r.inv] = "absent" => \A v \in Workers \ {w} : req[v].inv # r.inv
    BY <2>3 DEF DraftingInv, NewIsOwn
  <2>8. state[r.inv] = "absent" /\ r.key # NoKey =>
           /\ ~KeyTaken(r.key)
           /\ \A v \in Workers \ {w} : Flushed(v) => req[v].key # r.key
    BY <2>1, <2>3 DEF DraftingInv, KeyIsOwn, Flushed
  <2> QED
    BY <1>2, <2>3, <2>4, <2>5, <2>6, <2>7, <2>8, SessionSafe DEF history, DraftingInv, TypeOK
<1> QED BY <1>1, <1>2 DEF FlushLine

\* The copies that the other handlers take are ready for the rest of the handler.
LEMMA EditedReady ==
    ASSUME DraftingInv, NEW i \in Invoices, NEW op \in {"edit", "push"},
           NEW l \in Lines, NEW a \in Amounts
    PROVE  /\ Ready(Edited(i, l, a, op)) /\ Edited(i, l, a, op) \in Requests
           /\ Edited(i, l, a, op).op = op /\ Edited(i, l, a, op).inv = i
           /\ Edited(i, l, a, op).key = NoKey
<1> DEFINE r == Edited(i, l, a, op)
<1>1. /\ r \in Requests /\ r.op = op /\ r.inv = i /\ r.line = l /\ r.amount = a
      /\ r.key = NoKey
  BY EditedType DEF Phases, DraftingInv
<1> HIDE DEF r
<1>2. Ready(r)
  BY <1>1, DraftingAssumption DEF Ready
<1> QED BY <1>1, <1>2 DEF r

\* update_line_item loads a draft and edits one of its lines.
LEMMA EditLoadSafe ==
    ASSUME DraftingInv, NEW w \in Workers, NEW i \in Invoices, NEW l \in Lines, NEW a \in Amounts,
           EditLoad(w, i, l, a)
    PROVE  DraftingInv'
<1> DEFINE r == Edited(i, l, a, "edit")
<1>1. Ready(r) /\ r \in Requests /\ r.op = "edit" /\ r.inv = i /\ r.key = NoKey
  BY EditedReady
<1> HIDE DEF r
<1>2. Load(w, r) /\ state[i] = "draft" /\ spent' = spent
  BY DEF EditLoad, r
<1> QED BY <1>1, <1>2, LoadSafe DEF DraftingInv, TypeOK

\* apply_rows loads an invoice, for a line it has or for a new one.
LEMMA PushLoadSafe ==
    ASSUME DraftingInv, NEW w \in Workers, NEW i \in Invoices, NEW l \in Lines, NEW a \in Amounts,
           PushLoad(w, i, l, a)
    PROVE  DraftingInv'
<1>1. state[i] # "absent"
  BY DEF PushLoad, Exists
<1>2. CASE Load(w, Edited(i, l, a, "push")) /\ UNCHANGED spent
  <2> DEFINE r == Edited(i, l, a, "push")
  <2>1. Ready(r) /\ r \in Requests /\ r.op = "push" /\ r.inv = i /\ r.key = NoKey
    BY EditedReady
  <2>2. Load(w, r)
    BY <1>2
  <2> HIDE DEF r
  <2> QED BY <1>1, <1>2, <2>1, <2>2, LoadSafe DEF DraftingInv, TypeOK
<1>3. CASE /\ l \notin spent
           /\ Load(w, [Copy(i, "pushnew") EXCEPT !.line = l, !.amount = a])
           /\ spent' = spent \union {l}
  <2> DEFINE c == Copy(i, "pushnew")
             r == [c EXCEPT !.line = l, !.amount = a]
  <2>1. c \in Requests /\ c.op = "pushnew" /\ c.inv = i /\ c.key = NoKey
    BY CopyType DEF Phases, DraftingInv
  <2>2. Load(w, r)
    BY <1>3
  <2> HIDE DEF c
  <2>3. /\ r \in Requests /\ r.op = "pushnew" /\ r.inv = i /\ r.line = l /\ r.amount = a
        /\ r.key = NoKey
    BY <2>1 DEF Requests
  <2> HIDE DEF r
  <2>4. Ready(r)
    BY <2>3, DraftingAssumption DEF Ready
  <2> QED BY <1>1, <1>3, <2>2, <2>3, <2>4, LoadSafe DEF DraftingInv, TypeOK
<1> QED BY <1>2, <1>3 DEF PushLoad

\* delete_line_item loads a draft.
LEMMA RemoveLoadSafe ==
    ASSUME DraftingInv, NEW w \in Workers, NEW i \in Invoices, NEW l \in Lines, RemoveLoad(w, i, l)
    PROVE  DraftingInv'
<1> DEFINE c == Copy(i, "remove")
           r == [c EXCEPT !.line = l]
<1>1. c \in Requests /\ c.op = "remove" /\ c.inv = i /\ c.key = NoKey
  BY CopyType DEF Phases, DraftingInv
<1>2. Load(w, r) /\ state[i] = "draft" /\ spent' = spent
  BY DEF RemoveLoad
<1> HIDE DEF c
<1>3. r \in Requests /\ r.op = "remove" /\ r.inv = i /\ r.line = l /\ r.key = NoKey
  BY <1>1 DEF Requests
<1> HIDE DEF r
<1>4. Ready(r)
  BY <1>3, DraftingAssumption DEF Ready
<1> QED BY <1>2, <1>3, <1>4, LoadSafe DEF DraftingInv, TypeOK

\* update_invoice loads a draft.
LEMMA PatchLoadSafe ==
    ASSUME DraftingInv, NEW w \in Workers, NEW i \in Invoices, NEW t \in Taxes \union Overrides,
           PatchLoad(w, i, t)
    PROVE  DraftingInv'
<1> DEFINE op == IF t \in Taxes \ {tax[i]} THEN "patch" ELSE "retax"
           c == Copy(i, op)
           r == [c EXCEPT !.tax = t]
<1>1. c \in Requests /\ c.op = op /\ c.inv = i /\ c.key = NoKey
  BY CopyType DEF Phases, DraftingInv
<1>2. Load(w, r) /\ state[i] = "draft" /\ spent' = spent
  BY DEF PatchLoad
<1> HIDE DEF c
<1>3. r \in Requests /\ r.op = op /\ r.inv = i /\ r.key = NoKey /\ r.tax = t
  BY <1>1 DEF Requests
<1> HIDE DEF r
<1>4. Ready(r)
  BY <1>3, DraftingAssumption DEF Ready
<1> QED BY <1>2, <1>3, <1>4, LoadSafe DEF DraftingInv, TypeOK

\* delete_invoice, issue_invoice, void_invoice
LEMMA GlanceSafe ==
    ASSUME DraftingInv, NEW w \in Workers, NEW i \in Invoices, NEW op \in {"delete", "issue", "void"},
           Load(w, Glance(i, op)), state[i] # "absent", UNCHANGED spent
    PROVE  DraftingInv'
<1> DEFINE r == Glance(i, op)
<1>1. r \in Requests /\ r.op = op /\ r.inv = i /\ r.key = NoKey
  BY IdleType DEF Glance, Idle, Requests, Phases
<1>2. Load(w, r)
  OBVIOUS
<1> HIDE DEF r
<1>3. Ready(r)
  BY <1>1, DraftingAssumption DEF Ready
<1> QED BY <1>1, <1>2, <1>3, LoadSafe DEF DraftingInv, TypeOK

\* update_disbursement and delete_disbursement hold no invoice.
LEMMA DisbursementLoadSafe ==
    ASSUME DraftingInv, NEW w \in Workers, NEW d \in Disbursements,
           NEW op \in {"cost", "forget"}, NEW a \in Amounts \union {NoAmount},
           op = "cost" => a # NoAmount,
           DisbursementLoad(w, d, op, a)
    PROVE  DraftingInv'
<1> DEFINE r == [Idle EXCEPT !.op = op, !.disb = d, !.amount = a]
<1>1. r \in Requests /\ r.op = op /\ r.inv = NoInvoice /\ r.disb = d /\ r.amount = a
  BY IdleType DEF Idle, Requests, Phases
<1>2. req' = [req EXCEPT ![w] = r]
  BY DEF DisbursementLoad
<1> HIDE DEF r
<1>3. Ready(r)
  BY <1>1, DraftingAssumption DEF Ready, Phases
<1>4. contended' \subseteq Disbursements /\ UNCHANGED <<tables, spent, raced, pushed>>
  BY DEF DisbursementLoad, DraftingInv, TypeOK
<1> QED BY <1>1, <1>2, <1>3, <1>4, SessionSafe DEF DraftingInv, TypeOK

\* delete_line_item flushes and reads back the lines that remain.
LEMMA RemoveFlushSafe ==
    ASSUME DraftingInv, NEW w \in Workers, RemoveFlush(w)
    PROVE  DraftingInv'
<1> DEFINE s == RemainingLines(w)
           r == [req[w] EXCEPT !.op = "removed", !.seen = s]
<1>1. /\ req[w] \in Requests /\ req[w].op = "remove"
      /\ req[w].inv # NoInvoice /\ req[w].line # NoLine
      /\ state[req[w].inv] # "absent"
  BY DEF RemoveFlush, DraftingInv, TypeOK, AtHand, NewIsOwn, Phases
<1>2. s \in SUBSET (Lines \X Amounts)
  BY <1>1, RefreshedType DEF RemainingLines, DraftingInv
<1>3. req' = [req EXCEPT ![w] = r] /\ UNCHANGED <<tables, history>>
  BY <1>1 DEF RemoveFlush, DraftingInv, TypeOK
<1> HIDE DEF s
<1>4. r \in Requests /\ r.op = "removed" /\ r.inv = req[w].inv /\ r.line = req[w].line
  BY <1>1, <1>2 DEF Requests, Phases
<1> HIDE DEF r
<1>5. Ready(r)
  BY <1>1, <1>4 DEF Ready
<1> QED BY <1>1, <1>3, <1>4, <1>5, SessionSafe DEF history, DraftingInv, TypeOK

(***************************************************************************)
(* Commits                                                                 *)
(***************************************************************************)

\* A commit leaves the sessions in flight what they hold, if no key drawn by
\* another gets a row, no invoice of another appears or vanishes unborn, and no
\* idempotency key that another has flushed is taken.
LEMMA CommitSafe ==
    ASSUME DraftingInv, NEW w \in Workers, Close(w), spent' = spent,
           \A l \in Lines : on'[l] # NoInvoice => l \in spent,
           \A v \in Workers \ {w} : Draws(v) => on'[req[v].line] = NoInvoice,
           \A v \in Workers \ {w} : req[v].inv # NoInvoice =>
              (state'[req[v].inv] = "absent" <=> state[req[v].inv] = "absent"),
           \A v \in Workers \ {w} : \A k \in Keys : Flushed(v) /\ req[v].key = k => ~KeyTaken(k)'
    PROVE  /\ req' \in [Workers -> Requests]
           /\ AtHand' /\ LinesAreDrawn' /\ NewIsOwn' /\ KeyIsOwn'
<1>1. req'[w] = Idle /\ \A v \in Workers \ {w} : req'[v] = req[v]
  BY DEF DraftingInv, TypeOK, Close
<1>2. /\ Idle.op = "idle" /\ Idle.inv = NoInvoice /\ Idle \in Requests
  BY IdleType DEF Idle
<1>3. req' \in [Workers -> Requests]
  BY <1>2 DEF Close, DraftingInv, TypeOK
<1>4. AtHand'
  BY <1>1, <1>2 DEF DraftingInv, AtHand
<1>5. LinesAreDrawn'
  BY <1>1, <1>2 DEF DraftingInv, LinesAreDrawn, Draws
<1>6. \A v \in Workers \ {w} : req[v].op \in {"create", "add", "built", "added"} => req[v].inv # NoInvoice
  BY DEF DraftingInv, AtHand, Phases
<1>7. NewIsOwn'
  BY <1>1, <1>2, <1>6 DEF DraftingInv, NewIsOwn
<1>8. ~Flushed(w)'
  BY <1>1, <1>2 DEF Flushed
<1>9. \A v \in Workers \ {w} : Flushed(v)' <=> Flushed(v)
  BY <1>1, <1>6 DEF Flushed
<1>10. \A v \in Workers \ {w} : req[v].key \in Keys \union {NoKey}
  BY RequestFields DEF DraftingInv, TypeOK
<1>11. KeyIsOwn'
  <2> SUFFICES ASSUME NEW v \in Workers, Flushed(v)', req'[v].key # NoKey
               PROVE  /\ ~KeyTaken(req[v].key)'
                      /\ \A u \in Workers : Flushed(u)' /\ req'[u].key = req'[v].key => u = v
    BY DEF KeyIsOwn
  <2>1. v # w /\ Flushed(v) /\ req'[v] = req[v]
    BY <1>1, <1>8, <1>9
  <2>2. PICK k \in Keys : k = req[v].key
    BY <1>10, <2>1
  <2>3. ~KeyTaken(k)'
    BY <2>1, <2>2
  <2>4. ~KeyTaken(req[v].key)'
    BY <2>1, <2>2, <2>3 DEF KeyTaken
  <2> QED BY <1>1, <1>8, <1>9, <2>1, <2>4 DEF DraftingInv, KeyIsOwn
<1> QED BY <1>3, <1>4, <1>5, <1>7, <1>11

\* A commit that leaves state and keys of the invoices alone.
LEMMA KeysKept ==
    ASSUME DraftingInv, UNCHANGED <<state, key>>
    PROVE  /\ OneInvoicePerKey'
           /\ \A v \in Workers : req[v].inv # NoInvoice =>
                 (state'[req[v].inv] = "absent" <=> state[req[v].inv] = "absent")
           /\ \A v \in Workers : \A k \in Keys : Flushed(v) /\ req[v].key = k => ~KeyTaken(k)'
<1>1. \A i \in Invoices : Exists(i)' <=> Exists(i)
  BY DEF Exists
<1>2. \A k \in Keys : KeyTaken(k)' <=> KeyTaken(k)
  BY <1>1 DEF KeyTaken
<1>3. OneInvoicePerKey'
  BY <1>1 DEF DraftingInv, OneInvoicePerKey
<1>4. \A v \in Workers : \A k \in Keys : Flushed(v) /\ req[v].key = k => ~KeyTaken(k)'
  BY <1>2 DEF DraftingInv, KeyIsOwn, KeyTaken
<1> QED BY <1>3, <1>4

\* The commit of a new invoice makes no second one with its key, and takes no
\* key from the others.
LEMMA AppearSafe ==
    ASSUME DraftingInv, NEW w \in Workers, req[w].op \in {"add", "added"}, Appear(w)
    PROVE  /\ state' \in [Invoices -> {"absent", "draft", "out", "void", "deleted"}]
           /\ key' \in [Invoices -> Keys \union {NoKey}]
           /\ tax' \in [Invoices -> Taxes \union {NoTax}]
           /\ OneInvoicePerKey'
           /\ \A v \in Workers \ {w} : req[v].inv # NoInvoice =>
                 (state'[req[v].inv] = "absent" <=> state[req[v].inv] = "absent")
           /\ \A v \in Workers \ {w} : \A k \in Keys : Flushed(v) /\ req[v].key = k => ~KeyTaken(k)'
<1>1. /\ req[w].inv \in Invoices /\ req[w].key \in Keys \union {NoKey}
      /\ req[w].tax \in Taxes \union {NoTax}
  BY RequestFields DEF DraftingInv, TypeOK, AtHand, Phases
<1>2. CASE state[req[w].inv] # "absent"
  <2>1. UNCHANGED <<state, key, tax>>
    BY <1>2 DEF Appear
  <2> QED BY <2>1, KeysKept DEF DraftingInv, TypeOK
<1>3. CASE state[req[w].inv] = "absent"
  <2> DEFINE i == req[w].inv
             new == req[w].key
  <2>1. /\ state' = [state EXCEPT ![i] = "draft"]
        /\ key' = [key EXCEPT ![i] = new]
        /\ tax' = [tax EXCEPT ![i] = req[w].tax]
    BY <1>3 DEF Appear
  <2>2. Flushed(w)
    BY <1>3 DEF Flushed
  <2>3. new # NoKey => /\ ~KeyTaken(new)
                       /\ \A v \in Workers : Flushed(v) /\ req[v].key = new => v = w
    BY <2>2 DEF DraftingInv, KeyIsOwn
  <2>4. \A v \in Workers \ {w} : req[v].inv # i
    BY <1>1, <1>3, DraftingAssumption DEF DraftingInv, NewIsOwn
  <2>5. /\ state' \in [Invoices -> {"absent", "draft", "out", "void", "deleted"}]
        /\ key' \in [Invoices -> Keys \union {NoKey}]
        /\ tax' \in [Invoices -> Taxes \union {NoTax}]
    BY <1>1, <2>1 DEF DraftingInv, TypeOK
  <2>6. \A j \in Invoices : j # i => (Exists(j)' <=> Exists(j)) /\ key'[j] = key[j]
    BY <2>1 DEF Exists, DraftingInv, TypeOK
  <2>7. key'[i] = new
    BY <1>1, <2>1 DEF DraftingInv, TypeOK
  <2>8. \A j \in Invoices : Exists(j)' /\ key'[j] = new /\ new # NoKey => j = i
    BY <2>3, <2>6 DEF KeyTaken
  <2>9. OneInvoicePerKey'
    BY <1>1, <2>6, <2>7, <2>8 DEF OneInvoicePerKey, DraftingInv
  <2>10. \A v \in Workers \ {w} : state'[req[v].inv] = state[req[v].inv]
    BY <2>1, <2>4 DEF DraftingInv, TypeOK
  <2>11. \A v \in Workers \ {w} : \A k \in Keys : Flushed(v) /\ req[v].key = k => ~KeyTaken(k)'
    <3> SUFFICES ASSUME NEW v \in Workers \ {w}, NEW h \in Keys, Flushed(v), req[v].key = h,
                        h # NoKey, NEW j \in Invoices, Exists(j)', key'[j] = h
                 PROVE  FALSE
      BY DEF KeyTaken
    <3>1. ~KeyTaken(h)
      BY DEF DraftingInv, KeyIsOwn
    <3>2. CASE j = i
      BY <2>3, <2>7, <3>2
    <3>3. CASE j # i
      BY <2>6, <3>1, <3>3 DEF KeyTaken
    <3> QED BY <3>2, <3>3
  <2> QED BY <2>5, <2>9, <2>10, <2>11
<1> QED BY <1>2, <1>3

\* The commit of an invoice without a line.
LEMMA CreateCommitSafe ==
    ASSUME DraftingInv, NEW w \in Workers, CreateCommit(w)
    PROVE  DraftingInv'
<1>1. /\ req[w].op \in {"add", "added"} /\ Appear(w) /\ Close(w) /\ WriteTotals(w, req[w].tax)
      /\ UNCHANGED <<lineVars, disbVars, history>>
  BY DEF CreateCommit
<1>2. AtHand' /\ LinesAreDrawn' /\ NewIsOwn' /\ KeyIsOwn' /\ req' \in [Workers -> Requests]
  BY <1>1, AppearSafe, CommitSafe DEF DraftingInv, LinesAreDrawn, lineVars, history
<1>3. TypeOK'
  BY <1>1, <1>2, AppearSafe, WriteTotalsType DEF DraftingInv, TypeOK, lineVars, disbVars, history
<1>4. BilledIsMarked' /\ LinkIsItsLine' /\ NoRowNoData'
  BY <1>1 DEF DraftingInv, BilledIsMarked, LinkIsItsLine, NoRowNoData, lineVars, disbVars
<1> QED BY <1>1, <1>2, <1>3, <1>4, AppearSafe DEF DraftingInv

\* The commit of a line marks its disbursement and points it to the line.
LEMMA AddCommitSafe ==
    ASSUME DraftingInv, NEW w \in Workers, AddCommit(w)
    PROVE  DraftingInv'
<1> DEFINE i == req[w].inv
           l == req[w].line
           d == req[w].disb
<1>1. /\ req[w].op \in {"add", "added"} /\ Appear(w) /\ Close(w) /\ WriteTotals(w, req[w].tax)
      /\ on' = [on EXCEPT ![l] = i]
      /\ amount' = [amount EXCEPT ![l] = req[w].amount]
      /\ source' = [source EXCEPT ![l] = d]
      /\ MarkInvoiced(d, l)
      /\ UNCHANGED history
  BY DEF AddCommit
<1>2. /\ i \in Invoices /\ l \in Lines /\ req[w].amount \in Amounts
      /\ d \in Disbursements \union {NoDisbursement}
      /\ i # NoInvoice /\ req[w].amount # NoAmount
  BY RequestFields DEF AddCommit, DraftingInv, TypeOK, AtHand, Phases
<1>3. /\ Draws(w) /\ l \in spent /\ on[l] = NoInvoice
      /\ \A v \in Workers \ {w} : Draws(v) => req[v].line # l
  BY DEF AddCommit, DraftingInv, LinesAreDrawn, Draws
<1>4. \A m \in Lines : on'[m] # NoInvoice => m \in spent
  BY <1>1, <1>3 DEF DraftingInv, LinesAreDrawn, TypeOK
<1>5. \A v \in Workers \ {w} : Draws(v) => on'[req[v].line] = NoInvoice
  BY <1>1, <1>3 DEF DraftingInv, LinesAreDrawn, TypeOK
<1>6. AtHand' /\ LinesAreDrawn' /\ NewIsOwn' /\ KeyIsOwn' /\ req' \in [Workers -> Requests]
  BY <1>1, <1>4, <1>5, AppearSafe, CommitSafe DEF history
<1>7. /\ disb' \in [Disbursements -> {"absent", "unbilled", "invoiced", "deleted"}]
      /\ cost' = cost /\ billedBy' \in [Disbursements -> Lines \union {NoLine}]
  BY <1>1, <1>2 DEF MarkInvoiced, DraftingInv, TypeOK, disbVars
<1>8. /\ on' \in [Lines -> Invoices \union {NoInvoice}]
      /\ amount' \in [Lines -> Amounts \union {NoAmount}]
      /\ source' \in [Lines -> Disbursements \union {NoDisbursement}]
  BY <1>1, <1>2 DEF DraftingInv, TypeOK
<1>9. TypeOK'
  BY <1>1, <1>6, <1>7, <1>8, AppearSafe, WriteTotalsType DEF DraftingInv, TypeOK, history
<1>10. NoRowNoData'
  BY <1>1, <1>2, DraftingAssumption DEF DraftingInv, NoRowNoData, TypeOK
<1>11. \A e \in Disbursements : e # d => disb'[e] = disb[e] /\ billedBy'[e] = billedBy[e]
  BY <1>1 DEF MarkInvoiced, disbVars, DraftingInv, TypeOK
<1>12. d # NoDisbursement => disb'[d] = "invoiced" /\ billedBy'[d] = l
  BY <1>1, <1>2 DEF MarkInvoiced, DraftingInv, TypeOK
<1>13. on'[l] = i /\ source'[l] = d /\ \A m \in Lines : m # l => on'[m] = on[m] /\ source'[m] = source[m]
  BY <1>1, <1>2 DEF DraftingInv, TypeOK
<1>14. BilledIsMarked'
  BY <1>2, <1>8, <1>11, <1>12, <1>13 DEF DraftingInv, BilledIsMarked
<1>15. \A e \in Disbursements : billedBy[e] # NoLine => billedBy[e] \in Lines /\ billedBy[e] # l
  BY <1>3 DEF DraftingInv, LinkIsItsLine, TypeOK
<1>16. LinkIsItsLine'
  <2> SUFFICES ASSUME NEW e \in Disbursements, billedBy'[e] # NoLine
               PROVE  disb'[e] = "invoiced" /\ on'[billedBy'[e]] # NoInvoice /\ source'[billedBy'[e]] = e
    BY DEF LinkIsItsLine
  <2>1. CASE e = d
    BY <1>2, <1>12, <1>13, <2>1, DraftingAssumption
  <2>2. CASE e # d
    BY <1>11, <1>13, <1>15, <2>2 DEF DraftingInv, LinkIsItsLine
  <2> QED BY <2>1, <2>2
<1>17. OneInvoicePerKey'
  BY <1>1, AppearSafe
<1> QED BY <1>6, <1>9, <1>10, <1>14, <1>16, <1>17 DEF DraftingInv

\* The commit of an edited line finds its row or keeps nothing.
LEMMA EditCommitSafe ==
    ASSUME DraftingInv, NEW w \in Workers, EditCommit(w)
    PROVE  DraftingInv'
<1> DEFINE l == req[w].line
<1>1. CASE Rollback(w)
  BY <1>1, RollbackSafe
<1>2. CASE /\ on[l] = req[w].inv
           /\ amount' = [amount EXCEPT ![l] = req[w].amount]
           /\ WriteTotals(w, req[w].tax)
           /\ Close(w)
           /\ UNCHANGED <<state, key, tax, on, source, disbVars, history>>
  <2>1. /\ l \in Lines /\ req[w].amount \in Amounts
        /\ req[w].inv # NoInvoice /\ req[w].amount # NoAmount
    BY RequestFields DEF EditCommit, DraftingInv, TypeOK, AtHand, Phases
  <2>2. AtHand' /\ LinesAreDrawn' /\ NewIsOwn' /\ KeyIsOwn' /\ req' \in [Workers -> Requests]
    BY <1>2, KeysKept, CommitSafe DEF DraftingInv, LinesAreDrawn, history
  <2>3. TypeOK'
    BY <1>2, <2>1, <2>2, WriteTotalsType DEF DraftingInv, TypeOK, disbVars, history
  <2>4. BilledIsMarked' /\ LinkIsItsLine'
    BY <1>2 DEF DraftingInv, BilledIsMarked, LinkIsItsLine, disbVars
  <2>5. NoRowNoData'
    BY <1>2, <2>1 DEF DraftingInv, NoRowNoData, TypeOK
  <2>6. OneInvoicePerKey'
    BY <1>2, KeysKept
  <2> QED BY <2>2, <2>3, <2>4, <2>5, <2>6 DEF DraftingInv
<1> QED BY <1>1, <1>2 DEF EditCommit

\* Lines that are deleted leave no pointer to them and no data behind.
LEMMA RemoveLinesSafe ==
    ASSUME DraftingInv, NEW S, RemoveLines(S)
    PROVE  /\ on' \in [Lines -> Invoices \union {NoInvoice}]
           /\ amount' \in [Lines -> Amounts \union {NoAmount}]
           /\ source' \in [Lines -> Disbursements \union {NoDisbursement}]
           /\ billedBy' \in [Disbursements -> Lines \union {NoLine}]
           /\ disb' = disb /\ cost' = cost
           /\ \A l \in Lines : on'[l] = NoInvoice \/ on'[l] = on[l]
           /\ BilledIsMarked' /\ LinkIsItsLine' /\ NoRowNoData'
<1>1. /\ on' \in [Lines -> Invoices \union {NoInvoice}]
      /\ amount' \in [Lines -> Amounts \union {NoAmount}]
      /\ source' \in [Lines -> Disbursements \union {NoDisbursement}]
      /\ billedBy' \in [Disbursements -> Lines \union {NoLine}]
  BY DEF RemoveLines, Unlink, DraftingInv, TypeOK
<1>2. disb' = disb /\ cost' = cost /\ \A l \in Lines : on'[l] = NoInvoice \/ on'[l] = on[l]
  BY DEF RemoveLines
<1>3. \A l \in Lines : on'[l] # NoInvoice => l \notin S /\ on'[l] = on[l] /\ source'[l] = source[l]
  BY DEF RemoveLines
<1>4. BilledIsMarked'
  BY <1>2, <1>3 DEF DraftingInv, BilledIsMarked
<1>5. \A l \in Lines : l \notin S => on'[l] = on[l] /\ source'[l] = source[l]
  BY DEF RemoveLines
<1>6. \A d \in Disbursements : billedBy'[d] # NoLine =>
         billedBy'[d] = billedBy[d] /\ billedBy[d] \notin S /\ billedBy[d] \in Lines
  BY DEF RemoveLines, Unlink, DraftingInv, TypeOK
<1>7. LinkIsItsLine'
  BY <1>2, <1>5, <1>6 DEF DraftingInv, LinkIsItsLine
<1>8. NoRowNoData'
  BY DEF RemoveLines, DraftingInv, NoRowNoData
<1> QED BY <1>1, <1>2, <1>4, <1>7, <1>8

\* The commit of a removal takes the pointer of the disbursement away with the line.
LEMMA RemoveCommitSafe ==
    ASSUME DraftingInv, NEW w \in Workers, RemoveCommit(w)
    PROVE  DraftingInv'
<1>1. CASE Rollback(w)
  BY <1>1, RollbackSafe
<1>2. CASE /\ RemoveLines({req[w].line})
           /\ WriteTotals(w, req[w].tax)
           /\ Close(w)
           /\ UNCHANGED <<state, key, tax, history>>
  <2>1. \A l \in Lines : on'[l] # NoInvoice => l \in spent
    BY <1>2, RemoveLinesSafe DEF DraftingInv, LinesAreDrawn
  <2>2. \A v \in Workers \ {w} : Draws(v) => on'[req[v].line] = NoInvoice
    BY <1>2, RemoveLinesSafe DEF DraftingInv, LinesAreDrawn, TypeOK
  <2>3. AtHand' /\ LinesAreDrawn' /\ NewIsOwn' /\ KeyIsOwn' /\ req' \in [Workers -> Requests]
    BY <1>2, <2>1, <2>2, KeysKept, CommitSafe DEF history
  <2>4. TypeOK'
    BY <1>2, <2>3, WriteTotalsType, RemoveLinesSafe DEF DraftingInv, TypeOK, history
  <2>5. OneInvoicePerKey'
    BY <1>2, KeysKept
  <2>6. BilledIsMarked' /\ LinkIsItsLine' /\ NoRowNoData'
    BY <1>2, RemoveLinesSafe
  <2> QED BY <2>3, <2>4, <2>5, <2>6 DEF DraftingInv
<1> QED BY <1>1, <1>2 DEF RemoveCommit

\* The commit of a toggle or an override leaves the lines alone.
LEMMA PatchCommitSafe ==
    ASSUME DraftingInv, NEW w \in Workers, PatchCommit(w)
    PROVE  DraftingInv'
<1>1. CASE Rollback(w)
  BY <1>1, RollbackSafe
<1>2. CASE /\ tax' = IF req[w].op = "patch" THEN [tax EXCEPT ![req[w].inv] = req[w].tax] ELSE tax
           /\ WriteTotals(w, req[w].tax)
           /\ Close(w)
           /\ UNCHANGED <<state, key, lineVars, disbVars, history>>
  <2>1. AtHand' /\ LinesAreDrawn' /\ NewIsOwn' /\ KeyIsOwn' /\ req' \in [Workers -> Requests]
    BY <1>2, KeysKept, CommitSafe DEF DraftingInv, LinesAreDrawn, lineVars, history
  <2>2. tax' \in [Invoices -> Taxes \union {NoTax}]
    BY <1>2, RequestFields DEF DraftingInv, TypeOK, AtHand
  <2>3. TypeOK'
    BY <1>2, <2>1, <2>2, WriteTotalsType DEF DraftingInv, TypeOK, lineVars, disbVars, history
  <2>4. BilledIsMarked' /\ LinkIsItsLine' /\ NoRowNoData'
    BY <1>2 DEF DraftingInv, BilledIsMarked, LinkIsItsLine, NoRowNoData, lineVars, disbVars
  <2>5. OneInvoicePerKey'
    BY <1>2, KeysKept
  <2> QED BY <2>1, <2>3, <2>4, <2>5 DEF DraftingInv
<1> QED BY <1>1, <1>2 DEF PatchCommit

\* An invoice that is there and whose key is kept or given up takes no key.
LEMMA KeysFreed ==
    ASSUME DraftingInv, NEW i \in Invoices, state[i] # "absent",
           NEW s \in {"out", "void", "deleted"}, Exists(i) \/ s = "deleted",
           state' = [state EXCEPT ![i] = s],
           key' = key \/ key' = [key EXCEPT ![i] = NoKey]
    PROVE  /\ OneInvoicePerKey'
           /\ \A v \in Workers : req[v].inv # NoInvoice =>
                 (state'[req[v].inv] = "absent" <=> state[req[v].inv] = "absent")
           /\ \A v \in Workers : \A k \in Keys : Flushed(v) /\ req[v].key = k => ~KeyTaken(k)'
<1>1. \A j \in Invoices : Exists(j)' => Exists(j)
  BY DEF Exists, DraftingInv, TypeOK
<1>2. \A j \in Invoices : key'[j] # NoKey => key'[j] = key[j]
  BY DEF DraftingInv, TypeOK
<1>3. \A k \in Keys : KeyTaken(k)' => KeyTaken(k)
  BY <1>1, <1>2 DEF KeyTaken
<1>4. OneInvoicePerKey'
  BY <1>1, <1>2 DEF DraftingInv, OneInvoicePerKey
<1>5. \A v \in Workers : \A k \in Keys : Flushed(v) /\ req[v].key = k => ~KeyTaken(k)'
  BY <1>3 DEF DraftingInv, KeyIsOwn, KeyTaken
<1>6. \A v \in Workers : req[v].inv # NoInvoice =>
        (state'[req[v].inv] = "absent" <=> state[req[v].inv] = "absent")
  BY RequestFields DEF DraftingInv, TypeOK
<1> QED BY <1>4, <1>5, <1>6

\* The commit of a deletion takes the lines, the pointers to them and the key away.
LEMMA DeleteCommitSafe ==
    ASSUME DraftingInv, NEW w \in Workers, DeleteCommit(w)
    PROVE  DraftingInv'
<1> DEFINE i == req[w].inv
<1>1. i \in Invoices /\ state[i] # "absent"
  BY RequestFields DEF DeleteCommit, DraftingInv, TypeOK, AtHand, NewIsOwn, Phases
<1>2. /\ state' = [state EXCEPT ![i] = "deleted"]
      /\ key' = [key EXCEPT ![i] = NoKey]
      /\ tax' = [tax EXCEPT ![i] = NoTax]
      /\ totals' = [totals EXCEPT ![i] = NoTotals]
      /\ RemoveLines(LinesOn(i)) /\ Close(w) /\ UNCHANGED history
  BY DEF DeleteCommit
<1> HIDE DEF i
<1>3. \A l \in Lines : on'[l] # NoInvoice => l \in spent
  BY <1>2, RemoveLinesSafe DEF DraftingInv, LinesAreDrawn
<1>4. \A v \in Workers \ {w} : Draws(v) => on'[req[v].line] = NoInvoice
  BY <1>2, RemoveLinesSafe DEF DraftingInv, LinesAreDrawn, TypeOK
<1>5. AtHand' /\ LinesAreDrawn' /\ NewIsOwn' /\ KeyIsOwn' /\ req' \in [Workers -> Requests]
  BY <1>1, <1>2, <1>3, <1>4, KeysFreed, CommitSafe DEF history
<1>6. NoTotals \in TotalsType
  BY DEF NoTotals, TotalsType
<1>7. TypeOK'
  BY <1>2, <1>5, <1>6, RemoveLinesSafe DEF DraftingInv, TypeOK, history
<1>8. OneInvoicePerKey'
  BY <1>1, <1>2, KeysFreed
<1>9. BilledIsMarked' /\ LinkIsItsLine' /\ NoRowNoData'
  BY <1>2, RemoveLinesSafe
<1> QED BY <1>5, <1>7, <1>8, <1>9 DEF DraftingInv

\* The commit of an issue or of a void changes the state only.
LEMMA MoveCommitSafe ==
    ASSUME DraftingInv, NEW w \in Workers, MoveCommit(w)
    PROVE  DraftingInv'
<1> DEFINE i == req[w].inv
           s == IF req[w].op = "issue" THEN "out" ELSE "void"
<1>1. CASE Rollback(w)
  BY <1>1, RollbackSafe
<1>2. CASE /\ Exists(i)
           /\ state' = [state EXCEPT ![i] = s]
           /\ Close(w)
           /\ UNCHANGED <<key, tax, totals, lineVars, disbVars, history>>
  <2>1. i \in Invoices /\ state[i] # "absent" /\ s \in {"out", "void", "deleted"}
    BY <1>2, RequestFields DEF MoveCommit, DraftingInv, TypeOK, AtHand, Phases, Exists
  <2> HIDE DEF s
  <2>2. AtHand' /\ LinesAreDrawn' /\ NewIsOwn' /\ KeyIsOwn' /\ req' \in [Workers -> Requests]
    BY <1>2, <2>1, KeysFreed, CommitSafe DEF DraftingInv, LinesAreDrawn, lineVars, history
  <2>3. TypeOK'
    BY <1>2, <2>1, <2>2 DEF DraftingInv, TypeOK, lineVars, disbVars, history
  <2>4. BilledIsMarked' /\ LinkIsItsLine' /\ NoRowNoData'
    BY <1>2 DEF DraftingInv, BilledIsMarked, LinkIsItsLine, NoRowNoData, lineVars, disbVars
  <2>5. OneInvoicePerKey'
    BY <1>2, <2>1, KeysFreed
  <2> QED BY <2>2, <2>3, <2>4, <2>5 DEF DraftingInv
<1> QED BY <1>1, <1>2 DEF MoveCommit

\* The commit of a disbursement that is updated or deleted touches no line.
LEMMA DisbursementCommitSafe ==
    ASSUME DraftingInv, NEW w \in Workers, DisbursementCommit(w)
    PROVE  DraftingInv'
<1> DEFINE d == req[w].disb
<1>1. CASE Rollback(w)
  BY <1>1, RollbackSafe
<1>2. CASE /\ req[w].op = "cost"
           /\ cost' = [cost EXCEPT ![d] = req[w].amount]
           /\ Close(w)
           /\ UNCHANGED <<invoiceVars, lineVars, disb, billedBy, history>>
  <2>1. AtHand' /\ LinesAreDrawn' /\ NewIsOwn' /\ KeyIsOwn' /\ req' \in [Workers -> Requests]
    BY <1>2, KeysKept, CommitSafe DEF DraftingInv, LinesAreDrawn, invoiceVars, lineVars, history
  <2>2. TypeOK'
    BY <1>2, <2>1, RequestFields DEF DraftingInv, TypeOK, invoiceVars, lineVars, history
  <2>3. BilledIsMarked' /\ LinkIsItsLine' /\ NoRowNoData'
    BY <1>2 DEF DraftingInv, BilledIsMarked, LinkIsItsLine, NoRowNoData, lineVars
  <2>4. OneInvoicePerKey'
    BY <1>2, KeysKept DEF invoiceVars
  <2> QED BY <2>1, <2>2, <2>3, <2>4 DEF DraftingInv
<1>3. CASE /\ disb' = [disb EXCEPT ![d] = "deleted"]
           /\ cost' = [cost EXCEPT ![d] = NoAmount]
           /\ billedBy' = [billedBy EXCEPT ![d] = NoLine]
           /\ Close(w)
           /\ UNCHANGED <<invoiceVars, lineVars, history>>
  <2>1. AtHand' /\ LinesAreDrawn' /\ NewIsOwn' /\ KeyIsOwn' /\ req' \in [Workers -> Requests]
    BY <1>3, KeysKept, CommitSafe DEF DraftingInv, LinesAreDrawn, invoiceVars, lineVars, history
  <2>2. TypeOK'
    BY <1>3, <2>1 DEF DraftingInv, TypeOK, invoiceVars, lineVars, history
  <2>3. BilledIsMarked' /\ LinkIsItsLine' /\ NoRowNoData'
    BY <1>3 DEF DraftingInv, TypeOK, BilledIsMarked, LinkIsItsLine, NoRowNoData, lineVars
  <2>4. OneInvoicePerKey'
    BY <1>3, KeysKept DEF invoiceVars
  <2> QED BY <2>1, <2>2, <2>3, <2>4 DEF DraftingInv
<1> QED BY <1>1, <1>2, <1>3 DEF DisbursementCommit

\* The commit of a push gives the line a row and takes no other session's key.
LEMMA PushCommitSafe ==
    ASSUME DraftingInv, NEW w \in Workers, PushCommit(w)
    PROVE  DraftingInv'
<1> DEFINE i == req[w].inv
           l == req[w].line
<1>1. CASE Rollback(w)
  BY <1>1, RollbackSafe
<1>2. CASE /\ IF req[w].op = "push" THEN on[l] = i ELSE Exists(i)
           /\ on' = [on EXCEPT ![l] = i]
           /\ amount' = [amount EXCEPT ![l] = req[w].amount]
           /\ WriteTotals(w, req[w].tax)
           /\ pushed' = IF req[w].op = "pushnew" THEN pushed \union {i} ELSE pushed
           /\ Close(w)
           /\ UNCHANGED <<state, key, tax, source, disbVars, spent, raced, contended>>
  <2>1. /\ i \in Invoices /\ i # NoInvoice /\ l \in Lines
        /\ req[w].amount \in Amounts /\ req[w].amount # NoAmount
    BY RequestFields DEF PushCommit, DraftingInv, TypeOK, AtHand, Phases
  <2>2. l \in spent /\ \A v \in Workers \ {w} : Draws(v) => req[v].line # l
    <3>1. CASE req[w].op = "push"
      BY <1>2, <2>1, <3>1 DEF DraftingInv, LinesAreDrawn
    <3>2. CASE req[w].op = "pushnew"
      BY <3>2 DEF DraftingInv, LinesAreDrawn, Draws
    <3> QED BY <3>1, <3>2 DEF PushCommit
  <2>3. \A m \in Lines : m # l => on'[m] = on[m] /\ amount'[m] = amount[m]
    BY <1>2 DEF DraftingInv, TypeOK
  <2>4. on'[l] = i /\ amount'[l] = req[w].amount
    BY <1>2, <2>1 DEF DraftingInv, TypeOK
  <2>5. \A v \in Workers \ {w} : Draws(v) => on'[req[v].line] = NoInvoice
    BY <1>2, <2>2 DEF DraftingInv, LinesAreDrawn, TypeOK
  <2>6. \A m \in Lines : on'[m] # NoInvoice => m \in spent
    BY <2>2, <2>3 DEF DraftingInv, LinesAreDrawn
  <2>7. AtHand' /\ LinesAreDrawn' /\ NewIsOwn' /\ KeyIsOwn' /\ req' \in [Workers -> Requests]
    BY <1>2, <2>5, <2>6, KeysKept, CommitSafe
  <2>8. TypeOK'
    BY <1>2, <2>1, <2>7, WriteTotalsType DEF DraftingInv, TypeOK, disbVars
  <2>9. NoRowNoData'
    BY <1>2, <2>1, <2>3, <2>4 DEF DraftingInv, NoRowNoData
  <2>10. \A m \in Lines : on[m] # NoInvoice => on'[m] # NoInvoice
    BY <2>1, <2>3, <2>4
  <2>11. \A m \in Lines : source[m] # NoDisbursement => on[m] # NoInvoice
    BY DEF DraftingInv, NoRowNoData
  <2>12. BilledIsMarked'
    BY <1>2, <2>11 DEF DraftingInv, BilledIsMarked, disbVars
  <2>13. LinkIsItsLine'
    BY <1>2, <2>10 DEF DraftingInv, LinkIsItsLine, TypeOK, disbVars
  <2>14. OneInvoicePerKey'
    BY <1>2, KeysKept
  <2> QED BY <2>7, <2>8, <2>9, <2>12, <2>13, <2>14 DEF DraftingInv
<1> QED BY <1>1, <1>2 DEF PushCommit

\* create_disbursement makes an unbilled one that nothing points to.
LEMMA CreateDisbursementSafe ==
    ASSUME DraftingInv, NEW d \in Disbursements, NEW a \in Amounts, CreateDisbursement(d, a)
    PROVE  DraftingInv'
<1>1. TypeOK'
  BY DEF CreateDisbursement, DraftingInv, TypeOK, invoiceVars, lineVars, history
<1>2. \A e \in Disbursements : disb[e] \in {"invoiced", "deleted"} => disb'[e] = disb[e]
  BY DEF CreateDisbursement, DraftingInv, TypeOK
<1>3. BilledIsMarked'
  BY <1>2 DEF CreateDisbursement, DraftingInv, TypeOK, BilledIsMarked, lineVars
<1>4. LinkIsItsLine'
  BY <1>2 DEF CreateDisbursement, DraftingInv, LinkIsItsLine, lineVars
<1>5. UNCHANGED <<invoiceVars, lineVars, req, history>>
  BY DEF CreateDisbursement
<1>6. OneInvoicePerKey' /\ NoRowNoData' /\ AtHand' /\ LinesAreDrawn' /\ NewIsOwn'
  BY <1>5 DEF DraftingInv, OneInvoicePerKey, NoRowNoData, AtHand, LinesAreDrawn, NewIsOwn,
              Draws, Exists, invoiceVars, lineVars, history
<1>7. KeyIsOwn'
  BY <1>5 DEF DraftingInv, KeyIsOwn, KeyTaken, Flushed, Exists, invoiceVars
<1> QED BY <1>1, <1>3, <1>4, <1>6, <1>7 DEF DraftingInv

(***************************************************************************)
(* The specification                                                       *)
(***************************************************************************)

\* The empty database satisfies the invariant.
LEMMA DraftingInit == Init => DraftingInv
<1> SUFFICES ASSUME Init PROVE DraftingInv
  OBVIOUS
<1>1. Idle.op = "idle" /\ Idle.inv = NoInvoice /\ Idle \in Requests
  BY IdleType DEF Idle
<1>2. NoTotals \in TotalsType
  BY DEF NoTotals, TotalsType
<1>3. TypeOK
  BY <1>1, <1>2 DEF Init, TypeOK
<1>4. \A w \in Workers : req[w] = Idle
  BY DEF Init
<1>5. AtHand /\ LinesAreDrawn /\ NewIsOwn /\ KeyIsOwn
  BY <1>1, <1>4 DEF Init, AtHand, LinesAreDrawn, NewIsOwn, KeyIsOwn, Draws, Flushed
<1>6. OneInvoicePerKey /\ BilledIsMarked /\ LinkIsItsLine /\ NoRowNoData
  BY DEF Init, OneInvoicePerKey, BilledIsMarked, LinkIsItsLine, NoRowNoData, Exists
<1> QED BY <1>3, <1>5, <1>6 DEF DraftingInv

\* Every handler starts safely.
LEMMA BeginSafe ==
    ASSUME DraftingInv, NEW w \in Workers, Begin(w)
    PROVE  DraftingInv'
<1>1. CASE \E i \in Invoices, k \in Keys \union {NoKey}, t \in Taxes : CreateLoad(w, i, k, t)
  BY <1>1, CreateLoadSafe
<1>2. CASE \E i \in Invoices : AddLoad(w, i)
  BY <1>2, AddLoadSafe
<1>3. CASE \E i \in Invoices, l \in Lines, a \in Amounts : EditLoad(w, i, l, a)
  BY <1>3, EditLoadSafe
<1>4. CASE \E i \in Invoices, l \in Lines, a \in Amounts : PushLoad(w, i, l, a)
  BY <1>4, PushLoadSafe
<1>5. CASE \E i \in Invoices, l \in Lines : RemoveLoad(w, i, l)
  BY <1>5, RemoveLoadSafe
<1>6. CASE \E i \in Invoices, t \in Taxes \union Overrides : PatchLoad(w, i, t)
  BY <1>6, PatchLoadSafe
<1>7. CASE \E i \in Invoices : DeleteLoad(w, i)
  BY <1>7, GlanceSafe DEF DeleteLoad
<1>8. CASE \E i \in Invoices : IssueLoad(w, i)
  BY <1>8, GlanceSafe DEF IssueLoad
<1>9. CASE \E i \in Invoices : VoidLoad(w, i)
  BY <1>9, GlanceSafe DEF VoidLoad
<1>10. CASE \E d \in Disbursements, a \in Amounts : DisbursementLoad(w, d, "cost", a)
  BY <1>10, DisbursementLoadSafe, DraftingAssumption
<1>11. CASE \E d \in Disbursements : DisbursementLoad(w, d, "forget", NoAmount)
  BY <1>11, DisbursementLoadSafe
<1> QED
  BY <1>1, <1>2, <1>3, <1>4, <1>5, <1>6, <1>7, <1>8, <1>9, <1>10, <1>11 DEF Begin

\* Every step of a handler that has started is safe.
LEMMA ContinueSafe ==
    ASSUME DraftingInv, NEW w \in Workers, Continue(w)
    PROVE  DraftingInv'
BY CreateFlushSafe, CreateCommitSafe, BuildLineSafe, FlushLineSafe, AddCommitSafe,
   EditCommitSafe, RemoveFlushSafe, RemoveCommitSafe, PatchCommitSafe, DeleteCommitSafe,
   MoveCommitSafe, DisbursementCommitSafe, PushCommitSafe DEF Continue

\* Every step of the specification preserves the invariant.
LEMMA DraftingNext == DraftingInv /\ [Next]_vars => DraftingInv'
<1> SUFFICES ASSUME DraftingInv, [Next]_vars PROVE DraftingInv'
  OBVIOUS
<1>1. CASE UNCHANGED vars
  <2>1. UNCHANGED <<tables, req, history>>
    BY <1>1 DEF vars
  <2> QED BY <2>1 DEF DraftingInv, TypeOK, OneInvoicePerKey, BilledIsMarked, LinkIsItsLine,
          AtHand, NoRowNoData, LinesAreDrawn, NewIsOwn, KeyIsOwn, KeyTaken, Flushed, Draws,
          Exists, tables, invoiceVars, lineVars, disbVars, history
<1>2. ASSUME NEW w \in Workers, Begin(w) PROVE DraftingInv'
  BY <1>2, BeginSafe
<1>3. ASSUME NEW w \in Workers, Continue(w) PROVE DraftingInv'
  BY <1>3, ContinueSafe
<1>4. ASSUME NEW w \in Workers, Abort(w) PROVE DraftingInv'
  BY <1>4, RollbackSafe DEF Abort
<1>5. ASSUME NEW d \in Disbursements, NEW a \in Amounts, CreateDisbursement(d, a) PROVE DraftingInv'
  BY <1>5, CreateDisbursementSafe
<1> QED BY <1>1, <1>2, <1>3, <1>4, <1>5 DEF Next

\* The strengthened invariant holds in every reachable state, for any number of
\* invoices, lines, disbursements, keys and requests in flight.
THEOREM DraftingIsSafe == Spec => []DraftingInv
<1> QED BY DraftingInit, DraftingNext, PTL DEF Spec

\* A retried create_invoice never makes a second invoice with its key.
THEOREM KeysAreUnique == Spec => []OneInvoicePerKey
<1>1. DraftingInv => OneInvoicePerKey
  BY DEF DraftingInv
<1> QED BY <1>1, DraftingIsSafe, PTL

\* What is on an invoice is marked invoiced (_build_line_item).
THEOREM BilledIsAlwaysMarked == Spec => []BilledIsMarked
<1>1. DraftingInv => BilledIsMarked
  BY DEF DraftingInv
<1> QED BY <1>1, DraftingIsSafe, PTL

\* No disbursement points to a line that is gone or was made from another
\* (Disbursement.invoice_line_item_id).
THEOREM LinksAreTheirLines == Spec => []LinkIsItsLine
<1>1. DraftingInv => LinkIsItsLine
  BY DEF DraftingInv
<1> QED BY <1>1, DraftingIsSafe, PTL
=============================================================================
