---------------------- MODULE InvoiceDraftingAloneProofs ----------------------
(***************************************************************************)
(* What is true of the invoices that no two sessions have held at once and *)
(* of the disbursements that no two sessions have read at once, for every  *)
(* instance of InvoiceDrafting.                                            *)
(***************************************************************************)
EXTENDS InvoiceDraftingProofs, FiniteSetTheorems

(***************************************************************************)
(* The strengthening.  An invoice that is not raced is held by one session *)
(* at a time, and that session's copy of the row and its lines is good.    *)
(***************************************************************************)
Holds(w, i) == req[w].inv = i

\* The copy that session w has of invoice i, and what its handler checked.
CopyIsGood(w, i) ==
    /\ req[w].op \notin {"delete", "issue", "void"} => req[w].was = totals[i]
    /\ req[w].op \in {"create", "add", "built", "remove", "patch", "retax", "pushnew"} =>
          req[w].seen = Stored(i)
    /\ req[w].op = "added" => req[w].seen = Stored(i) \union {<<req[w].line, req[w].amount>>}
    /\ req[w].op \in {"edit", "push"} =>
          req[w].seen = {p \in Stored(i) : p[1] # req[w].line}
                           \union {<<req[w].line, req[w].amount>>}
    /\ req[w].op = "removed" => req[w].seen = {p \in Stored(i) : p[1] # req[w].line}

StillSo(w, i) ==
    /\ req[w].op \notin {"push", "pushnew", "void"} => state[i] \in {"draft", "absent"}
    /\ /\ req[w].op \in {"add", "built", "added", "edit", "remove", "removed", "push", "pushnew"}
       /\ state[i] # "absent"
       => req[w].tax = tax[i]
    /\ req[w].op = "retax" => req[w].tax \in Overrides \union {tax[i]}

\* An invoice that is not there has no lines; the totals of one that is there
\* are those of its lines, unless a desktop has pushed a new one.
RowAgrees(i) ==
    /\ state[i] = "absent" => LinesOn(i) = {} /\ totals[i] = NoTotals
    /\ Exists(i) /\ i \notin pushed => Derived(i)

Alone(i) ==
    /\ \A v, w \in Workers : Holds(v, i) /\ Holds(w, i) => v = w
    /\ \A w \in Workers : Holds(w, i) => CopyIsGood(w, i) /\ StillSo(w, i)
    /\ RowAgrees(i)

AloneInv == \A i \in Invoices \ raced : Alone(i)

\* The line that a session changes or removes is on the invoice it loaded, or
\* gone for ever: its key was drawn before and nobody is about to insert it.
LinesStay ==
    \A w \in Workers : req[w].op \in {"edit", "push", "remove", "removed"} =>
        /\ req[w].line \in spent
        /\ on[req[w].line] \in {req[w].inv, NoInvoice}
        /\ \A v \in Workers : Draws(v) => req[v].line # req[w].line

\* A disbursement that is not contended has one holder, who knows that it is
\* unbilled, and at most one line.
OneBill(d) ==
    /\ \A v, w \in Workers : req[v].disb = d /\ req[w].disb = d => v = w
    /\ \A w \in Workers : req[w].disb = d => disb[d] = "unbilled"
    /\ \A k, l \in Lines : source[k] = d /\ source[l] = d => k = l

BillInv == \A d \in Disbursements \ contended : OneBill(d)

Inv == DraftingInv /\ LinesStay /\ AloneInv /\ BillInv

(***************************************************************************)
(* Lines                                                                   *)
(***************************************************************************)
\* A step of session w that takes a line up from its invoice or draws a new one,
\* or goes on with the line it has, and inserts no line but one that it has drawn.
LEMMA LinesKept ==
    ASSUME DraftingInv, LinesStay, NEW w \in Workers, spent \subseteq spent',
           \A v \in Workers \ {w} : req'[v] = req[v],
           req'[w].op \in {"edit", "push", "remove", "removed"} =>
              \/ /\ req[w].op \in {"edit", "push", "remove", "removed"}
                 /\ req'[w].line = req[w].line /\ req'[w].inv = req[w].inv
              \/ req'[w].line \in Lines /\ on[req'[w].line] = req'[w].inv
                 /\ req'[w].inv # NoInvoice,
           Draws(w)' => \/ Draws(w) /\ req'[w].line = req[w].line
                        \/ req'[w].line \notin spent,
           \A l \in Lines : on'[l] \in {on[l], NoInvoice} \/ (Draws(w) /\ l = req[w].line)
    PROVE  LinesStay'
<1> SUFFICES ASSUME NEW u \in Workers, req'[u].op \in {"edit", "push", "remove", "removed"}
             PROVE  /\ req'[u].line \in spent'
                    /\ on'[req'[u].line] \in {req'[u].inv, NoInvoice}
                    /\ \A v \in Workers : Draws(v)' => req'[v].line # req'[u].line
  BY DEF LinesStay
<1>1. \A v \in Workers : Draws(v)' => \/ Draws(v) /\ req'[v].line = req[v].line
                                      \/ req'[v].line \notin spent
  BY DEF Draws
<1>2. CASE /\ req[u].op \in {"edit", "push", "remove", "removed"}
           /\ req'[u].line = req[u].line /\ req'[u].inv = req[u].inv
  <2>1. /\ req[u].line \in spent
        /\ on[req[u].line] \in {req[u].inv, NoInvoice}
        /\ \A v \in Workers : Draws(v) => req[v].line # req[u].line
    BY <1>2 DEF LinesStay
  <2>2. req[u].line \in Lines
    BY <2>1 DEF DraftingInv, TypeOK
  <2> QED BY <1>1, <1>2, <2>1, <2>2
<1>3. CASE /\ u = w /\ req'[u].line \in Lines /\ on[req'[u].line] = req'[u].inv
           /\ req'[u].inv # NoInvoice
  <2>1. /\ req'[u].line \in spent
        /\ \A v \in Workers : Draws(v) => req[v].line # req'[u].line
    BY <1>3 DEF DraftingInv, LinesAreDrawn
  <2> QED BY <1>1, <1>3, <2>1
<1> QED BY <1>2, <1>3

\* Every step keeps the lines of the sessions where they are.
LEMMA NextLines ==
    ASSUME DraftingInv, LinesStay, [Next]_vars
    PROVE  LinesStay'
<1>1. ASSUME NEW w \in Workers, Close(w), spent' = spent,
             \A l \in Lines : on'[l] \in {on[l], NoInvoice} \/ (Draws(w) /\ l = req[w].line)
      PROVE  LinesStay'
  <2>1. req'[w].op = "idle" /\ \A v \in Workers \ {w} : req'[v] = req[v]
    BY <1>1 DEF Close, Idle, DraftingInv, TypeOK
  <2>2. ~Draws(w)'
    BY <2>1 DEF Draws
  <2> QED BY <1>1, <2>1, <2>2, LinesKept
<1>2. ASSUME NEW w \in Workers, NEW r, req' = [req EXCEPT ![w] = r], on' = on,
             spent \subseteq spent',
             r.op \notin {"edit", "push", "remove", "removed"},
             r.op \in {"built", "added", "pushnew"} =>
                (Draws(w) /\ r.line = req[w].line) \/ r.line \notin spent
      PROVE  LinesStay'
  <2>1. req'[w] = r /\ \A v \in Workers \ {w} : req'[v] = req[v]
    BY <1>2 DEF DraftingInv, TypeOK
  <2>2. Draws(w)' => (Draws(w) /\ r.line = req[w].line) \/ r.line \notin spent
    BY <1>2, <2>1 DEF Draws
  <2> QED BY <1>2, <2>1, <2>2, LinesKept
<1>3. ASSUME NEW w \in Workers, NEW i \in Invoices, NEW l \in Lines, NEW r, Load(w, r),
             spent' = spent, on[l] = i,
             r.op \in {"edit", "push", "remove"}, r.inv = i, r.line = l
      PROVE  LinesStay'
  <2>1. req'[w] = r /\ on' = on /\ \A v \in Workers \ {w} : req'[v] = req[v]
    BY <1>3 DEF Load, tables, lineVars, DraftingInv, TypeOK
  <2>2. ~Draws(w)' /\ i # NoInvoice
    BY <1>3, <2>1, DraftingAssumption DEF Draws
  <2>3. req'[w].line \in Lines /\ on[req'[w].line] = req'[w].inv /\ req'[w].inv # NoInvoice
    BY <1>3, <2>1, <2>2
  <2>4. spent \subseteq spent' /\ \A k \in Lines : on'[k] \in {on[k], NoInvoice}
    BY <1>3, <2>1
  <2> QED BY <2>1, <2>2, <2>3, <2>4, LinesKept
<1>4. ASSUME NEW w \in Workers, Rollback(w) PROVE LinesStay'
  <2>1. Close(w) /\ spent' = spent /\ on' = on
    BY <1>4 DEF Rollback, tables, lineVars, history
  <2> QED BY <1>1, <2>1
<1>5. ASSUME NEW w \in Workers, Begin(w) PROVE LinesStay'
  <2>1. ASSUME NEW i \in Invoices, NEW l \in Lines, NEW a \in Amounts, NEW op \in {"edit", "push"},
               Load(w, Edited(i, l, a, op)), spent' = spent, on[l] = i
        PROVE  LinesStay'
    BY <1>3, <2>1 DEF Edited, Copy, Idle
  <2>2. ASSUME NEW i \in Invoices, NEW l \in Lines, NEW a \in Amounts, PushLoad(w, i, l, a)
        PROVE  LinesStay'
    <3>1. CASE on[l] = i /\ Load(w, Edited(i, l, a, "push")) /\ UNCHANGED spent
      BY <2>1, <3>1
    <3>2. CASE /\ l \notin spent /\ spent' = spent \union {l}
               /\ Load(w, [Copy(i, "pushnew") EXCEPT !.line = l, !.amount = a])
      BY <1>2, <3>2 DEF Load, Copy, Idle, tables, lineVars
    <3> QED BY <2>2, <3>1, <3>2 DEF PushLoad
  <2>3. ASSUME NEW i \in Invoices, NEW l \in Lines, RemoveLoad(w, i, l) PROVE LinesStay'
    BY <1>3, <2>3 DEF RemoveLoad, Copy, Idle
  <2>4. ASSUME NEW i \in Invoices, NEW t, PatchLoad(w, i, t) PROVE LinesStay'
    <3>1. PICK op \in {"patch", "retax"} :
             Load(w, [Copy(i, op) EXCEPT !.tax = t]) /\ UNCHANGED spent
      BY <2>4 DEF PatchLoad
    <3> QED BY <1>2, <3>1 DEF Load, Copy, Idle, tables, lineVars
  <2>5. ASSUME NEW i \in Invoices, NEW op \in {"delete", "issue", "void"}, Load(w, Glance(i, op)),
               spent' = spent
        PROVE  LinesStay'
    BY <1>2, <2>5 DEF Load, Glance, Idle, tables, lineVars
  <2>6. ASSUME NEW i \in Invoices, AddLoad(w, i) PROVE LinesStay'
    BY <1>2, <2>6 DEF AddLoad, Load, Copy, Idle, tables, lineVars
  <2>7. ASSUME NEW i \in Invoices, NEW k, NEW t, CreateLoad(w, i, k, t) PROVE LinesStay'
    BY <1>2, <2>7 DEF CreateLoad, Idle, tables, lineVars, history
  <2>8. ASSUME NEW d, NEW op \in {"cost", "forget"}, NEW a, DisbursementLoad(w, d, op, a)
        PROVE  LinesStay'
    BY <1>2, <2>8 DEF DisbursementLoad, Idle, tables, lineVars
  <2> QED BY <1>5, <2>1, <2>2, <2>3, <2>4, <2>5, <2>6, <2>7, <2>8
          DEF Begin, EditLoad, DeleteLoad, IssueLoad, VoidLoad
<1>6. ASSUME NEW w \in Workers, Continue(w) PROVE LinesStay'
  <2>1. CASE CreateFlush(w) \/ FlushLine(w)
    <3>1. CASE Rollback(w)
      BY <1>4, <3>1
    <3>2. CASE ~Rollback(w)
      <4>1. PICK r : /\ req' = [req EXCEPT ![w] = r] /\ r.op \in {"add", "added"}
                     /\ r.op = "added" => req[w].op = "built" /\ r.line = req[w].line
        <5>1. CASE CreateFlush(w)
          BY <3>2, <5>1, RequestFields DEF CreateFlush, DraftingInv, TypeOK, Requests
        <5>2. CASE FlushLine(w)
          <6> DEFINE s == Refreshed(w) \union {<<req[w].line, req[w].amount>>}
                     r == [req[w] EXCEPT !.op = "added", !.seen = s]
          <6>1. req' = [req EXCEPT ![w] = r] /\ req[w].op = "built" /\ req[w] \in Requests
            BY <3>2, <5>2 DEF FlushLine, DraftingInv, TypeOK
          <6> HIDE DEF s
          <6>2. r.op = "added" /\ r.line = req[w].line
            BY <6>1 DEF Requests
          <6> QED BY <6>1, <6>2
        <5> QED BY <2>1, <5>1, <5>2
      <4>2. on' = on /\ spent' = spent
        BY <2>1, <3>2 DEF CreateFlush, FlushLine, tables, lineVars, history
      <4> QED BY <1>2, <4>1, <4>2 DEF Draws
    <3> QED BY <3>1, <3>2
  <2>2. ASSUME NEW l \in Lines, NEW a, NEW d, BuildLine(w, l, a, d) PROVE LinesStay'
    <3> DEFINE r == [req[w] EXCEPT !.op = "built", !.line = l, !.amount = a, !.disb = d]
    <3>1. req' = [req EXCEPT ![w] = r] /\ req[w] \in Requests
      BY <2>2 DEF BuildLine, DraftingInv, TypeOK
    <3>2. r.op = "built" /\ r.line = l
      BY <3>1 DEF Requests
    <3>3. on' = on /\ spent \subseteq spent' /\ l \notin spent
      BY <2>2 DEF BuildLine, tables, lineVars
    <3> HIDE DEF r
    <3> QED BY <1>2, <3>1, <3>2, <3>3
  <2>3. CASE RemoveFlush(w)
    <3> DEFINE s == RemainingLines(w)
    <3>1. /\ req' = [req EXCEPT ![w].op = "removed", ![w].seen = s] /\ req[w].op = "remove"
          /\ on' = on /\ spent' = spent
      BY <2>3 DEF RemoveFlush, tables, lineVars, history
    <3> HIDE DEF s
    <3>2. /\ req'[w].op = "removed" /\ req'[w].line = req[w].line /\ req'[w].inv = req[w].inv
          /\ \A v \in Workers \ {w} : req'[v] = req[v]
      BY <3>1 DEF DraftingInv, TypeOK, Requests
    <3>3. ~Draws(w)'
      BY <3>2 DEF Draws
    <3> QED BY <3>1, <3>2, <3>3, LinesKept
  <2>4. ASSUME Close(w), spent' = spent, NEW S, RemoveLines(S) PROVE LinesStay'
    <3>1. \A l \in Lines : on'[l] \in {on[l], NoInvoice}
      BY <2>4 DEF RemoveLines
    <3> QED BY <1>1, <2>4, <3>1
  <2>5. CASE RemoveCommit(w) \/ DeleteCommit(w)
    BY <1>4, <2>4, <2>5 DEF RemoveCommit, DeleteCommit, history
  <2>6. ASSUME NEW i, Draws(w), Close(w), spent' = spent, on' = [on EXCEPT ![req[w].line] = i]
        PROVE  LinesStay'
    <3>1. \A l \in Lines : on'[l] = on[l] \/ l = req[w].line
      BY <2>6 DEF DraftingInv, TypeOK
    <3> QED BY <1>1, <2>6, <3>1
  <2>7. ASSUME Close(w), spent' = spent, on' = on PROVE LinesStay'
    BY <1>1, <2>7
  <2>8. CASE AddCommit(w)
    <3>1. Draws(w) /\ Close(w) /\ spent' = spent /\ on' = [on EXCEPT ![req[w].line] = req[w].inv]
      BY <2>8 DEF AddCommit, Draws, history
    <3> QED BY <2>6, <3>1
  <2>9. CASE PushCommit(w)
    <3>1. CASE req[w].op = "push" /\ ~Rollback(w)
      <4>1. on' = on /\ Close(w) /\ spent' = spent
        BY <2>9, <3>1 DEF PushCommit, DraftingInv, TypeOK
      <4> QED BY <2>7, <4>1
    <3>2. CASE req[w].op = "pushnew" /\ ~Rollback(w)
      BY <2>6, <2>9, <3>2 DEF PushCommit, Draws
    <3> QED BY <1>4, <2>9, <3>1, <3>2 DEF PushCommit
  <2>10. CASE \/ CreateCommit(w) \/ EditCommit(w) \/ PatchCommit(w) \/ MoveCommit(w)
              \/ DisbursementCommit(w)
    BY <1>4, <2>7, <2>10
       DEF CreateCommit, EditCommit, PatchCommit, MoveCommit, DisbursementCommit, lineVars, history
  <2> QED BY <1>6, <2>1, <2>2, <2>3, <2>5, <2>8, <2>9, <2>10 DEF Continue
<1>7. CASE UNCHANGED <<on, req, spent>>
  BY <1>7 DEF LinesStay, Draws
<1> QED BY <1>4, <1>5, <1>6, <1>7
        DEF Next, Abort, CreateDisbursement, vars, tables, lineVars, history

(***************************************************************************)
(* Invoices                                                                *)
(***************************************************************************)
\* Nothing that a copy of invoice j has is written.
RowSame(j) ==
    /\ state'[j] = state[j] /\ tax'[j] = tax[j] /\ totals'[j] = totals[j]
    /\ \A l \in Lines : /\ on'[l] = j <=> on[l] = j
                        /\ on[l] = j => amount'[l] = amount[l]

LEMMA StoredSame ==
    ASSUME NEW j \in Invoices, RowSame(j)
    PROVE  LinesOn(j)' = LinesOn(j) /\ Stored(j)' = Stored(j)
BY DEF RowSame, LinesOn, Stored

LEMMA RowKept ==
    ASSUME NEW j \in Invoices, RowSame(j), pushed \subseteq pushed', RowAgrees(j)
    PROVE  RowAgrees(j)'
BY StoredSame DEF RowSame, RowAgrees, Derived, Exists

LEMMA CopyKept ==
    ASSUME NEW j \in Invoices, RowSame(j), NEW w \in Workers, req'[w] = req[w],
           CopyIsGood(w, j), StillSo(w, j)
    PROVE  CopyIsGood(w, j)' /\ StillSo(w, j)'
BY StoredSame DEF RowSame, CopyIsGood, StillSo

\* A step of session w that writes no row: of the invoice it holds afterwards,
\* if that is not raced, it was the holder or nobody was, and its copy is good.
LEMMA QuietAlone ==
    ASSUME AloneInv, NEW w \in Workers, raced \subseteq raced',
           \A v \in Workers \ {w} : req'[v] = req[v],
           UNCHANGED <<state, tax, totals, on, amount, pushed>>,
           \A j \in Invoices \ raced' : Alone(j) /\ Holds(w, j)' =>
              /\ Holds(w, j) \/ \A v \in Workers : ~Holds(v, j)
              /\ CopyIsGood(w, j)' /\ StillSo(w, j)'
    PROVE  AloneInv'
<1> SUFFICES ASSUME NEW j \in Invoices, j \notin raced' PROVE Alone(j)'
  BY DEF AloneInv
<1>1. Alone(j)
  BY DEF AloneInv
<1>2. RowSame(j)
  BY DEF RowSame
<1>3. RowAgrees(j)'
  BY <1>1, <1>2, RowKept DEF Alone
<1>4. ASSUME NEW u \in Workers, NEW v \in Workers, Holds(u, j)', Holds(v, j)'
      PROVE  u = v
  BY <1>1, <1>4 DEF Alone, Holds
<1>5. ASSUME NEW v \in Workers, Holds(v, j)'
      PROVE  CopyIsGood(v, j)' /\ StillSo(v, j)'
  <2>1. CASE v = w
    BY <1>1, <1>5, <2>1
  <2>2. CASE v # w
    BY <1>1, <1>2, <1>5, <2>2, CopyKept DEF Alone, Holds
  <2> QED BY <2>1, <2>2
<1> QED BY <1>3, <1>4, <1>5 DEF Alone

\* A session past its load has an invoice, and a line if it writes one.
LEMMA WriterHolds ==
    ASSUME DraftingInv, NEW w \in Workers, req[w].op \in Phases \ {"idle", "cost", "forget"}
    PROVE  /\ req[w].inv \in Invoices
           /\ req[w].op \in {"built", "added", "edit", "remove", "removed", "push", "pushnew"} =>
                 req[w].line \in Lines
BY RequestFields DEF DraftingInv, TypeOK, AtHand

\* The commit of a good copy stores the totals of the copy.
LEMMA TotalsWritten ==
    ASSUME TypeOK, NEW w \in Workers, NEW i \in Invoices, i = req[w].inv, WriteTotals(w, req[w].tax)
    PROVE  /\ \A j \in Invoices \ {i} : totals'[j] = totals[j]
           /\ req[w].was = totals[i] =>
                totals'[i].lines = req[w].seen /\ totals'[i].tax = req[w].tax
BY DEF TypeOK, WriteTotals, Recomputed

\* A session that has begun writes the rows of the invoice it holds only: a line
\* that it changes or removes is on that invoice, a line that it inserts is new.
LEMMA OthersSame ==
    ASSUME DraftingInv, LinesStay, NEW w \in Workers, Continue(w), NEW j \in Invoices, ~Holds(w, j)
    PROVE  RowSame(j)
<1> USE DEF Holds
<1>1. CASE UNCHANGED <<state, tax, totals, on, amount>>
  BY <1>1 DEF RowSame
<1>2. CASE Rollback(w)
  BY <1>1, <1>2 DEF Rollback, tables, invoiceVars, lineVars
<1>3. CASE \/ CreateFlush(w) \/ FlushLine(w) \/ RemoveFlush(w)
           \/ \E l \in Lines, a \in Amounts, d \in Disbursements \union {NoDisbursement} :
                 BuildLine(w, l, a, d)
  BY <1>1, <1>2, <1>3
     DEF CreateFlush, FlushLine, RemoveFlush, BuildLine, tables, invoiceVars, lineVars
<1>4. ASSUME req[w].inv \in Invoices, WriteTotals(w, req[w].tax) PROVE totals'[j] = totals[j]
  BY <1>4, TotalsWritten DEF DraftingInv
<1>5. CASE CreateCommit(w)
  BY <1>4, <1>5, WriterHolds
     DEF CreateCommit, Appear, RowSame, lineVars, DraftingInv, TypeOK, Phases
<1>6. CASE AddCommit(w)
  <2>1. on[req[w].line] = NoInvoice /\ req[w].inv \in Invoices /\ req[w].line \in Lines
    BY <1>6, WriterHolds DEF AddCommit, DraftingInv, LinesAreDrawn, Draws, Phases
  <2>2. state'[j] = state[j] /\ tax'[j] = tax[j]
    BY <1>6 DEF AddCommit, Appear, DraftingInv, TypeOK
  <2> QED BY <1>4, <1>6, <2>1, <2>2, DraftingAssumption
          DEF AddCommit, RowSame, DraftingInv, TypeOK
<1>7. CASE EditCommit(w)
  BY <1>2, <1>4, <1>7, WriterHolds DEF EditCommit, RowSame, DraftingInv, TypeOK, Phases
<1>8. CASE RemoveCommit(w) /\ ~Rollback(w)
  <2>1. /\ req[w].inv \in Invoices /\ req[w].line \in Lines
        /\ on[req[w].line] \in {req[w].inv, NoInvoice}
    BY <1>8, WriterHolds DEF RemoveCommit, LinesStay, Phases
  <2> QED BY <1>4, <1>8, <2>1, DraftingAssumption
          DEF RemoveCommit, RemoveLines, RowSame, DraftingInv, TypeOK
<1>9. CASE PatchCommit(w)
  BY <1>2, <1>4, <1>9, WriterHolds DEF PatchCommit, RowSame, lineVars, DraftingInv, TypeOK, Phases
<1>10. CASE DeleteCommit(w)
  BY <1>10, DraftingAssumption
     DEF DeleteCommit, RemoveLines, LinesOn, RowSame, DraftingInv, TypeOK
<1>11. CASE MoveCommit(w)
  BY <1>2, <1>11 DEF MoveCommit, RowSame, lineVars, DraftingInv, TypeOK
<1>12. CASE DisbursementCommit(w)
  BY <1>1, <1>2, <1>12 DEF DisbursementCommit, invoiceVars, lineVars
<1>13. CASE PushCommit(w) /\ ~Rollback(w)
  <2>1. /\ req[w].inv \in Invoices /\ req[w].line \in Lines
        /\ on[req[w].line] \in {req[w].inv, NoInvoice}
    BY <1>13, WriterHolds DEF PushCommit, DraftingInv, LinesAreDrawn, Draws, Phases
  <2> QED BY <1>4, <1>13, <2>1, DraftingAssumption DEF PushCommit, RowSame, DraftingInv, TypeOK
<1> QED BY <1>2, <1>3, <1>5, <1>6, <1>7, <1>8, <1>9, <1>10, <1>11, <1>12, <1>13 DEF Continue

\* A commit of session w writes the rows of its invoice only, which then agree.
LEMMA WriteAlone ==
    ASSUME DraftingInv, LinesStay, AloneInv, NEW w \in Workers, NEW i \in Invoices, Holds(w, i),
           Continue(w), Close(w), raced' = raced, pushed \subseteq pushed',
           i \notin raced /\ CopyIsGood(w, i) /\ StillSo(w, i) /\ RowAgrees(i) => RowAgrees(i)'
    PROVE  AloneInv'
<1> SUFFICES ASSUME NEW j \in Invoices, j \notin raced' PROVE Alone(j)'
  BY DEF AloneInv
<1>1. Alone(j)
  BY DEF AloneInv
<1>2. \A v \in Workers : IF v = w THEN req'[v].inv = NoInvoice ELSE req'[v] = req[v]
  BY DEF Close, Idle, DraftingInv, TypeOK
<1>3. \A v \in Workers : Holds(v, j)' => v # w /\ Holds(v, j)
  BY <1>2, DraftingAssumption DEF Holds
<1>4. CASE j = i
  <2>1. RowAgrees(j)'
    BY <1>1, <1>4 DEF Alone
  <2> QED BY <1>1, <1>3, <1>4, <2>1 DEF Alone
<1>5. CASE j # i
  <2>1. RowSame(j)
    BY <1>5, OthersSame DEF Holds
  <2>2. RowAgrees(j)'
    BY <1>1, <2>1, RowKept DEF Alone
  <2>3. ASSUME NEW v \in Workers, Holds(v, j)' PROVE CopyIsGood(v, j)' /\ StillSo(v, j)'
    BY <1>1, <1>2, <1>3, <2>1, <2>3, CopyKept DEF Alone
  <2> QED BY <1>1, <1>3, <2>2, <2>3 DEF Alone
<1> QED BY <1>4, <1>5

\* A handler that ends without a write.
LEMMA RollbackAlone ==
    ASSUME DraftingInv, AloneInv, NEW w \in Workers, Rollback(w)
    PROVE  AloneInv'
<1>1. /\ \A v \in Workers \ {w} : req'[v] = req[v]
      /\ req'[w].inv = NoInvoice
  BY DEF Rollback, Close, Idle, DraftingInv, TypeOK
<1>2. \A j \in Invoices : ~Holds(w, j)'
  BY <1>1, DraftingAssumption DEF Holds
<1> QED BY <1>1, <1>2, QuietAlone
        DEF Rollback, tables, invoiceVars, lineVars, history

\* A handler that loads invoice i.
LEMMA LoadAlone ==
    ASSUME DraftingInv, AloneInv, NEW w \in Workers, NEW i \in Invoices, NEW r,
           Load(w, r), r.inv = i,
           i \notin raced /\ RowAgrees(i) => (CopyIsGood(w, i) /\ StillSo(w, i))'
    PROVE  AloneInv'
<1>1. req'[w] = r /\ \A v \in Workers \ {w} : req'[v] = req[v]
  BY DEF Load, DraftingInv, TypeOK
<1>2. /\ raced \subseteq raced'
      /\ UNCHANGED <<state, tax, totals, on, amount, pushed>>
  BY DEF Load, tables, invoiceVars, lineVars
<1>3. ASSUME NEW j \in Invoices \ raced', Alone(j), Holds(w, j)'
      PROVE  /\ \A v \in Workers : ~Holds(v, j)
             /\ CopyIsGood(w, j)' /\ StillSo(w, j)'
  <2>1. j = i
    BY <1>1, <1>3 DEF Holds
  <2>2. \A v \in Workers : ~Holds(v, j)
    BY <1>3, <2>1 DEF Load, HoldsInvoice, Holds
  <2> QED BY <1>2, <1>3, <2>1, <2>2 DEF Alone
<1> QED BY <1>1, <1>2, <1>3, QuietAlone

\* The handlers of invoice_service.py and a push, up to their first flush.
LEMMA BeginAlone ==
    ASSUME DraftingInv, AloneInv, NEW w \in Workers, Begin(w)
    PROVE  AloneInv'
<1> USE DEF DraftingInv
<1>1. ASSUME NEW i \in Invoices, NEW k \in Keys \union {NoKey}, NEW t \in Taxes,
             CreateLoad(w, i, k, t)
      PROVE  AloneInv'
  <2>1. /\ req'[w].op = "create" /\ req'[w].inv = i /\ req'[w].seen = {} /\ req'[w].was = NoTotals
        /\ \A v \in Workers \ {w} : req'[v] = req[v]
    BY <1>1 DEF CreateLoad, Idle, TypeOK
  <2>2. /\ state[i] = "absent" /\ \A v \in Workers : ~Holds(v, i)
        /\ UNCHANGED <<state, tax, totals, on, amount, pushed, raced>>
    BY <1>1 DEF CreateLoad, HoldsInvoice, Holds, tables, invoiceVars, lineVars, history
  <2>3. ASSUME Alone(i) PROVE CopyIsGood(w, i)' /\ StillSo(w, i)'
    <3>1. Stored(i) = {} /\ totals[i] = NoTotals /\ Stored(i)' = Stored(i)
      BY <2>2, <2>3 DEF Alone, RowAgrees, Stored, LinesOn
    <3> QED BY <2>1, <2>2, <3>1 DEF CopyIsGood, StillSo
  <2> QED BY <2>1, <2>2, <2>3, QuietAlone DEF Holds
<1>2. ASSUME NEW i \in Invoices, NEW r, Load(w, r), r.inv = i,
             r.op \in {"add", "remove", "patch", "retax", "pushnew"},
             r.was = totals[i], r.seen = Stored(i),
             r.op # "pushnew" => state[i] = "draft",
             r.op \in {"add", "remove", "pushnew"} => r.tax = tax[i],
             r.op = "retax" => r.tax \in Overrides \union {tax[i]}
      PROVE  AloneInv'
  <2>1. req'[w] = r /\ UNCHANGED <<state, tax, totals, on, amount>>
    BY <1>2 DEF Load, TypeOK, tables, invoiceVars, lineVars
  <2>2. Stored(i)' = Stored(i)
    BY <2>1 DEF Stored, LinesOn
  <2>3. CopyIsGood(w, i)' /\ StillSo(w, i)'
    BY <1>2, <2>1, <2>2 DEF CopyIsGood, StillSo
  <2> QED BY <1>2, <2>3, LoadAlone
<1>3. ASSUME NEW i \in Invoices, NEW l \in Lines, NEW a \in Amounts, NEW op \in {"edit", "push"},
             Load(w, Edited(i, l, a, op)), op = "edit" => state[i] = "draft"
      PROVE  AloneInv'
  <2>1. PICK r \in Requests : r = Edited(i, l, a, op)
    BY EditedReady
  <2>2. /\ r.op = op /\ r.inv = i /\ r.was = totals[i] /\ r.tax = tax[i]
        /\ r.line = l /\ r.amount = a
        /\ r.seen = {p \in Stored(i) : p[1] # l} \union {<<l, a>>}
    BY <2>1 DEF Edited, Copy, Idle
  <2>3. req'[w] = r /\ UNCHANGED <<state, tax, totals, on, amount>>
    BY <1>3, <2>1 DEF Load, TypeOK, tables, invoiceVars, lineVars
  <2>4. Stored(i)' = Stored(i)
    BY <2>3 DEF Stored, LinesOn
  <2>5. CopyIsGood(w, i)' /\ StillSo(w, i)'
    BY <1>3, <2>2, <2>3, <2>4 DEF CopyIsGood, StillSo
  <2> QED BY <1>3, <2>1, <2>2, <2>5, LoadAlone
<1>4. ASSUME NEW i \in Invoices, AddLoad(w, i) PROVE AloneInv'
  BY <1>2, <1>4 DEF AddLoad, Copy, Idle
<1>5. ASSUME NEW i \in Invoices, NEW l \in Lines, NEW a \in Amounts, EditLoad(w, i, l, a)
      PROVE  AloneInv'
  BY <1>3, <1>5 DEF EditLoad
<1>6. ASSUME NEW i \in Invoices, NEW l \in Lines, NEW a \in Amounts, PushLoad(w, i, l, a)
      PROVE  AloneInv'
  <2>1. CASE Load(w, Edited(i, l, a, "push"))
    BY <1>3, <2>1
  <2>2. CASE Load(w, [Copy(i, "pushnew") EXCEPT !.line = l, !.amount = a])
    BY <1>2, <2>2 DEF Copy, Idle
  <2> QED BY <1>6, <2>1, <2>2 DEF PushLoad
<1>7. ASSUME NEW i \in Invoices, NEW l \in Lines, RemoveLoad(w, i, l) PROVE AloneInv'
  BY <1>2, <1>7 DEF RemoveLoad, Copy, Idle
<1>8. ASSUME NEW i \in Invoices, NEW t \in Taxes \union Overrides, PatchLoad(w, i, t)
      PROVE  AloneInv'
  <2>1. PICK op \in {"patch", "retax"} :
          /\ op = "retax" => t \in Overrides \union {tax[i]}
          /\ Load(w, [Copy(i, op) EXCEPT !.tax = t])
    BY <1>8 DEF PatchLoad
  <2> QED BY <1>2, <1>8, <2>1 DEF PatchLoad, Copy, Idle
<1>9. ASSUME NEW i \in Invoices, NEW op \in {"delete", "issue", "void"}, Load(w, Glance(i, op)),
             op # "void" => state[i] = "draft"
      PROVE  AloneInv'
  <2>1. req'[w].op = op /\ Glance(i, op).inv = i /\ state' = state
    BY <1>9 DEF Load, Glance, Idle, TypeOK, tables, invoiceVars
  <2>2. CopyIsGood(w, i)' /\ StillSo(w, i)'
    BY <1>9, <2>1 DEF CopyIsGood, StillSo
  <2> QED BY <1>9, <2>1, <2>2, LoadAlone
<1>10. ASSUME NEW d \in Disbursements, NEW op, NEW a, DisbursementLoad(w, d, op, a)
       PROVE  AloneInv'
  <2>1. /\ \A v \in Workers \ {w} : req'[v] = req[v]
        /\ req'[w].inv = NoInvoice
    BY <1>10 DEF DisbursementLoad, Idle, TypeOK
  <2>2. \A j \in Invoices : ~Holds(w, j)'
    BY <2>1, DraftingAssumption DEF Holds
  <2> QED BY <1>10, <2>1, <2>2, QuietAlone
          DEF DisbursementLoad, tables, invoiceVars, lineVars
<1> QED BY <1>1, <1>4, <1>5, <1>6, <1>7, <1>8, <1>9, <1>10
        DEF Begin, DeleteLoad, IssueLoad, VoidLoad

\* A refresh of a good copy finds the lines it has.
LEMMA RefreshIsGood ==
    ASSUME NEW w \in Workers, NEW i \in Invoices, Holds(w, i), req[w].seen = Stored(i)
    PROVE  Refreshed(w) = Stored(i)
<1>1. ASSUME NEW l \in LinesOn(i) PROVE l \in {p[1] : p \in Stored(i)}
  <2>1. <<l, amount[l]>> \in Stored(i) /\ <<l, amount[l]>>[1] = l
    BY DEF Stored
  <2> QED BY <2>1
<1>2. \A p \in Stored(i) : p[1] \in LinesOn(i)
  BY DEF Stored
<1>3. {p \in Stored(i) : p[1] \in LinesOn(i)} = Stored(i)
  BY <1>2
<1>4. LinesOn(i) \ {p[1] : p \in Stored(i)} = {}
  BY <1>1
<1> QED BY <1>3, <1>4 DEF Refreshed, Holds

\* The flushes, which leave the rows to the commit.
LEMMA FlushAlone ==
    ASSUME DraftingInv, AloneInv, NEW w \in Workers,
           \/ CreateFlush(w) \/ FlushLine(w) \/ RemoveFlush(w)
           \/ \E l \in Lines, a \in Amounts, d \in Disbursements \union {NoDisbursement} :
                 BuildLine(w, l, a, d)
    PROVE  AloneInv'
<1> USE DEF DraftingInv
<1>1. CASE Rollback(w)
  BY <1>1, RollbackAlone
<1>2. CASE CreateFlush(w) /\ ~Rollback(w)
  <2>1. /\ UNCHANGED <<tables, raced, pushed>>
        /\ \A v \in Workers \ {w} : req'[v] = req[v]
        /\ req[w].op = "create" /\ req'[w] = [req[w] EXCEPT !.op = "add"]
    BY <1>2 DEF CreateFlush, TypeOK, history
  <2>2. /\ req'[w].op = "add" /\ req'[w].inv = req[w].inv /\ req'[w].seen = req[w].seen
        /\ req'[w].was = req[w].was /\ req'[w].tax = req[w].tax
    BY <2>1, RequestFields DEF TypeOK, Requests
  <2>3. req[w].inv \in Invoices /\ state[req[w].inv] = "absent"
    BY <2>1, RequestFields DEF TypeOK, NewIsOwn, AtHand, Phases
  <2>4. \A i \in Invoices : Holds(w, i) => state[i] = "absent"
    BY <2>3 DEF Holds
  <2>5. UNCHANGED <<state, tax, totals, on, amount, pushed>> /\ raced \subseteq raced'
    BY <2>1 DEF tables, invoiceVars, lineVars
  <2>6. ASSUME NEW i \in Invoices, Alone(i), Holds(w, i)'
        PROVE  /\ Holds(w, i)
               /\ CopyIsGood(w, i)' /\ StillSo(w, i)'
    <3>1. Holds(w, i) /\ Stored(i)' = Stored(i)
      BY <2>2, <2>5, <2>6 DEF Holds, Stored, LinesOn
    <3>2. CopyIsGood(w, i) /\ state[i] = "absent"
      BY <2>4, <2>6, <3>1 DEF Alone
    <3> QED BY <2>1, <2>2, <2>5, <3>1, <3>2 DEF CopyIsGood, StillSo
  <2> QED BY <2>1, <2>5, <2>6, QuietAlone
<1>3. ASSUME NEW l, NEW a, NEW d, BuildLine(w, l, a, d) PROVE AloneInv'
  <2>1. /\ UNCHANGED <<tables, raced, pushed>>
        /\ \A v \in Workers \ {w} : req'[v] = req[v]
        /\ req[w].op = "add"
        /\ req'[w] = [req[w] EXCEPT !.op = "built", !.line = l, !.amount = a, !.disb = d]
    BY <1>3 DEF BuildLine, TypeOK
  <2>2. /\ req'[w].op = "built" /\ req'[w].inv = req[w].inv /\ req'[w].seen = req[w].seen
        /\ req'[w].was = req[w].was /\ req'[w].tax = req[w].tax
    BY <2>1, RequestFields DEF TypeOK, Requests
  <2>3. UNCHANGED <<state, tax, totals, on, amount, pushed>> /\ raced \subseteq raced'
    BY <2>1 DEF tables, invoiceVars, lineVars
  <2>4. ASSUME NEW i \in Invoices, Alone(i), Holds(w, i)'
        PROVE  /\ Holds(w, i)
               /\ CopyIsGood(w, i)' /\ StillSo(w, i)'
    <3>1. Holds(w, i) /\ Stored(i)' = Stored(i)
      BY <2>2, <2>3, <2>4 DEF Holds, Stored, LinesOn
    <3>2. CopyIsGood(w, i) /\ StillSo(w, i)
      BY <2>4, <3>1 DEF Alone
    <3> QED BY <2>1, <2>2, <2>3, <3>1, <3>2 DEF CopyIsGood, StillSo
  <2> QED BY <2>1, <2>3, <2>4, QuietAlone
<1>4. CASE FlushLine(w) /\ ~Rollback(w)
  <2> DEFINE s == Refreshed(w) \union {<<req[w].line, req[w].amount>>}
  <2>1. /\ UNCHANGED <<tables, raced, pushed>>
        /\ \A v \in Workers \ {w} : req'[v] = req[v]
        /\ req[w].op = "built"
        /\ req'[w] = [req[w] EXCEPT !.op = "added", !.seen = s]
    BY <1>4 DEF FlushLine, TypeOK, history
  <2> HIDE DEF s
  <2>2. /\ req'[w].op = "added" /\ req'[w].inv = req[w].inv /\ req'[w].seen = s
        /\ req'[w].was = req[w].was /\ req'[w].tax = req[w].tax
        /\ req'[w].line = req[w].line /\ req'[w].amount = req[w].amount
    BY <2>1, RequestFields DEF TypeOK, Requests
  <2>3. UNCHANGED <<state, tax, totals, on, amount, pushed>> /\ raced \subseteq raced'
    BY <2>1 DEF tables, invoiceVars, lineVars
  <2>4. ASSUME NEW i \in Invoices, Alone(i), Holds(w, i)'
        PROVE  /\ Holds(w, i)
               /\ CopyIsGood(w, i)' /\ StillSo(w, i)'
    <3>1. Holds(w, i) /\ Stored(i)' = Stored(i)
      BY <2>2, <2>3, <2>4 DEF Holds, Stored, LinesOn
    <3>2. CopyIsGood(w, i) /\ StillSo(w, i)
      BY <2>4, <3>1 DEF Alone
    <3>3. Refreshed(w) = Stored(i)
      BY <2>1, <3>1, <3>2, RefreshIsGood DEF CopyIsGood
    <3>4. s = Stored(i) \union {<<req[w].line, req[w].amount>>}
      BY <3>3 DEF s
    <3> QED BY <2>1, <2>2, <2>3, <3>1, <3>2, <3>4 DEF CopyIsGood, StillSo
  <2> QED BY <2>1, <2>3, <2>4, QuietAlone
<1>5. CASE RemoveFlush(w)
  <2> DEFINE s == RemainingLines(w)
  <2>1. /\ UNCHANGED <<tables, raced, pushed>>
        /\ \A v \in Workers \ {w} : req'[v] = req[v]
        /\ req[w].op = "remove"
        /\ req'[w] = [req[w] EXCEPT !.op = "removed", !.seen = s]
    BY <1>5 DEF RemoveFlush, TypeOK, history
  <2> HIDE DEF s
  <2>2. /\ req'[w].op = "removed" /\ req'[w].inv = req[w].inv /\ req'[w].seen = s
        /\ req'[w].was = req[w].was /\ req'[w].tax = req[w].tax /\ req'[w].line = req[w].line
    BY <2>1, RequestFields DEF TypeOK, Requests
  <2>3. UNCHANGED <<state, tax, totals, on, amount, pushed>> /\ raced \subseteq raced'
    BY <2>1 DEF tables, invoiceVars, lineVars
  <2>4. ASSUME NEW i \in Invoices, Alone(i), Holds(w, i)'
        PROVE  /\ Holds(w, i)
               /\ CopyIsGood(w, i)' /\ StillSo(w, i)'
    <3>1. Holds(w, i) /\ Stored(i)' = Stored(i)
      BY <2>2, <2>3, <2>4 DEF Holds, Stored, LinesOn
    <3>2. CopyIsGood(w, i) /\ StillSo(w, i)
      BY <2>4, <3>1 DEF Alone
    <3>3. Refreshed(w) = Stored(i)
      BY <2>1, <3>1, <3>2, RefreshIsGood DEF CopyIsGood
    <3>4. s = {p \in Stored(i) : p[1] # req[w].line}
      BY <3>3 DEF s, RemainingLines
    <3> QED BY <2>1, <2>2, <2>3, <3>1, <3>2, <3>4 DEF CopyIsGood, StillSo
  <2> QED BY <2>1, <2>3, <2>4, QuietAlone
<1> QED BY <1>1, <1>2, <1>3, <1>4, <1>5

LEMMA CreateAlone ==
    ASSUME DraftingInv, LinesStay, AloneInv, NEW w \in Workers, CreateCommit(w)
    PROVE  AloneInv'
<1> PICK i \in Invoices : i = req[w].inv
  BY WriterHolds DEF CreateCommit, Phases
<1>1. /\ Holds(w, i) /\ Close(w) /\ WriteTotals(w, req[w].tax) /\ req[w].op = "add"
      /\ state'[i] = "draft" /\ tax'[i] = req[w].tax
      /\ UNCHANGED <<on, amount, raced, pushed>>
  BY DEF CreateCommit, Appear, Holds, lineVars, history, DraftingInv, TypeOK
<1>2. ASSUME CopyIsGood(w, i) PROVE RowAgrees(i)'
  <2>1. totals'[i].lines = Stored(i) /\ totals'[i].tax = tax'[i]
    BY <1>1, <1>2, TotalsWritten DEF CopyIsGood, DraftingInv
  <2>2. Stored(i)' = Stored(i)
    BY <1>1 DEF Stored, LinesOn
  <2> QED BY <1>1, <2>1, <2>2 DEF RowAgrees, Derived
<1> QED BY <1>1, <1>2, WriteAlone DEF Continue

\* A new line is on no invoice before its commit.
LEMMA AddAlone ==
    ASSUME DraftingInv, LinesStay, AloneInv, NEW w \in Workers, AddCommit(w)
    PROVE  AloneInv'
<1> PICK i \in Invoices, l \in Lines : i = req[w].inv /\ l = req[w].line
  BY WriterHolds DEF AddCommit, Phases
<1> PICK a : a = req[w].amount
  OBVIOUS
<1>1. /\ Holds(w, i) /\ Close(w) /\ WriteTotals(w, req[w].tax) /\ req[w].op = "added" /\ Appear(w)
      /\ \A k \in Lines : /\ on'[k] = IF k = l THEN i ELSE on[k]
                          /\ amount'[k] = IF k = l THEN a ELSE amount[k]
      /\ UNCHANGED <<raced, pushed>>
  BY DEF AddCommit, Holds, history, DraftingInv, TypeOK
<1>2. on[l] = NoInvoice
  BY <1>1 DEF DraftingInv, LinesAreDrawn, Draws
<1>3. ASSUME CopyIsGood(w, i), StillSo(w, i) PROVE RowAgrees(i)'
  <2>1. totals'[i].lines = Stored(i) \union {<<l, a>>} /\ totals'[i].tax = req[w].tax
    BY <1>1, <1>3, TotalsWritten DEF CopyIsGood, DraftingInv
  <2>2. LinesOn(i)' = LinesOn(i) \union {l} /\ l \notin LinesOn(i)
    BY <1>1, <1>2, DraftingAssumption DEF LinesOn
  <2>3. \A k \in LinesOn(i) : amount'[k] = amount[k]
    BY <1>1, <2>2 DEF LinesOn
  <2>4. Stored(i)' = Stored(i) \union {<<l, a>>}
    BY <1>1, <2>2, <2>3 DEF Stored
  <2>5. tax'[i] = req[w].tax /\ state'[i] # "absent"
    BY <1>1, <1>3 DEF Appear, StillSo, DraftingInv, TypeOK
  <2> QED BY <2>1, <2>4, <2>5 DEF RowAgrees, Derived
<1> QED BY <1>1, <1>3, WriteAlone DEF Continue

\* An edit, of a request or a push, of a line that is still there.
LEMMA LineEdited ==
    ASSUME DraftingInv, LinesStay, AloneInv,
           NEW w \in Workers, NEW i \in Invoices, NEW l \in Lines, NEW a,
           i = req[w].inv, l = req[w].line, a = req[w].amount, Continue(w),
           req[w].op \in {"edit", "push"}, on[l] = i,
           on' = on, amount' = [amount EXCEPT ![l] = a],
           WriteTotals(w, req[w].tax), Close(w), UNCHANGED <<state, tax, raced, pushed>>
    PROVE  AloneInv'
<1>1. \A k \in Lines : amount'[k] = IF k = l THEN a ELSE amount[k]
  BY DEF DraftingInv, TypeOK
<1>2. ASSUME CopyIsGood(w, i), StillSo(w, i), RowAgrees(i) PROVE RowAgrees(i)'
  <2>1. /\ totals'[i].lines = {p \in Stored(i) : p[1] # l} \union {<<l, a>>}
        /\ totals'[i].tax = req[w].tax
    BY <1>2, TotalsWritten DEF CopyIsGood, DraftingInv
  <2>2. LinesOn(i)' = LinesOn(i) /\ l \in LinesOn(i)
    BY DEF LinesOn
  <2>3. {p \in Stored(i) : p[1] # l} = {<<k, amount[k]>> : k \in LinesOn(i) \ {l}}
    BY DEF Stored
  <2>4. \A k \in LinesOn(i) \ {l} : amount'[k] = amount[k]
    BY <1>1 DEF LinesOn
  <2>5. Stored(i)' = {<<k, amount[k]>> : k \in LinesOn(i) \ {l}} \union {<<l, a>>}
    BY <1>1, <2>2, <2>4 DEF Stored
  <2>6. state[i] # "absent"
    BY <1>2, <2>2 DEF RowAgrees
  <2>7. req[w].tax = tax[i]
    BY <1>2, <2>6 DEF StillSo
  <2> QED BY <2>1, <2>3, <2>5, <2>6, <2>7 DEF RowAgrees, Derived
<1> QED BY <1>2, WriteAlone DEF Holds

LEMMA EditAlone ==
    ASSUME DraftingInv, LinesStay, AloneInv, NEW w \in Workers, EditCommit(w)
    PROVE  AloneInv'
<1> PICK i \in Invoices, l \in Lines : i = req[w].inv /\ l = req[w].line
  BY WriterHolds DEF EditCommit, Phases
<1>1. CASE Rollback(w)
  BY <1>1, RollbackAlone
<1>2. CASE ~Rollback(w)
  <2>1. Continue(w)
    BY DEF Continue
  <2> QED BY <1>2, <2>1, LineEdited DEF EditCommit, history
<1> QED BY <1>1, <1>2

LEMMA PushAlone ==
    ASSUME DraftingInv, LinesStay, AloneInv, NEW w \in Workers, PushCommit(w)
    PROVE  AloneInv'
<1> PICK i \in Invoices, l \in Lines : i = req[w].inv /\ l = req[w].line
  BY WriterHolds DEF PushCommit, Phases
<1>1. CASE Rollback(w)
  BY <1>1, RollbackAlone
<1>2. CASE ~Rollback(w)
  <2>1. /\ Holds(w, i) /\ Close(w) /\ WriteTotals(w, req[w].tax)
        /\ req[w].op \in {"push", "pushnew"}
        /\ IF req[w].op = "push" THEN on[l] = i ELSE Exists(i)
        /\ on' = [on EXCEPT ![l] = i] /\ amount' = [amount EXCEPT ![l] = req[w].amount]
        /\ pushed' = IF req[w].op = "pushnew" THEN pushed \union {i} ELSE pushed
        /\ UNCHANGED <<state, tax, raced>>
    BY <1>2 DEF PushCommit, Holds
  <2>2. Continue(w)
    BY DEF Continue
  <2>3. CASE req[w].op = "push"
    <3>1. on' = on
      BY <2>1, <2>3 DEF DraftingInv, TypeOK
    <3> QED BY <2>1, <2>2, <2>3, <3>1, LineEdited
  <2>4. CASE req[w].op = "pushnew"
    <3>1. RowAgrees(i)'
      BY <2>1, <2>4 DEF RowAgrees, Exists
    <3> QED BY <2>1, <2>2, <2>4, <3>1, WriteAlone
  <2> QED BY <2>1, <2>3, <2>4
<1> QED BY <1>1, <1>2

\* The line that is removed is on the invoice of the session, or gone already.
LEMMA RemoveAlone ==
    ASSUME DraftingInv, LinesStay, AloneInv, NEW w \in Workers, RemoveCommit(w)
    PROVE  AloneInv'
<1> PICK i \in Invoices, l \in Lines : i = req[w].inv /\ l = req[w].line
  BY WriterHolds DEF RemoveCommit, Phases
<1>1. CASE Rollback(w)
  BY <1>1, RollbackAlone
<1>2. CASE ~Rollback(w)
  <2>1. /\ Holds(w, i) /\ Close(w) /\ WriteTotals(w, req[w].tax) /\ req[w].op = "removed"
        /\ Exists(i) /\ RemoveLines({l}) /\ UNCHANGED <<state, tax, raced, pushed>>
    BY <1>2 DEF RemoveCommit, Holds, history
  <2>2. ASSUME CopyIsGood(w, i), StillSo(w, i) PROVE RowAgrees(i)'
    <3>1. /\ totals'[i].lines = {p \in Stored(i) : p[1] # l} /\ totals'[i].tax = tax[i]
          /\ state[i] # "absent"
      BY <2>1, <2>2, TotalsWritten DEF CopyIsGood, StillSo, Exists, DraftingInv
    <3>2. LinesOn(i)' = LinesOn(i) \ {l}
      BY <2>1, DraftingAssumption DEF LinesOn, RemoveLines
    <3>3. \A k \in LinesOn(i) \ {l} : amount'[k] = amount[k]
      BY <2>1 DEF LinesOn, RemoveLines
    <3>4. Stored(i)' = {<<k, amount[k]>> : k \in LinesOn(i) \ {l}}
      BY <3>2, <3>3 DEF Stored
    <3>5. {p \in Stored(i) : p[1] # l} = {<<k, amount[k]>> : k \in LinesOn(i) \ {l}}
      BY DEF Stored
    <3> QED BY <2>1, <3>1, <3>4, <3>5 DEF RowAgrees, Derived
  <2> QED BY <2>1, <2>2, WriteAlone DEF Continue
<1> QED BY <1>1, <1>2

LEMMA PatchAlone ==
    ASSUME DraftingInv, LinesStay, AloneInv, NEW w \in Workers, PatchCommit(w)
    PROVE  AloneInv'
<1> PICK i \in Invoices : i = req[w].inv
  BY WriterHolds DEF PatchCommit, Phases
<1>1. CASE Rollback(w)
  BY <1>1, RollbackAlone
<1>2. CASE ~Rollback(w)
  <2>1. /\ Holds(w, i) /\ Close(w) /\ WriteTotals(w, req[w].tax) /\ req[w].op \in {"patch", "retax"}
        /\ Exists(i) /\ tax' = IF req[w].op = "patch" THEN [tax EXCEPT ![i] = req[w].tax] ELSE tax
        /\ UNCHANGED <<state, on, amount, raced, pushed>>
    BY <1>2 DEF PatchCommit, Holds, lineVars, history
  <2>2. ASSUME CopyIsGood(w, i), StillSo(w, i) PROVE RowAgrees(i)'
    <3>1. totals'[i].lines = Stored(i) /\ totals'[i].tax = req[w].tax
      BY <2>1, <2>2, TotalsWritten DEF CopyIsGood, DraftingInv
    <3>2. req[w].tax \in Overrides \union {tax'[i]}
      BY <2>1, <2>2 DEF StillSo, DraftingInv, TypeOK
    <3>3. Stored(i)' = Stored(i)
      BY <2>1 DEF Stored, LinesOn
    <3> QED BY <2>1, <3>1, <3>2, <3>3 DEF RowAgrees, Derived, Exists
  <2> QED BY <2>1, <2>2, WriteAlone DEF Continue
<1> QED BY <1>1, <1>2

LEMMA DeleteAlone ==
    ASSUME DraftingInv, LinesStay, AloneInv, NEW w \in Workers, DeleteCommit(w)
    PROVE  AloneInv'
<1> PICK i \in Invoices : i = req[w].inv
  BY WriterHolds DEF DeleteCommit, Phases
<1>1. Holds(w, i) /\ Close(w) /\ UNCHANGED <<raced, pushed>> /\ state'[i] = "deleted"
  BY DEF DeleteCommit, Holds, history, DraftingInv, TypeOK
<1>2. RowAgrees(i)'
  BY <1>1 DEF RowAgrees, Exists
<1> QED BY <1>1, <1>2, WriteAlone DEF Continue

LEMMA MoveAlone ==
    ASSUME DraftingInv, LinesStay, AloneInv, NEW w \in Workers, MoveCommit(w)
    PROVE  AloneInv'
<1> PICK i \in Invoices : i = req[w].inv
  BY WriterHolds DEF MoveCommit, Phases
<1>1. CASE Rollback(w)
  BY <1>1, RollbackAlone
<1>2. CASE ~Rollback(w)
  <2>1. /\ Holds(w, i) /\ Close(w) /\ Exists(i) /\ state'[i] \in {"out", "void"}
        /\ UNCHANGED <<tax, totals, on, amount, raced, pushed>>
    BY <1>2 DEF MoveCommit, Holds, lineVars, history, DraftingInv, TypeOK
  <2>2. Stored(i)' = Stored(i)
    BY <2>1 DEF Stored, LinesOn
  <2>3. RowAgrees(i) => RowAgrees(i)'
    BY <2>1, <2>2 DEF RowAgrees, Derived
  <2> QED BY <2>1, <2>3, WriteAlone DEF Continue
<1> QED BY <1>1, <1>2

LEMMA DisbursementAlone ==
    ASSUME DraftingInv, AloneInv, NEW w \in Workers, DisbursementCommit(w)
    PROVE  AloneInv'
<1>1. CASE Rollback(w)
  BY <1>1, RollbackAlone
<1>2. CASE ~Rollback(w)
  <2>1. Close(w) /\ UNCHANGED <<state, tax, totals, on, amount, raced, pushed>>
    BY <1>2 DEF DisbursementCommit, invoiceVars, lineVars, history
  <2>2. /\ \A v \in Workers \ {w} : req'[v] = req[v]
        /\ \A j \in Invoices : ~Holds(w, j)'
    BY <2>1, DraftingAssumption DEF Close, Idle, Holds, DraftingInv, TypeOK
  <2> QED BY <2>1, <2>2, QuietAlone
<1> QED BY <1>1, <1>2

LEMMA NextAlone ==
    ASSUME DraftingInv, LinesStay, AloneInv, [Next]_vars
    PROVE  AloneInv'
<1>1. ASSUME NEW w \in Workers, Continue(w) PROVE AloneInv'
  BY <1>1, FlushAlone, CreateAlone, AddAlone, EditAlone, PushAlone, RemoveAlone, PatchAlone,
     DeleteAlone, MoveAlone, DisbursementAlone DEF Continue
<1>2. CASE UNCHANGED <<invoiceVars, lineVars, req, raced, pushed>>
  BY <1>2 DEF invoiceVars, lineVars, AloneInv, Alone, Holds, CopyIsGood, StillSo, RowAgrees,
              Derived, Exists, Stored, LinesOn
<1> QED BY <1>1, <1>2, BeginAlone, RollbackAlone
        DEF Next, Abort, CreateDisbursement, vars, tables, history

(***************************************************************************)
(* Disbursements                                                           *)
(***************************************************************************)
\* A disbursement that is unbilled is on no line.
LEMMA UnbilledHasNone ==
    ASSUME DraftingInv, NEW d \in Disbursements, disb[d] = "unbilled", NEW l \in Lines
    PROVE  source[l] # d
BY DraftingAssumption DEF DraftingInv, NoRowNoData, BilledIsMarked

\* A step that takes up no disbursement, bills none and leaves the unbilled ones so.
LEMMA BillQuiet ==
    ASSUME BillInv, contended' = contended,
           \A d \in Disbursements : disb[d] = "unbilled" => disb'[d] = "unbilled",
           \A l \in Lines : source'[l] \in {source[l], NoDisbursement},
           \A v \in Workers : req'[v].disb \in {req[v].disb, NoDisbursement}
    PROVE  BillInv'
BY DraftingAssumption DEF BillInv, OneBill

\* A session takes up an unbilled disbursement.
LEMMA BillTaken ==
    ASSUME BillInv, NEW w \in Workers, NEW d \in Disbursements, disb[d] = "unbilled",
           contended' = (IF HoldsDisbursement(d) THEN contended \union {d} ELSE contended),
           UNCHANGED <<disb, source>>,
           req'[w].disb = d, \A v \in Workers \ {w} : req'[v] = req[v]
    PROVE  BillInv'
<1> SUFFICES ASSUME NEW e \in Disbursements, e \notin contended' PROVE OneBill(e)'
  BY DEF BillInv
<1>1. OneBill(e)
  BY DEF BillInv
<1>2. CASE e = d
  BY <1>1, <1>2 DEF OneBill, HoldsDisbursement
<1>3. CASE e # d
  BY <1>1, <1>3 DEF OneBill
<1> QED BY <1>2, <1>3

\* A session ends by billing, or deleting, the disbursement it holds.
LEMMA BillWritten ==
    ASSUME DraftingInv, BillInv, NEW w \in Workers, NEW d \in Disbursements, req[w].disb = d,
           Close(w), contended' = contended, NEW k,
           \A e \in Disbursements \ {d} : disb'[e] = disb[e],
           \A l \in Lines \ {k} : source'[l] = source[l],
           k \in Lines => source'[k] \in {source[k], d}
    PROVE  BillInv'
<1>1. \A v \in Workers : IF v = w THEN req'[v].disb = NoDisbursement ELSE req'[v] = req[v]
  BY DEF Close, Idle, DraftingInv, TypeOK
<1> SUFFICES ASSUME NEW e \in Disbursements, e \notin contended' PROVE OneBill(e)'
  BY DEF BillInv
<1>2. OneBill(e)
  BY DEF BillInv
<1>3. CASE e = d
  <2>1. disb[d] = "unbilled" /\ \A v \in Workers \ {w} : req[v].disb # d
    BY <1>2, <1>3 DEF OneBill
  <2>2. \A l \in Lines : source[l] # d
    BY <2>1, UnbilledHasNone
  <2>3. \A v \in Workers : req'[v].disb # d
    BY <1>1, <2>1, DraftingAssumption
  <2> QED BY <1>3, <2>2, <2>3 DEF OneBill
<1>4. CASE e # d
  BY <1>1, <1>2, <1>4, DraftingAssumption DEF OneBill
<1> QED BY <1>3, <1>4

LEMMA NextBill ==
    ASSUME DraftingInv, BillInv, [Next]_vars
    PROVE  BillInv'
<1>1. ASSUME NEW w \in Workers, Close(w)
      PROVE  \A v \in Workers : req'[v].disb \in {req[v].disb, NoDisbursement}
  BY <1>1 DEF Close, Idle, DraftingInv, TypeOK
<1>2. ASSUME NEW w \in Workers, Close(w), UNCHANGED <<disb, contended>>,
             \A l \in Lines : source'[l] \in {source[l], NoDisbursement}
      PROVE  BillInv'
  BY <1>1, <1>2, BillQuiet
<1>3. ASSUME NEW w \in Workers, Rollback(w) PROVE BillInv'
  <2>1. Close(w) /\ UNCHANGED <<disb, source, contended>>
    BY <1>3 DEF Rollback, tables, lineVars, disbVars, history
  <2> QED BY <1>2, <2>1
<1>4. ASSUME NEW w \in Workers, NEW r, req' = [req EXCEPT ![w] = r],
             r.disb \in {req[w].disb, NoDisbursement}, UNCHANGED <<disb, source, contended>>
      PROVE  BillInv'
  <2>1. \A v \in Workers : req'[v].disb \in {req[v].disb, NoDisbursement}
    BY <1>4 DEF DraftingInv, TypeOK
  <2> QED BY <1>4, <2>1, BillQuiet
<1>5. ASSUME NEW w \in Workers, NEW r, Load(w, r), r.disb = NoDisbursement PROVE BillInv'
  <2>1. req' = [req EXCEPT ![w] = r] /\ UNCHANGED <<disb, source, contended>>
    BY <1>5 DEF Load, tables, lineVars, disbVars
  <2> QED BY <1>4, <1>5, <2>1
<1>6. ASSUME NEW w \in Workers, NEW d \in Disbursements, NEW op, NEW a, DisbursementLoad(w, d, op, a)
      PROVE  BillInv'
  <2>1. /\ disb[d] = "unbilled" /\ UNCHANGED <<disb, source>>
        /\ req'[w].disb = d /\ \A v \in Workers \ {w} : req'[v] = req[v]
    BY <1>6 DEF DisbursementLoad, Billable, Idle, tables, lineVars, disbVars, DraftingInv, TypeOK
  <2> QED BY <1>6, <2>1, BillTaken DEF DisbursementLoad
<1>7. ASSUME NEW w \in Workers, Begin(w) PROVE BillInv'
  <2>1. ASSUME NEW i, NEW k, NEW t, CreateLoad(w, i, k, t) PROVE BillInv'
    BY <1>4, <2>1 DEF CreateLoad, Idle, tables, lineVars, disbVars, history
  <2>2. ASSUME NEW i, NEW t, PatchLoad(w, i, t) PROVE BillInv'
    <3>1. PICK op : Load(w, [Copy(i, op) EXCEPT !.tax = t])
      BY <2>2 DEF PatchLoad
    <3> QED BY <1>5, <3>1 DEF Copy, Idle
  <2>3. ASSUME NEW i, NEW l, NEW a, EditLoad(w, i, l, a) \/ PushLoad(w, i, l, a) PROVE BillInv'
    BY <1>5, <2>3 DEF EditLoad, PushLoad, Edited, Copy, Idle
  <2>4. ASSUME NEW i, AddLoad(w, i) \/ DeleteLoad(w, i) \/ IssueLoad(w, i) \/ VoidLoad(w, i)
        PROVE  BillInv'
    BY <1>5, <2>4 DEF AddLoad, DeleteLoad, IssueLoad, VoidLoad, Copy, Glance, Idle
  <2>5. ASSUME NEW i, NEW l, RemoveLoad(w, i, l) PROVE BillInv'
    BY <1>5, <2>5 DEF RemoveLoad, Copy, Idle
  <2> QED BY <1>6, <1>7, <2>1, <2>2, <2>3, <2>4, <2>5 DEF Begin
<1>8. ASSUME NEW w \in Workers, CreateFlush(w) \/ FlushLine(w) \/ RemoveFlush(w), ~Rollback(w)
      PROVE  BillInv'
  <2>1. PICK op, s : /\ req' = [req EXCEPT ![w].op = op, ![w].seen = s]
                     /\ UNCHANGED <<disb, source, contended>>
    <3>1. CASE CreateFlush(w)
      <4>1. /\ req' = [req EXCEPT ![w].op = "add"] /\ UNCHANGED <<disb, source, contended>>
        BY <1>8, <3>1 DEF CreateFlush, tables, lineVars, disbVars, history
      <4>2. req' = [req EXCEPT ![w].op = "add", ![w].seen = req[w].seen]
        BY <4>1 DEF DraftingInv, TypeOK, Requests
      <4> QED BY <4>1, <4>2
    <3>2. CASE FlushLine(w) \/ RemoveFlush(w)
      BY <1>8, <3>2 DEF FlushLine, RemoveFlush, tables, lineVars, disbVars, history
    <3> QED BY <1>8, <3>1, <3>2
  <2>2. \A v \in Workers : req'[v].disb = req[v].disb
    BY <2>1 DEF DraftingInv, TypeOK, Requests
  <2> QED BY <2>1, <2>2, BillQuiet
<1>9. ASSUME NEW w \in Workers, NEW l, NEW a, NEW d \in Disbursements \union {NoDisbursement},
             BuildLine(w, l, a, d)
      PROVE  BillInv'
  <2>1. /\ req'[w].disb = d /\ \A v \in Workers \ {w} : req'[v] = req[v]
        /\ UNCHANGED <<disb, source>>
    BY <1>9 DEF BuildLine, tables, lineVars, disbVars, DraftingInv, TypeOK, Requests
  <2>2. CASE d = NoDisbursement
    BY <1>9, <2>1, <2>2, BillQuiet DEF BuildLine
  <2>3. CASE d # NoDisbursement
    BY <1>9, <2>1, <2>3, BillTaken DEF BuildLine, Billable
  <2> QED BY <2>2, <2>3
<1>10. ASSUME NEW w \in Workers, AddCommit(w) PROVE BillInv'
  <2> PICK d \in Disbursements \union {NoDisbursement}, l \in Lines : d = req[w].disb /\ l = req[w].line
    BY <1>10, WriterHolds, RequestFields DEF AddCommit, DraftingInv, TypeOK, Phases
  <2>1. /\ Close(w) /\ contended' = contended
        /\ \A k \in Lines \ {l} : source'[k] = source[k]
        /\ source'[l] = d
    BY <1>10 DEF AddCommit, history, DraftingInv, TypeOK
  <2>2. CASE d = NoDisbursement
    BY <1>2, <1>10, <2>1, <2>2 DEF AddCommit, MarkInvoiced, disbVars
  <2>3. CASE d # NoDisbursement
    <3>1. \A e \in Disbursements \ {d} : disb'[e] = disb[e]
      BY <1>10, <2>3 DEF AddCommit, MarkInvoiced, DraftingInv, TypeOK
    <3> QED BY <2>1, <2>3, <3>1, BillWritten
  <2> QED BY <2>2, <2>3
<1>11. ASSUME NEW w \in Workers, DisbursementCommit(w), ~Rollback(w) PROVE BillInv'
  <2>1. Close(w) /\ UNCHANGED <<source, contended>>
    BY <1>11 DEF DisbursementCommit, lineVars, history
  <2>2. CASE UNCHANGED disb
    BY <1>2, <2>1, <2>2
  <2>3. CASE disb' = [disb EXCEPT ![req[w].disb] = "deleted"]
    <3> PICK d \in Disbursements : d = req[w].disb
      BY <1>11, RequestFields DEF DisbursementCommit, DraftingInv, TypeOK, AtHand
    <3>1. \A e \in Disbursements \ {d} : disb'[e] = disb[e]
      BY <2>3 DEF DraftingInv, TypeOK
    <3> QED BY <2>1, <3>1, BillWritten
  <2> QED BY <1>11, <2>2, <2>3 DEF DisbursementCommit
<1>12. ASSUME NEW w \in Workers, ~Rollback(w),
              \/ CreateCommit(w) \/ EditCommit(w) \/ PatchCommit(w) \/ MoveCommit(w)
              \/ PushCommit(w) \/ RemoveCommit(w) \/ DeleteCommit(w)
       PROVE  BillInv'
  <2>1. ASSUME NEW S, RemoveLines(S)
        PROVE  disb' = disb /\ \A l \in Lines : source'[l] \in {source[l], NoDisbursement}
    BY <2>1 DEF RemoveLines
  <2>2. CASE \/ CreateCommit(w) \/ EditCommit(w) \/ PatchCommit(w) \/ MoveCommit(w) \/ PushCommit(w)
    <3>1. Close(w) /\ UNCHANGED <<disb, source, contended>>
      BY <1>12, <2>2 DEF CreateCommit, EditCommit, PatchCommit, MoveCommit, PushCommit,
                         lineVars, disbVars, history
    <3> QED BY <1>2, <3>1
  <2>3. CASE RemoveCommit(w) \/ DeleteCommit(w)
    BY <1>2, <1>12, <2>1, <2>3 DEF RemoveCommit, DeleteCommit, history
  <2> QED BY <1>12, <2>2, <2>3
<1>13. ASSUME NEW w \in Workers, Continue(w) PROVE BillInv'
  BY <1>3, <1>8, <1>9, <1>10, <1>11, <1>12, <1>13 DEF Continue
<1>14. CASE UNCHANGED <<source, req, contended>> /\
            \A d \in Disbursements : disb[d] = "unbilled" => disb'[d] = "unbilled"
  BY <1>14, BillQuiet
<1>15. ASSUME NEW d \in Disbursements, NEW a, CreateDisbursement(d, a) PROVE BillInv'
  <2>1. /\ UNCHANGED <<source, req, contended>>
        /\ \A e \in Disbursements : disb[e] = "unbilled" => disb'[e] = "unbilled"
    BY <1>15 DEF CreateDisbursement, lineVars, history, DraftingInv, TypeOK
  <2> QED BY <1>14, <2>1
<1>16. CASE UNCHANGED vars
  BY <1>14, <1>16 DEF vars, tables, lineVars, disbVars, history
<1> QED BY <1>3, <1>7, <1>13, <1>15, <1>16 DEF Next, Abort

(***************************************************************************)
(* The theorems                                                            *)
(***************************************************************************)
\* Initially there are no lines, no totals and no sessions.
LEMMA AloneInit == Init => LinesStay /\ AloneInv /\ BillInv
<1> SUFFICES ASSUME Init PROVE LinesStay /\ AloneInv /\ BillInv
  OBVIOUS
<1>1. \A w \in Workers :
         req[w].op = "idle" /\ req[w].inv = NoInvoice /\ req[w].disb = NoDisbursement
  BY DEF Init, Idle
<1>2. LinesStay
  BY <1>1 DEF LinesStay
<1>3. AloneInv
  <2> SUFFICES ASSUME NEW i \in Invoices PROVE Alone(i)
    BY DEF AloneInv
  <2>1. \A w \in Workers : ~Holds(w, i)
    BY <1>1, DraftingAssumption DEF Holds
  <2>2. RowAgrees(i)
    BY DraftingAssumption DEF Init, RowAgrees, LinesOn, Exists
  <2> QED BY <2>1, <2>2 DEF Alone
<1>4. BillInv
  BY <1>1, DraftingAssumption DEF Init, BillInv, OneBill
<1> QED BY <1>2, <1>3, <1>4

\* An invoice that only one session at a time has held, and a disbursement that
\* only one has read, are what that session takes them for (the loads, guards
\* and commits of invoice_service.py, disbursement_service.py and apply_rows).
THEOREM DraftsAloneAreSafe == Spec => []Inv
<1>1. Init => Inv
  BY DraftingInit, AloneInit DEF Inv
<1>2. Inv /\ [Next]_vars => Inv'
  BY DraftingNext, NextLines, NextAlone, NextBill DEF Inv
<1> QED BY <1>1, <1>2, PTL DEF Spec

\* "Always server-derived from line items": the totals stored on an invoice that
\* is not raced are those of its lines (_recompute_totals).
THEOREM TotalsStayDerived == Spec => []TotalsAreDerived
<1>1. Inv => TotalsAreDerived
  BY DEF Inv, AloneInv, Alone, RowAgrees, TotalsAreDerived
<1> QED BY <1>1, DraftsAloneAreSafe, PTL

\* A disbursement that was not read while another session had it is on one line
\* at most (_build_line_item).
THEOREM NoDoubleBilling == Spec => []BilledOnce
<1>1. Inv => BilledOnce
  <2> SUFFICES ASSUME Inv, NEW d \in Disbursements \ contended
               PROVE  Cardinality({l \in Lines : source[l] = d}) <= 1
    BY DEF BilledOnce
  <2>1. OneBill(d)
    BY DEF Inv, BillInv
  <2>2. CASE {l \in Lines : source[l] = d} = {}
    BY <2>2, FS_EmptySet
  <2>3. ASSUME NEW k \in Lines, source[k] = d
        PROVE  Cardinality({l \in Lines : source[l] = d}) <= 1
    <3>1. {l \in Lines : source[l] = d} = {k}
      BY <2>1, <2>3 DEF OneBill
    <3>2. Cardinality({k}) = 1
      BY FS_Singleton
    <3> QED BY <3>1, <3>2
  <2> QED BY <2>2, <2>3
<1> QED BY <1>1, DraftsAloneAreSafe, PTL

\* What was raced or contended stays so, and a load writes no row.
LEMMA HistoryGrows ==
    ASSUME NEW w \in Workers
    PROVE  /\ Begin(w) => /\ UNCHANGED tables
                           /\ raced \subseteq raced' /\ contended \subseteq contended'
           /\ Continue(w) => raced' = raced /\ contended \subseteq contended'
<1>1. ASSUME Begin(w)
      PROVE  UNCHANGED tables /\ raced \subseteq raced' /\ contended \subseteq contended'
  <2>1. ASSUME NEW r, Load(w, r)
        PROVE  UNCHANGED tables /\ raced \subseteq raced' /\ contended \subseteq contended'
    BY <2>1 DEF Load
  <2>2. ASSUME NEW i, NEW k, NEW t, CreateLoad(w, i, k, t)
        PROVE  UNCHANGED tables /\ raced \subseteq raced' /\ contended \subseteq contended'
    BY <2>2 DEF CreateLoad, history
  <2>3. ASSUME NEW d, NEW op, NEW a, DisbursementLoad(w, d, op, a)
        PROVE  UNCHANGED tables /\ raced \subseteq raced' /\ contended \subseteq contended'
    BY <2>3 DEF DisbursementLoad
  <2> QED BY <1>1, <2>1, <2>2, <2>3 DEF Begin, AddLoad, EditLoad, PushLoad, RemoveLoad, PatchLoad,
                                        DeleteLoad, IssueLoad, VoidLoad
<1>2. ASSUME Continue(w) PROVE raced' = raced /\ contended \subseteq contended'
  BY <1>2 DEF Continue, CreateFlush, CreateCommit, BuildLine, FlushLine, AddCommit, EditCommit,
              RemoveFlush, RemoveCommit, PatchCommit, DeleteCommit, MoveCommit,
              DisbursementCommit, PushCommit, Rollback, history
<1> QED BY <1>1, <1>2

\* The holder of an invoice that is out and not raced pushes to it or voids it.
LEMMA OutIsKept ==
    ASSUME Inv, NEW w \in Workers, Continue(w), NEW i \in Invoices \ raced, state[i] = "out",
           ~Pushes(w, i)
    PROVE  state'[i] \in {"out", "void"} /\ totals'[i] = totals[i] /\ Stored(i)' = Stored(i)
<1> USE DEF Inv, DraftingInv
<1>1. CASE ~Holds(w, i)
  <2>1. RowSame(i)
    BY <1>1, OthersSame
  <2> QED BY <2>1, StoredSame DEF RowSame
<1>2. CASE Holds(w, i)
  <2>1. req[w].op \in {"push", "pushnew", "void"}
    BY <1>2 DEF AloneInv, Alone, StillSo
  <2>2. CASE req[w].op \in {"push", "pushnew"}
    <3>1. PushCommit(w)
      BY <2>2 DEF Continue, CreateFlush, CreateCommit, BuildLine, FlushLine, AddCommit, EditCommit,
                  RemoveFlush, RemoveCommit, PatchCommit, DeleteCommit, MoveCommit,
                  DisbursementCommit
    <3>2. req'[w] = Idle
      BY <3>1 DEF PushCommit, Rollback, Close, TypeOK
    <3> QED BY <1>2, <2>2, <3>2 DEF Pushes, Holds
  <2>3. CASE req[w].op = "void"
    <3>1. MoveCommit(w)
      BY <2>3 DEF Continue, CreateFlush, CreateCommit, BuildLine, FlushLine, AddCommit, EditCommit,
                  RemoveFlush, RemoveCommit, PatchCommit, DeleteCommit, PushCommit,
                  DisbursementCommit
    <3>2. state'[i] = "void" /\ UNCHANGED <<totals, on, amount>>
      BY <1>2, <2>3, <3>1 DEF MoveCommit, Holds, Exists, lineVars, TypeOK
    <3> QED BY <3>2 DEF Stored, LinesOn
  <2> QED BY <2>1, <2>2, <2>3
<1> QED BY <1>1, <1>2

\* Once it is issued, and unless a desktop pushes to it, an invoice that is not
\* raced keeps its lines, their amounts and its totals (the draft guard of every
\* handler that edits).
THEOREM IssuedStaysFrozen == Spec => IssuedIsFrozen
<1>1. ASSUME Inv, [Next]_vars, NEW i \in Invoices \ raced', state[i] = "out",
             \A w \in Workers : ~Pushes(w, i)
      PROVE  /\ state'[i] \in {"out", "void"}
             /\ totals'[i] = totals[i]
             /\ Stored(i)' = Stored(i)
  <2>1. CASE UNCHANGED <<state, totals, on, amount>>
    BY <1>1, <2>1 DEF Stored, LinesOn
  <2>2. ASSUME NEW w \in Workers, Begin(w) PROVE UNCHANGED <<state, totals, on, amount>>
    BY <2>2, HistoryGrows DEF tables, invoiceVars, lineVars
  <2>3. ASSUME NEW w \in Workers, Continue(w) PROVE i \in Invoices \ raced
    BY <1>1, <2>3, HistoryGrows
  <2>4. CASE \E w \in Workers : Continue(w)
    BY <1>1, <2>3, <2>4, OutIsKept
  <2>5. CASE \/ UNCHANGED vars
             \/ \E w \in Workers : Abort(w)
             \/ \E d \in Disbursements, a \in Amounts : CreateDisbursement(d, a)
    BY <2>1, <2>5 DEF vars, Abort, Rollback, CreateDisbursement, tables, invoiceVars, lineVars
  <2> QED BY <1>1, <2>1, <2>2, <2>4, <2>5 DEF Next
<1>2. Inv /\ [Next]_vars =>
        [\A i \in Invoices \ raced' :
           state[i] = "out" /\ (\A w \in Workers : ~Pushes(w, i)) =>
              /\ state'[i] \in {"out", "void"}
              /\ totals'[i] = totals[i]
              /\ Stored(i)' = Stored(i)]_vars
  BY <1>1
<1> QED BY <1>2, DraftsAloneAreSafe, PTL DEF Spec, IssuedIsFrozen

\* A disbursement that is invoiced and was not read while another session had it
\* is neither deleted nor changed (the guard of update_disbursement and of
\* delete_disbursement).
THEOREM InvoicedStaysFrozen == Spec => InvoicedIsFrozen
<1>1. ASSUME Inv, [Next]_vars, NEW d \in Disbursements \ contended', disb[d] = "invoiced"
      PROVE  disb'[d] = "invoiced" /\ cost'[d] = cost[d]
  <2> USE DEF Inv, DraftingInv
  <2>1. CASE UNCHANGED <<disb, cost>>
    BY <1>1, <2>1
  <2>2. ASSUME NEW w \in Workers, Begin(w) PROVE UNCHANGED <<disb, cost>>
    BY <2>2, HistoryGrows DEF tables, disbVars
  <2>3. ASSUME NEW w \in Workers, AddCommit(w) PROVE disb'[d] = "invoiced" /\ cost'[d] = cost[d]
    BY <1>1, <2>3 DEF AddCommit, MarkInvoiced, disbVars, TypeOK
  <2>4. ASSUME NEW w \in Workers, DisbursementCommit(w)
        PROVE  disb'[d] = "invoiced" /\ cost'[d] = cost[d]
    <3>1. d \notin contended
      BY <1>1, <2>4, HistoryGrows DEF Continue
    <3>2. req[w].disb # d
      BY <1>1, <3>1 DEF BillInv, OneBill
    <3> QED BY <1>1, <2>4, <3>2 DEF DisbursementCommit, Rollback, tables, disbVars, TypeOK
  <2>5. ASSUME NEW w \in Workers, Continue(w), ~AddCommit(w), ~DisbursementCommit(w)
        PROVE  UNCHANGED <<disb, cost>>
    BY <2>5 DEF Continue, CreateFlush, CreateCommit, BuildLine, FlushLine, EditCommit,
                RemoveFlush, RemoveCommit, RemoveLines, PatchCommit, DeleteCommit, MoveCommit,
                PushCommit, Rollback, tables, disbVars
  <2>6. CASE UNCHANGED vars \/ \E w \in Workers : Abort(w)
    BY <2>1, <2>6 DEF vars, Abort, Rollback, tables, disbVars
  <2>7. ASSUME NEW e \in Disbursements, NEW a, CreateDisbursement(e, a)
        PROVE  disb'[d] = "invoiced" /\ cost'[d] = cost[d]
    BY <1>1, <2>7 DEF CreateDisbursement, TypeOK
  <2> QED BY <1>1, <2>1, <2>2, <2>3, <2>4, <2>5, <2>6, <2>7 DEF Next
<1>2. Inv /\ [Next]_vars =>
        [\A d \in Disbursements \ contended' :
           disb[d] = "invoiced" => disb'[d] = "invoiced" /\ cost'[d] = cost[d]]_vars
  BY <1>1
<1> QED BY <1>2, DraftsAloneAreSafe, PTL DEF Spec, InvoicedIsFrozen
=============================================================================
