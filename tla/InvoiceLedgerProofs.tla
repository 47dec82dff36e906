------------------------- MODULE InvoiceLedgerProofs -------------------------
(***************************************************************************)
(* Theorems about InvoiceLedger, for any number of invoices, payments,     *)
(* requests and sweeps.  The first part is about every invoice; the second *)
(* about those that no two sessions have held at once, and shows that the  *)
(* ledger implements AtomicLedger as long as there are no others.          *)
(***************************************************************************)
EXTENDS InvoiceLedgerRefinement, FiniteSetTheorems, TLAPS

(***************************************************************************)
(* Type correctness                                                        *)
(***************************************************************************)

\* What is known of a request, by the phase it is in.
LEMMA RequestType ==
    ASSUME TypeOK, NEW w \in Workers
    PROVE  /\ req[w] = [op |-> req[w].op, inv |-> req[w].inv, ref |-> req[w].ref,
                        num |-> req[w].num, status |-> req[w].status,
                        credited |-> req[w].credited, net |-> req[w].net]
           /\ req[w].op \in Phases \union {"idle", "pay", "refused"}
           /\ req[w].num \in Numbers
           /\ req[w].status \in RowStates
           /\ req[w].credited \in Balances
           /\ req[w].net \in Nets \union {NoNet}
           /\ req[w].op # "idle" => req[w].inv \in Invoices
           /\ req[w].op \in Phases => req[w].ref = NoReference
           /\ req[w].op \in {"pay", "refused"} => req[w].ref \in References
<1>1. req[w] \in Requests
  BY DEF TypeOK
<1>2. CASE req[w] = Idle
  BY <1>2 DEF Idle, Phases, RowStates, Statuses, Numbers, NoNumber, Balances, NothingPaid
<1>3. CASE req[w] \in RequestsOf(Phases, {NoReference})
  BY <1>3 DEF RequestsOf, Phases
<1>4. CASE req[w] \in RequestsOf({"pay", "refused"}, References)
  BY <1>4 DEF RequestsOf, Phases
<1> QED BY <1>1, <1>2, <1>3, <1>4 DEF Requests

\* A closed request is an idle one and the lock stays a worker's or nobody's.
LEMMA CloseType ==
    ASSUME TypeOK, NEW w \in Workers, Close(w)
    PROVE  req' \in [Workers -> Requests] /\ orgLock' \in Workers \union {NoWorker}
BY DEF Close, TypeOK, Requests

\* A rollback keeps the types.
LEMMA RollbackType ==
    ASSUME TypeOK, NEW w \in Workers, Rollback(w)
    PROVE  TypeOK'
BY CloseType DEF Rollback, TypeOK, invoiceVars, clockVars

\* So does the load of a request.
LEMMA LoadType ==
    ASSUME TypeOK, NEW w \in Workers, NEW i \in Invoices, NEW op \in Phases, Load(w, i, op)
    PROVE  TypeOK'
<1>1. [Idle EXCEPT !.op = op, !.inv = i] \in RequestsOf(Phases, {NoReference})
  BY DEF Idle, RequestsOf, RowStates, Numbers, NoNumber, Balances, NothingPaid
<1> QED BY <1>1 DEF Requests, Load, TypeOK, invoiceVars, clockVars

\* The number counted under the lock is a number of the current year.
LEMMA NextNumberType ==
    ASSUME TypeOK
    PROVE  NextNumber \in Numbers /\ NextNumber # NoNumber
<1>1. IsFiniteSet(NumberedIn(year))
  BY LedgerAssumption, FS_Subset DEF NumberedIn
<1>2. Cardinality(NumberedIn(year)) \in Nat
  BY <1>1, FS_CardinalityType
<1>3. year \in Nat /\ year # 0
  BY LedgerAssumption DEF TypeOK
<1> QED BY <1>2, <1>3 DEF NextNumber, Numbers, NoNumber

\* The balance a payment writes is what it has read and one payment more.
LEMMA BalanceType ==
    ASSUME TypeOK, NEW w \in Workers, req[w].op = "pay"
    PROVE  Balance(w) \in Balances
<1>1. req[w].credited \in Balances /\ req[w].ref \in References
  BY RequestType
<1>2. \A c \in Balances, r \in References : [c EXCEPT ![r] = @ + 1] \in Balances
  BY DEF Balances
<1> QED BY <1>1, <1>2 DEF Balance

\* The empty database is well typed.
LEMMA InitType == Init => TypeOK
BY LedgerAssumption
   DEF Init, TypeOK, RowStates, Numbers, NoNumber, Requests, Balances, NothingPaid

\* No step of a request, a sweep or the clock leaves the types.
LEMMA NextType == TypeOK /\ [Next]_vars => TypeOK'
<1> SUFFICES ASSUME TypeOK, [Next]_vars PROVE TypeOK'
  OBVIOUS
<1>1. ASSUME NEW i \in Invoices, CreateInvoice(i) PROVE TypeOK'
  BY <1>1 DEF CreateInvoice, TypeOK, PutIn, RowStates, Statuses, Voidable, clockVars
<1>2. ASSUME NEW w \in Workers, Begin(w) PROVE TypeOK'
  <2> PICK i \in Invoices :
        \/ EditLoad(w, i) \/ DeleteLoad(w, i) \/ IssueLoad(w, i)
        \/ VoidLoad(w, i) \/ ServeLoad(w, i)
        \/ \E r \in References : PayLoad(w, i, r) \/ PayRefuse(w, i, r)
    BY <1>2 DEF Begin
  <2>1. ASSUME NEW op \in Phases, Load(w, i, op) PROVE TypeOK'
    BY <2>1, LoadType
  <2>2. ASSUME NEW r \in References, PayLoad(w, i, r) PROVE TypeOK'
    <3> DEFINE q == [op |-> "pay", inv |-> i, ref |-> r, num |-> NoNumber,
                     status |-> status[i], credited |-> credited[i], net |-> net[i]]
    <3>1. q \in RequestsOf({"pay", "refused"}, References)
      BY DEF TypeOK, RequestsOf, Numbers, NoNumber
    <3>2. req' = [req EXCEPT ![w] = q]
      BY <2>2 DEF PayLoad
    <3> QED BY <2>2, <3>1, <3>2 DEF Requests, PayLoad, TypeOK, invoiceVars, clockVars
  <2>3. ASSUME NEW r \in References, PayRefuse(w, i, r) PROVE TypeOK'
    <3>1. [Idle EXCEPT !.op = "refused", !.inv = i, !.ref = r]
            \in RequestsOf({"pay", "refused"}, References)
      BY DEF Idle, RequestsOf, RowStates, Numbers, NoNumber, Balances, NothingPaid
    <3> QED BY <2>3, <3>1 DEF Requests, PayRefuse, TypeOK, invoiceVars, clockVars
  <2> QED BY <2>1, <2>2, <2>3
          DEF EditLoad, DeleteLoad, IssueLoad, VoidLoad, ServeLoad, Phases
<1>3. ASSUME NEW w \in Workers, Continue(w) PROVE TypeOK'
  <2> DEFINE i == req[w].inv
  <2>1. req[w].op # "idle" => i \in Invoices
    BY RequestType
  <2>2. CASE EditCommit(w)
    BY <2>1, <2>2, CloseType, RollbackType DEF EditCommit, TypeOK, PutIn
  <2>3. CASE DeleteCommit(w)
    BY <2>1, <2>3, CloseType, LedgerAssumption 
       DEF DeleteCommit, TypeOK, RowStates, Numbers, NoNumber, Balances, NothingPaid
  <2>4. CASE IssueLock(w)
    <3>1. req[w].op = "issue" /\ req[w] \in RequestsOf(Phases, {NoReference})
      BY <2>4 DEF IssueLock, TypeOK, Requests, RequestsOf, Idle
    <3>2. [req[w] EXCEPT !.op = "locked"] \in Requests
      BY <3>1 DEF Requests, RequestsOf, Phases
    <3> QED BY <2>4, <3>2 DEF IssueLock, TypeOK, invoiceVars, clockVars
  <2>5. CASE IssueCount(w)
    <3>1. req[w].op = "locked" /\ req[w] \in RequestsOf(Phases, {NoReference})
      BY <2>5 DEF IssueCount, TypeOK, Requests, RequestsOf, Idle
    <3>2. [req[w] EXCEPT !.op = "counted", !.num = NextNumber] \in Requests
      BY <3>1, NextNumberType DEF Requests, RequestsOf, Phases
    <3>3. req' = [req EXCEPT ![w] = [req[w] EXCEPT !.op = "counted", !.num = NextNumber]]
      BY <2>5 DEF IssueCount, TypeOK
    <3> QED BY <2>5, <3>2, <3>3 DEF IssueCount, TypeOK, invoiceVars, clockVars
  <2>6. CASE IssueCommit(w)
    <3>1. req[w].num \in Numbers /\ "sent" \in RowStates
      BY RequestType DEF RowStates, Statuses, Voidable, Payable
    <3> QED BY <2>1, <2>6, <3>1, CloseType, RollbackType DEF IssueCommit, TypeOK, clockVars
  <2>7. CASE VoidCommit(w)
    BY <2>1, <2>7, CloseType, RollbackType DEF VoidCommit, TypeOK, RowStates, Statuses, clockVars
  <2>8. CASE ServeCommit(w)
    BY <2>1, <2>8, CloseType, RollbackType DEF ServeCommit, TypeOK, clockVars
  <2>9. CASE Refused(w)
    BY <2>9, RollbackType DEF Refused
  <2>10. CASE PayCommit(w)
    <3>1. NewStatus(w) \in RowStates
      BY DEF NewStatus, RowStates, Statuses, Voidable, Payable
    <3>2. Balance(w) \in Balances
      BY <2>10, BalanceType DEF PayCommit
    <3> QED BY <2>1, <2>10, <3>1, <3>2, CloseType DEF PayCommit, TypeOK, clockVars
  <2>11. CASE PayUnchanged(w)
    BY <2>11, RollbackType DEF PayUnchanged
  <2> QED BY <1>3, <2>2, <2>3, <2>4, <2>5, <2>6, <2>7, <2>8, <2>9, <2>10, <2>11 DEF Continue
<1>4. ASSUME NEW w \in Workers, Abort(w) PROVE TypeOK'
  BY <1>4, RollbackType DEF Abort
<1>5. ASSUME NEW s \in Sweepers, Sweep(s) PROVE TypeOK'
  BY <1>5 DEF Sweep, SweepLoad, SweepCommit, SweepAbort, TypeOK, RowStates, Statuses, Voidable,
              Payable, invoiceVars, clockVars
<1>6. CASE Clock
  BY <1>6, LedgerAssumption DEF Clock, NewYear, PassDue, TypeOK, invoiceVars
<1>7. CASE UNCHANGED vars
  BY <1>7 DEF TypeOK, vars, invoiceVars, clockVars
<1> QED BY <1>1, <1>2, <1>3, <1>4, <1>5, <1>6, <1>7 DEF Next

\* Every variable keeps its type in every reachable state.
THEOREM TypeCorrect == Spec => []TypeOK
BY InitType, NextType, PTL DEF Spec

(***************************************************************************)
(* The safety of the ledger under every interleaving.  LedgerInv adds to   *)
(* the invariants what a session in flight knows of the row it will write. *)
(***************************************************************************)
\* The empty database is safe.
LEMMA InitSafe == Init => LedgerInv
<1> SUFFICES ASSUME Init PROVE LedgerInv
  OBVIOUS
<1>1. TypeOK
  BY InitType
<1>2. Pending
  BY DEF Init, Pending, PendingPay, PendingIssue, PendingServe, PendingSweep, Idle
<1> QED BY <1>1, <1>2
        DEF Init, LedgerInv, NoDoubleCredit, AtMostOnce, NothingPaid, IssuedIsNumbered, NumbersAreUnique,
            ReceiptOnRecord, ServedHasLeftDraft, ServedExists, Issued

\* Ending a request takes a promise away and gives none.
LEMMA ClosePending ==
    ASSUME LedgerInv, NEW w \in Workers, Close(w), UNCHANGED <<invoiceVars, due>>
    PROVE  Pending'
<1>1. \A v \in Workers : req'[v] = req[v] \/ req'[v].op = "idle"
  BY DEF Close, LedgerInv, TypeOK, Idle
<1>2. PendingPay'
  BY <1>1 DEF PendingPay, LedgerInv, Pending, invoiceVars, AtMostOnce, Kept
<1>3. PendingIssue' /\ PendingServe' /\ PendingSweep'
  BY <1>1 DEF PendingIssue, PendingServe, PendingSweep, LedgerInv, Pending, invoiceVars, Kept
<1> QED BY <1>2, <1>3 DEF Pending

\* Steps that leave the tables alone keep everything but the promises.
LEMMA SameTables ==
    ASSUME LedgerInv, UNCHANGED invoiceVars, TypeOK', Pending'
    PROVE  LedgerInv'
BY DEF LedgerInv, invoiceVars, NoDoubleCredit, AtMostOnce, IssuedIsNumbered, NumbersAreUnique,
       ReceiptOnRecord, ServedHasLeftDraft, ServedExists, Recorded

\* A rollback keeps every invariant.
LEMMA RollbackSafe ==
    ASSUME LedgerInv, NEW w \in Workers, Rollback(w)
    PROVE  LedgerInv'
<1>1. Pending'
  BY ClosePending DEF Rollback
<1>2. TypeOK'
  BY RollbackType DEF LedgerInv
<1> QED BY <1>1, <1>2, SameTables DEF Rollback

\* A request that starts knows what the guard of its load has checked.
LEMMA LoadSafe ==
    ASSUME LedgerInv, NEW w \in Workers, NEW i \in Invoices, NEW op \in Phases \ {"counted"},
           Load(w, i, op), op = "serve" => status[i] # "draft"
    PROVE  LedgerInv'
<1>1. TypeOK'
  BY LoadType DEF LedgerInv
<1>2. req'[w].op = op /\ req'[w].inv = i /\ \A v \in Workers \ {w} : req'[v] = req[v]
  BY DEF Load, LedgerInv, TypeOK, Idle
<1>3. UNCHANGED <<invoiceVars, due>>
  BY DEF Load
<1>4. PendingPay'
  BY <1>2, <1>3 DEF PendingPay, LedgerInv, Pending, invoiceVars, AtMostOnce, Kept, Phases
<1>5. PendingServe'
  BY <1>2, <1>3 DEF PendingServe, LedgerInv, Pending, invoiceVars, Load, Exists, Statuses,
                    Voidable, Payable
<1>6. PendingIssue' /\ PendingSweep'
  BY <1>2, <1>3 DEF PendingIssue, PendingSweep, LedgerInv, Pending, invoiceVars, Kept
<1> QED BY <1>1, <1>3, <1>4, <1>5, <1>6, SameTables DEF Pending

\* So does each handler up to its last read.
LEMMA BeginSafe ==
    ASSUME LedgerInv, NEW w \in Workers, Begin(w), TypeOK'
    PROVE  LedgerInv'
<1> PICK i \in Invoices :
      \/ EditLoad(w, i) \/ DeleteLoad(w, i) \/ IssueLoad(w, i)
      \/ VoidLoad(w, i) \/ ServeLoad(w, i)
      \/ \E r \in References : PayLoad(w, i, r) \/ PayRefuse(w, i, r)
  BY DEF Begin
<1>1. CASE EditLoad(w, i) \/ DeleteLoad(w, i) \/ IssueLoad(w, i) \/ VoidLoad(w, i) \/ ServeLoad(w, i)
  BY <1>1, LoadSafe DEF EditLoad, DeleteLoad, IssueLoad, VoidLoad, ServeLoad, Phases
<1>2. ASSUME NEW r \in References, PayLoad(w, i, r) PROVE LedgerInv'
  <2>1. /\ req'[w].op = "pay" /\ req'[w].inv = i /\ req'[w].credited = credited[i]
        /\ \A v \in Workers \ {w} : req'[v] = req[v]
    BY <1>2 DEF PayLoad, LedgerInv, TypeOK
  <2>2. UNCHANGED <<invoiceVars, due>>
    BY <1>2 DEF PayLoad
  <2>3. number[i] # NoNumber /\ AtMostOnce(credited[i], i)
    BY <1>2 DEF PayLoad, LedgerInv, IssuedIsNumbered, NoDoubleCredit, Issued, Payable
  <2>4. PendingPay'
    BY <2>1, <2>2, <2>3 DEF PendingPay, LedgerInv, Pending, invoiceVars, AtMostOnce, Kept
  <2>5. PendingIssue' /\ PendingServe' /\ PendingSweep'
    BY <2>1, <2>2 DEF PendingIssue, PendingServe, PendingSweep, LedgerInv, Pending, invoiceVars, Kept
  <2> QED BY <2>2, <2>4, <2>5, SameTables DEF Pending
<1>3. ASSUME NEW r \in References, PayRefuse(w, i, r) PROVE LedgerInv'
  <2>1. req'[w].op = "refused" /\ \A v \in Workers \ {w} : req'[v] = req[v]
    BY <1>3 DEF PayRefuse, LedgerInv, TypeOK, Idle
  <2>2. UNCHANGED <<invoiceVars, due>>
    BY <1>3 DEF PayRefuse
  <2>3. PendingPay'
    BY <2>1, <2>2 DEF PendingPay, LedgerInv, Pending, invoiceVars, AtMostOnce, Kept
  <2>4. PendingIssue' /\ PendingServe' /\ PendingSweep'
    BY <2>1, <2>2 DEF PendingIssue, PendingServe, PendingSweep, LedgerInv, Pending, invoiceVars, Kept
  <2> QED BY <2>2, <2>3, <2>4, SameTables DEF Pending
<1> QED BY <1>1, <1>2, <1>3

\* A step that leaves the payments alone leaves every balance right that no
\* step writes, in the tables and in the hands of the requests in flight.
LEMMA BalancesStay ==
    ASSUME LedgerInv, UNCHANGED <<credited, payment>>,
           \A v \in Workers : req'[v] = req[v] \/ req'[v].op = "idle",
           \A j \in Invoices : /\ status'[j] # "deleted" => status[j] # "deleted"
                               /\ number[j] # NoNumber => number'[j] # NoNumber
    PROVE  NoDoubleCredit' /\ PendingPay'
<1>1. NoDoubleCredit'
  BY DEF LedgerInv, NoDoubleCredit, AtMostOnce
<1>2. PendingPay'
  <2> SUFFICES ASSUME NEW v \in Workers, req'[v].op = "pay", Kept(req[v].inv)'
               PROVE  AtMostOnce(req[v].credited, req[v].inv)' /\ number'[req'[v].inv] # NoNumber
    BY DEF PendingPay
  <2>1. /\ req'[v] = req[v] /\ req[v].op = "pay"
        /\ req[v].inv \in Invoices /\ req[v].credited \in Balances
    BY RequestType DEF LedgerInv
  <2>2. Kept(req[v].inv)
    BY <2>1 DEF Kept
  <2>3. AtMostOnce(req[v].credited, req[v].inv) /\ number[req[v].inv] # NoNumber
    BY <2>1, <2>2 DEF LedgerInv, Pending, PendingPay
  <2>4. number'[req[v].inv] # NoNumber
    BY <2>1, <2>3
  <2>5. \A r \in References :
          req[v].credited[r] \in Nat /\ req[v].credited[r] <= IF payment[r] = req[v].inv THEN 1 ELSE 0
    BY <2>1, <2>3 DEF AtMostOnce, Balances
  <2>6. payment' = payment
    OBVIOUS
  <2> QED BY <2>1, <2>4, <2>5, <2>6 DEF AtMostOnce
<1> QED BY <1>1, <1>2

\* The commit of a request writes its row and nothing of any other invoice;
\* the requests that stay in flight keep what they know.
LEMMA CommitSafe ==
    ASSUME LedgerInv, NEW w \in Workers, TypeOK',
           EditCommit(w) \/ DeleteCommit(w) \/ IssueCommit(w) \/ VoidCommit(w) \/ ServeCommit(w),
           ~Rollback(w)
    PROVE  LedgerInv'
<1> DEFINE i == req[w].inv
<1>1. /\ i \in Invoices
      /\ Close(w)
      /\ due' = due
  BY RequestType DEF LedgerInv, EditCommit, DeleteCommit, IssueCommit, VoidCommit, ServeCommit
<1>2. \A v \in Workers : req'[v] = req[v] \/ req'[v].op = "idle"
  BY <1>1 DEF Close, LedgerInv, TypeOK, Idle
<1>3. CASE EditCommit(w)
  <2>1. UNCHANGED <<status, number, credited, served, payment>>
    BY <1>3 DEF EditCommit
  <2>2. NoDoubleCredit' /\ PendingPay'
    BY <1>2, <2>1, BalancesStay
  <2> QED BY <1>1, <1>2, <2>1, <2>2
          DEF LedgerInv, IssuedIsNumbered, NumbersAreUnique, ReceiptOnRecord, ServedHasLeftDraft,
              ServedExists, Pending, PendingIssue, PendingServe, PendingSweep, Recorded, Kept
<1>4. CASE DeleteCommit(w)
  <2>1. /\ status' = [status EXCEPT ![i] = "deleted"]
        /\ number' = [number EXCEPT ![i] = NoNumber]
        /\ credited' = [credited EXCEPT ![i] = NothingPaid]
        /\ served' = served \ {i}
        /\ payment' = [r \in References |-> IF payment[r] = i THEN NoInvoice ELSE payment[r]]
    BY <1>4 DEF DeleteCommit
  <2>2. \A j \in Invoices \ {i} : /\ Recorded(j)' = Recorded(j) /\ credited'[j] = credited[j]
                                  /\ number'[j] = number[j] /\ status'[j] = status[j]
                                  /\ \A r \in References : payment'[r] = j <=> payment[r] = j
    BY <2>1, LedgerAssumption DEF LedgerInv, TypeOK, Recorded
  <2>3. /\ status'[i] = "deleted" /\ number'[i] = NoNumber /\ credited'[i] = NothingPaid
    BY <2>1, <1>1 DEF LedgerInv, TypeOK
  <2>4. NoDoubleCredit' /\ IssuedIsNumbered' /\ NumbersAreUnique' /\ ReceiptOnRecord'
    BY <2>2, <2>3 DEF LedgerInv, NoDoubleCredit, AtMostOnce, IssuedIsNumbered, NumbersAreUnique,
                      ReceiptOnRecord, Issued, Payable, NothingPaid
  <2>5. ServedHasLeftDraft' /\ ServedExists'
    BY <2>1, <2>2 DEF LedgerInv, TypeOK, ServedHasLeftDraft, ServedExists
  <2>6. PendingPay'
    <3> SUFFICES ASSUME NEW v \in Workers, req'[v].op = "pay", Kept(req[v].inv)'
                 PROVE  /\ AtMostOnce(req[v].credited, req[v].inv)'
                        /\ number'[req'[v].inv] # NoNumber
      BY DEF PendingPay
    <3>1. req'[v] = req[v] /\ req[v].inv \in Invoices \ {i}
      BY <1>2, <2>3, RequestType DEF LedgerInv, Kept
    <3>2. Kept(req[v].inv)
      BY <3>1, <2>2 DEF Kept
    <3> QED BY <3>1, <3>2, <2>2 DEF LedgerInv, Pending, PendingPay, AtMostOnce
  <2>7. PendingIssue'
    BY <1>2 DEF LedgerInv, Pending, PendingIssue
  <2>8. PendingServe'
    <3> SUFFICES ASSUME NEW v \in Workers, req'[v].op = "serve"
                 PROVE  status'[req'[v].inv] \notin {"absent", "draft"}
      BY DEF PendingServe
    <3>1. req'[v] = req[v] /\ req[v].inv \in Invoices
      BY <1>2, RequestType DEF LedgerInv
    <3> QED BY <3>1, <2>2, <2>3 DEF LedgerInv, Pending, PendingServe
  <2>9. PendingSweep'
    BY <1>1, <2>2, <2>3 DEF LedgerInv, TypeOK, Pending, PendingSweep, Kept
  <2> QED BY <2>4, <2>5, <2>6, <2>7, <2>8, <2>9 DEF LedgerInv, Pending
<1>5. CASE IssueCommit(w)
  <2>1. /\ number' = [number EXCEPT ![i] = req[w].num]
        /\ status' = [status EXCEPT ![i] = "sent"]
        /\ UNCHANGED <<credited, served, payment>>
        /\ ~NumberTaken(req[w].num, i)
        /\ req[w].num # NoNumber
    BY <1>5 DEF IssueCommit, LedgerInv, Pending, PendingIssue
  <2>2. \A j \in Invoices \ {i} : number'[j] = number[j] /\ status'[j] = status[j]
    BY <2>1 DEF LedgerInv, TypeOK
  <2>3. number'[i] = req[w].num /\ status'[i] = "sent"
    BY <2>1, <1>1 DEF LedgerInv, TypeOK
  <2>4. \A j \in Invoices : Recorded(j)' = Recorded(j)
    BY <2>1 DEF Recorded
  <2>5. NoDoubleCredit' /\ IssuedIsNumbered' /\ ReceiptOnRecord'
    BY <2>1, <2>2, <2>3, <2>4 DEF LedgerInv, NoDoubleCredit, AtMostOnce, IssuedIsNumbered, ReceiptOnRecord
  <2>6. NumbersAreUnique'
    BY <2>1, <2>2, <2>3 DEF LedgerInv, NumbersAreUnique, NumberTaken
  <2>7. ServedHasLeftDraft' /\ ServedExists'
    BY <2>1, <2>2, <2>3 DEF LedgerInv, TypeOK, ServedHasLeftDraft, ServedExists
  <2>8. \A j \in Invoices : /\ number[j] # NoNumber => number'[j] # NoNumber
                            /\ Kept(j)' => Kept(j) 
                            /\ status[j] \notin {"absent", "draft"} => status'[j] \notin {"absent", "draft"}
    BY <2>1, <2>2, <2>3, <1>5, <1>1 DEF Kept, Exists, Statuses, Voidable, Payable, IssueCommit
  <2>9. \A v \in Workers : req'[v].op \in {"pay", "serve"} => req'[v] = req[v] /\ req[v].inv \in Invoices
    BY <1>2, RequestType DEF LedgerInv
  <2>10. PendingPay' /\ PendingIssue' /\ PendingServe'
    <3>1. PendingPay'
      BY <1>2, <2>1, <2>8, BalancesStay DEF Kept
    <3>2. PendingIssue' /\ PendingServe'
      BY <1>2, <2>8, <2>9 DEF LedgerInv, Pending, PendingIssue, PendingServe
    <3> QED BY <3>1, <3>2
  <2>11. PendingSweep'
    BY <1>1, <2>8 DEF LedgerInv, TypeOK, Pending, PendingSweep
  <2> QED BY <2>5, <2>6, <2>7, <2>10, <2>11 DEF LedgerInv, Pending
<1>6. CASE VoidCommit(w)
  <2>1. /\ status' = [status EXCEPT ![i] = "void"]
        /\ UNCHANGED <<number, credited, served, payment>>
        /\ Kept(i)
    BY <1>6 DEF VoidCommit, Exists, Kept, Statuses, Voidable, Payable
  <2>2. \A j \in Invoices : /\ Recorded(j)' = Recorded(j)
                            /\ Kept(j)' => Kept(j)
                            /\ status'[j] = status[j] \/ status'[j] = "void"
    BY <1>1, <2>1 DEF LedgerInv, TypeOK, Recorded, Kept
  <2>3. NoDoubleCredit' /\ IssuedIsNumbered' /\ ReceiptOnRecord' /\ NumbersAreUnique'
    BY <2>1, <2>2 DEF LedgerInv, NoDoubleCredit, AtMostOnce, IssuedIsNumbered, ReceiptOnRecord,
                      NumbersAreUnique, Issued, Payable
  <2>4. ServedHasLeftDraft' /\ ServedExists'
    BY <2>1, <2>2 DEF LedgerInv, TypeOK, ServedHasLeftDraft, ServedExists
  <2>5. \A v \in Workers : req'[v].op \in {"pay", "serve"} => req'[v] = req[v] /\ req[v].inv \in Invoices
    BY <1>2, RequestType DEF LedgerInv
  <2>6. PendingPay' /\ PendingIssue' /\ PendingServe'
    BY <1>2, <2>1, <2>2, <2>5 DEF LedgerInv, Pending, PendingPay, PendingIssue, PendingServe, AtMostOnce
  <2>7. PendingSweep'
    BY <1>1, <2>1, <2>2 DEF LedgerInv, TypeOK, Pending, PendingSweep
  <2> QED BY <2>3, <2>4, <2>6, <2>7 DEF LedgerInv, Pending
<1>7. CASE ServeCommit(w)
  <2>1. /\ served' = served \union {i}
        /\ UNCHANGED <<status, number, credited, payment>>
        /\ status[i] \notin {"absent", "draft"}
    BY <1>7 DEF ServeCommit, LedgerInv, Pending, PendingServe
  <2>2. NoDoubleCredit' /\ PendingPay'
    BY <1>2, <2>1, BalancesStay
  <2> QED BY <1>1, <1>2, <2>1, <2>2
          DEF LedgerInv, IssuedIsNumbered, NumbersAreUnique, ReceiptOnRecord, ServedHasLeftDraft,
              ServedExists, Pending, PendingIssue, PendingServe, PendingSweep, Recorded, Kept
<1> QED BY <1>3, <1>4, <1>5, <1>6, <1>7

\* A payment adds its reference to what it has read, and what it has read is on
\* record: stale or not, the balance it writes counts recorded payments only.
LEMMA PaySafe ==
    ASSUME LedgerInv, NEW w \in Workers, TypeOK', PayCommit(w)
    PROVE  LedgerInv'
<1> DEFINE i == req[w].inv
           r == req[w].ref
<1>1. /\ i \in Invoices /\ r \in References
      /\ Close(w)
      /\ UNCHANGED <<number, served, due>>
      /\ payment[r] = NoInvoice
      /\ Kept(i)
      /\ payment' = [payment EXCEPT ![r] = i]
      /\ credited' = [credited EXCEPT ![i] = Balance(w)]
  BY RequestType DEF LedgerInv, PayCommit, Exists, Kept, Statuses, Voidable, Payable
<1>2. \A v \in Workers : req'[v] = req[v] \/ req'[v].op = "idle"
  BY <1>1 DEF Close, LedgerInv, TypeOK, Idle
<1>3. status' = status \/ \E new \in {"paid", "part_paid"} : status' = [status EXCEPT ![i] = new]
  BY DEF PayCommit, NewStatus
<1>4. \A j \in Invoices : Recorded(j) \subseteq Recorded(j)'
  BY <1>1, LedgerAssumption DEF LedgerInv, TypeOK, Recorded
<1>5. r \in {q \in References : payment'[q] = i}
  BY <1>1 DEF LedgerInv, TypeOK
<1>6. AtMostOnce(req[w].credited, i) /\ number[i] # NoNumber
  BY <1>1 DEF PayCommit, LedgerInv, Pending, PendingPay
<1>7. NoDoubleCredit'
  <2>1. req[w].credited \in Balances
    BY RequestType DEF LedgerInv
  <2>2. \A q \in References : Balance(w)[q] <= IF payment'[q] = i THEN 1 ELSE 0
    BY <1>1, <1>6, <2>1, LedgerAssumption DEF Balance, Balances, AtMostOnce, LedgerInv, TypeOK
  <2>3. \A j \in Invoices \ {i} : credited'[j] = credited[j]
    BY <1>1 DEF LedgerInv, TypeOK
  <2>4. credited'[i] = Balance(w)
    BY <1>1 DEF LedgerInv, TypeOK
  <2>5. \A j \in Invoices, q \in References : payment[q] = j => payment'[q] = j
    BY <1>1, LedgerAssumption DEF LedgerInv, TypeOK
  <2>6. \A j \in Invoices : credited[j] \in Balances
    BY DEF LedgerInv, TypeOK
  <2> QED BY <2>2, <2>3, <2>4, <2>5, <2>6 DEF LedgerInv, NoDoubleCredit, AtMostOnce, Balances
<1>8. \A j \in Invoices : /\ Kept(j)' <=> Kept(j)
                          /\ status'[j] = status[j] \/ (j = i /\ status'[j] \in {"paid", "part_paid"})
  BY <1>1, <1>3 DEF LedgerInv, TypeOK, Kept
<1>9. IssuedIsNumbered' /\ NumbersAreUnique'
  BY <1>1, <1>6, <1>8 DEF LedgerInv, IssuedIsNumbered, NumbersAreUnique
<1>10. ReceiptOnRecord'
  BY <1>1, <1>4, <1>5, <1>8 DEF LedgerInv, ReceiptOnRecord, Recorded
<1>11. ServedHasLeftDraft' /\ ServedExists'
  BY <1>1, <1>8 DEF LedgerInv, TypeOK, ServedHasLeftDraft, ServedExists
<1>12. \A v \in Workers : req'[v].op \in {"pay", "serve"} => req'[v] = req[v] /\ req[v].inv \in Invoices
  BY <1>2, RequestType DEF LedgerInv
<1>13. PendingPay' /\ PendingIssue' /\ PendingServe'
  <2>1. PendingPay'
    <3> SUFFICES ASSUME NEW v \in Workers, req'[v].op = "pay", Kept(req[v].inv)'
                 PROVE  AtMostOnce(req[v].credited, req[v].inv)' /\ number'[req'[v].inv] # NoNumber
      BY DEF PendingPay
    <3>1. req'[v] = req[v] /\ req[v].inv \in Invoices /\ req[v].credited \in Balances
      BY <1>12, RequestType DEF LedgerInv
    <3>2. AtMostOnce(req[v].credited, req[v].inv) /\ number[req[v].inv] # NoNumber
      BY <3>1, <1>8 DEF LedgerInv, Pending, PendingPay
    <3> QED BY <1>1, <3>1, <3>2, LedgerAssumption DEF AtMostOnce, Balances, LedgerInv, TypeOK
  <2>2. PendingIssue' /\ PendingServe'
    BY <1>2, <1>8, <1>12 DEF LedgerInv, Pending, PendingIssue, PendingServe
  <2> QED BY <2>1, <2>2
<1>14. PendingSweep'
  BY <1>1, <1>8 DEF LedgerInv, TypeOK, Pending, PendingSweep
<1> QED BY <1>7, <1>9, <1>10, <1>11, <1>13, <1>14 DEF LedgerInv, Pending

\* The daily sweep writes "overdue" over whatever the rows have become, and
\* only over rows that were out when it loaded them.
LEMMA SweepSafe ==
    ASSUME LedgerInv, NEW s \in Sweepers, TypeOK', Sweep(s)
    PROVE  LedgerInv'
<1>1. CASE SweepLoad(s)
  <2>1. /\ UNCHANGED <<invoiceVars, req>>
        /\ due' = [due EXCEPT ![s] = {i \in Invoices : Sweepable(i)}]
    BY <1>1 DEF SweepLoad
  <2>2. \A i \in Invoices : Sweepable(i) => number[i] # NoNumber
    BY DEF LedgerInv, Sweepable, IssuedIsNumbered, Issued
  <2>3. PendingSweep'
    BY <2>1, <2>2 DEF LedgerInv, TypeOK, Pending, PendingSweep, invoiceVars, Kept
  <2>4. PendingPay' /\ PendingIssue' /\ PendingServe'
    BY <2>1 DEF LedgerInv, Pending, PendingPay, PendingIssue, PendingServe, invoiceVars, AtMostOnce, Kept
  <2> QED BY <2>1, <2>3, <2>4, SameTables DEF Pending
<1>2. CASE SweepAbort(s)
  <2>1. UNCHANGED <<invoiceVars, req>> /\ due' = [due EXCEPT ![s] = {}]
    BY <1>2 DEF SweepAbort
  <2>2. PendingSweep'
    BY <2>1 DEF LedgerInv, TypeOK, Pending, PendingSweep, invoiceVars, Kept
  <2>3. PendingPay' /\ PendingIssue' /\ PendingServe'
    BY <2>1 DEF LedgerInv, Pending, PendingPay, PendingIssue, PendingServe, invoiceVars, AtMostOnce, Kept
  <2> QED BY <2>1, <2>2, <2>3, SameTables DEF Pending
<1>3. CASE SweepCommit(s)
  <2>1. /\ UNCHANGED <<number, credited, served, payment, req>>
        /\ due' = [due EXCEPT ![s] = {}]
    BY <1>3 DEF SweepCommit
  <2>2. \A j \in Invoices : /\ Recorded(j)' = Recorded(j)
                            /\ Kept(j)' <=> Kept(j)
                            /\ \/ status'[j] = status[j]
                               \/ status'[j] = "overdue" /\ number[j] # NoNumber /\ Exists(j)
    BY <1>3, <2>1 DEF SweepCommit, LedgerInv, TypeOK, Pending, PendingSweep, Recorded, Exists,
                      Kept, Statuses, Voidable, Payable
  <2>3. NoDoubleCredit' /\ IssuedIsNumbered' /\ ReceiptOnRecord' /\ NumbersAreUnique'
    BY <2>1, <2>2 DEF LedgerInv, NoDoubleCredit, AtMostOnce, IssuedIsNumbered, ReceiptOnRecord, NumbersAreUnique
  <2>4. ServedHasLeftDraft' /\ ServedExists'
    BY <2>1, <2>2 DEF LedgerInv, TypeOK, ServedHasLeftDraft, ServedExists
  <2>5. \A v \in Workers : req[v].op \in {"pay", "serve"} => req[v].inv \in Invoices
    BY RequestType DEF LedgerInv
  <2>6. PendingPay' /\ PendingIssue' /\ PendingServe'
    BY <2>1, <2>2, <2>5 DEF LedgerInv, Pending, PendingPay, PendingIssue, PendingServe, AtMostOnce
  <2>7. PendingSweep'
    BY <2>1, <2>2 DEF LedgerInv, TypeOK, Pending, PendingSweep
  <2> QED BY <2>3, <2>4, <2>6, <2>7 DEF LedgerInv, Pending
<1> QED BY <1>1, <1>2, <1>3 DEF Sweep

\* Each step of the system keeps every invariant.
LEMMA NextSafe == LedgerInv /\ [Next]_vars => LedgerInv'
<1> SUFFICES ASSUME LedgerInv, [Next]_vars PROVE LedgerInv'
  OBVIOUS
<1>1. TypeOK'
  BY NextType DEF LedgerInv
<1>2. ASSUME NEW i \in Invoices, CreateInvoice(i) PROVE LedgerInv'
  <2>1. /\ UNCHANGED <<number, credited, served, payment, req, due>>
        /\ status[i] = "absent"
        /\ status' = [status EXCEPT ![i] = "draft"]
    BY <1>2 DEF CreateInvoice
  <2>2. \A j \in Invoices : /\ Recorded(j)' = Recorded(j)
                            /\ j # i => status'[j] = status[j]
    BY <2>1 DEF LedgerInv, TypeOK, Recorded
  <2>3. status'[i] = "draft" /\ i \notin served
    BY <2>1 DEF LedgerInv, TypeOK, ServedExists
  <2>4. NoDoubleCredit' /\ IssuedIsNumbered' /\ ReceiptOnRecord' /\ NumbersAreUnique'
    BY <2>1, <2>2, <2>3 DEF LedgerInv, NoDoubleCredit, AtMostOnce, IssuedIsNumbered, ReceiptOnRecord,
                            NumbersAreUnique, Issued
  <2>5. ServedHasLeftDraft' /\ ServedExists'
    BY <2>1, <2>2, <2>3 DEF LedgerInv, TypeOK, ServedHasLeftDraft, ServedExists
  <2>6. \A j \in Invoices : Kept(j)' => Kept(j)
    BY <2>1, <2>2 DEF Kept
  <2>7. \A v \in Workers : req[v].op \in {"pay", "serve"} => req[v].inv \in Invoices
    BY RequestType DEF LedgerInv
  <2>8. PendingPay' /\ PendingIssue' /\ PendingServe'
    BY <2>1, <2>2, <2>6, <2>7 DEF LedgerInv, Pending, PendingPay, PendingIssue, PendingServe, AtMostOnce
  <2>9. PendingSweep'
    BY <2>1, <2>6 DEF LedgerInv, TypeOK, Pending, PendingSweep
  <2> QED BY <1>1, <2>4, <2>5, <2>8, <2>9 DEF LedgerInv, Pending
<1>3. ASSUME NEW w \in Workers, Begin(w) PROVE LedgerInv'
  BY <1>1, <1>3, BeginSafe
<1>4. ASSUME NEW w \in Workers, Continue(w) PROVE LedgerInv'
  <2>1. CASE Rollback(w)
    BY <2>1, RollbackSafe
  <2>2. CASE /\ EditCommit(w) \/ DeleteCommit(w) \/ IssueCommit(w) \/ VoidCommit(w) \/ ServeCommit(w)
             /\ ~Rollback(w)
    BY <1>1, <2>2, CommitSafe
  <2>3. CASE IssueLock(w) \/ IssueCount(w)
    <3>1. /\ UNCHANGED <<invoiceVars, due>>
          /\ \A v \in Workers \ {w} : req'[v] = req[v]
          /\ req'[w].op = "locked" \/ (req'[w].op = "counted" /\ req'[w].num = NextNumber)
      BY <2>3, RequestType DEF IssueLock, IssueCount, LedgerInv, TypeOK
    <3>2. PendingPay' /\ PendingServe' /\ PendingSweep'
      BY <3>1 DEF LedgerInv, Pending, PendingPay, PendingServe, PendingSweep, invoiceVars,
                  AtMostOnce, Kept
    <3>3. PendingIssue'
      BY <3>1, NextNumberType DEF LedgerInv, Pending, PendingIssue
    <3> QED BY <1>1, <3>1, <3>2, <3>3, SameTables DEF Pending
  <2>4. CASE PayCommit(w)
    BY <1>1, <2>4, PaySafe
  <2> QED BY <1>4, <2>1, <2>2, <2>3, <2>4 DEF Continue, Refused, PayUnchanged
<1>5. ASSUME NEW w \in Workers, Abort(w) PROVE LedgerInv'
  BY <1>5, RollbackSafe DEF Abort
<1>6. ASSUME NEW s \in Sweepers, Sweep(s) PROVE LedgerInv'
  BY <1>1, <1>6, SweepSafe
<1>7. CASE Clock \/ UNCHANGED vars
  <2>1. UNCHANGED <<invoiceVars, req, due>>
    BY <1>7 DEF Clock, NewYear, PassDue, vars
  <2>2. Pending'
    BY <2>1 DEF LedgerInv, Pending, PendingPay, PendingIssue, PendingServe, PendingSweep,
                invoiceVars, AtMostOnce, Kept
  <2> QED BY <1>1, <2>1, <2>2, SameTables
<1> QED BY <1>2, <1>3, <1>4, <1>5, <1>6, <1>7 DEF Next

\* Whatever the interleaving, all of LedgerInv holds: types, the five table
\* invariants and what the sessions in flight know (every handler and the sweep).
THEOREM LedgerIsSafe == Spec => []LedgerInv
BY InitSafe, NextSafe, PTL DEF Spec

\* However requests, sweeps, crashes and deletions interleave, the balance of
\* an invoice counts no payment twice and none that is not on record.
THEOREM NeverOverCredited == Spec => []NoDoubleCredit
<1>1. LedgerInv => NoDoubleCredit
  BY DEF LedgerInv
<1> QED BY <1>1, LedgerIsSafe, PTL

\* An invoice that is out has a number, and no other invoice has it.
THEOREM NumberedAndUnique == Spec => [](IssuedIsNumbered /\ NumbersAreUnique)
<1>1. LedgerInv => IssuedIsNumbered /\ NumbersAreUnique
  BY DEF LedgerInv
<1> QED BY <1>1, LedgerIsSafe, PTL

\* Paid and part-paid invoices have a payment on record.
THEOREM PaidHasReceipt == Spec => []ReceiptOnRecord
<1>1. LedgerInv => ReceiptOnRecord
  BY DEF LedgerInv
<1> QED BY <1>1, LedgerIsSafe, PTL

(***************************************************************************)
(* The strengthening.  An invoice that is not raced has one holder at a    *)
(* time, and that holder's copy of the row is the row.                     *)
(***************************************************************************)
Holds(w, i) == req[w].inv = i /\ req[w].op \notin {"idle", "refused"}

\* Two sessions hold invoice i in no pair of ways.
OneHolder(i) ==
    /\ \A v, w \in Workers : Holds(v, i) /\ Holds(w, i) => v = w
    /\ \A s, t \in Sweepers : i \in due[s] /\ i \in due[t] => s = t
    /\ \A w \in Workers, s \in Sweepers : ~(Holds(w, i) /\ i \in due[s])

\* What the handler of w has checked of invoice i is still so.
StillSo(w, i) ==
    /\ req[w].op \in {"edit", "delete", "issue", "locked", "counted"} => status[i] = "draft"
    /\ req[w].op = "delete" => i \notin lined
    /\ req[w].op \in {"issue", "locked", "counted"} => i \in lined
    /\ req[w].op = "void" => status[i] \in Voidable /\ credited[i] = NothingPaid
    /\ req[w].op = "pay" =>
          /\ status[i] \in Payable
          /\ req[w].status = status[i] /\ req[w].credited = credited[i] /\ req[w].net = net[i]

HoldersKnow(i) ==
    /\ \A w \in Workers : Holds(w, i) => StillSo(w, i)
    /\ \A s \in Sweepers : i \in due[s] => status[i] \in {"sent", "part_paid"}

\* What StatusFollowsPayments says of one invoice.
Follows(i) ==
    /\ status[i] = "paid" => Covers(net[i], credited[i])
    /\ status[i] = "part_paid" => credited[i] # NothingPaid /\ ~Covers(net[i], credited[i])
    /\ status[i] = "overdue" => (credited[i] # NothingPaid => ~Covers(net[i], credited[i]))
    /\ status[i] \notin {"paid", "part_paid", "overdue"} => credited[i] = NothingPaid

\* The row agrees with the payments table and with itself.
RowAgrees(i) ==
    /\ \A r \in References : payment[r] = i => credited[i][r] >= 1
    /\ Follows(i)
    /\ status[i] \in {"absent", "draft", "deleted"} => number[i] = NoNumber

AloneInv == \A i \in Invoices \ raced : OneHolder(i) /\ HoldersKnow(i) /\ RowAgrees(i)

\* The organisation lock is held from IssueLock to the end of the request.
LockHeld == \A w \in Workers : req[w].op \in {"locked", "counted"} => orgLock = w

\* While no invoice is raced the numbers of a year have no gap, and a number
\* that was counted is the next one of its year until it is committed.
NumbersInv ==
    raced = {} =>
        /\ \A y \in 1 .. MaxYear :
              {number[i].seq : i \in NumberedIn(y)} = 1 .. Cardinality(NumberedIn(y))
        /\ \A w \in Workers : req[w].op = "counted" =>
              /\ req[w].num.year \in 1 .. MaxYear
              /\ req[w].num.seq = Cardinality(NumberedIn(req[w].num.year)) + 1

Inv == LedgerInv /\ AloneInv /\ LockHeld /\ NumbersInv

(***************************************************************************)
(* Steps that do not load.                                                 *)
(***************************************************************************)
RowSame(j) ==
    /\ status'[j] = status[j] /\ number'[j] = number[j]
    /\ net'[j] = net[j] /\ credited'[j] = credited[j]
    /\ j \in lined' <=> j \in lined
    /\ \A r \in References : payment'[r] = j <=> payment[r] = j

\* A request goes on, ends, or is one that issues and has got further.
Moves(w) ==
    \/ req'[w] = req[w]
    \/ req'[w].op \in {"idle", "refused"}
    \/ /\ req'[w].inv = req[w].inv
       /\ req[w].op \in {"issue", "locked"} /\ req'[w].op \in {"locked", "counted"}

\* A row that nobody writes agrees with itself as before.
LEMMA RowKept ==
    ASSUME NEW j \in Invoices, RowSame(j), RowAgrees(j)
    PROVE  RowAgrees(j)'
BY DEF RowSame, RowAgrees, Follows

\* A step that lets nobody begin keeps AloneInv, if the rows it writes agree
\* with themselves and are let go by all.
LEMMA StepAlone ==
    ASSUME AloneInv, raced \subseteq raced', NEW R,
           \A w \in Workers : Moves(w),
           \A s \in Sweepers : due'[s] \subseteq due[s],
           \A j \in Invoices \ R : RowSame(j),
           \A j \in R \ raced' :
              /\ \A w \in Workers : ~Holds(w, j)'
              /\ \A s \in Sweepers : j \notin due'[s]
              /\ RowAgrees(j)'
    PROVE  AloneInv'
<1> SUFFICES ASSUME NEW j \in Invoices, j \notin raced'
             PROVE  OneHolder(j)' /\ HoldersKnow(j)' /\ RowAgrees(j)'
  BY DEF AloneInv
<1>1. OneHolder(j) /\ HoldersKnow(j) /\ RowAgrees(j)
  BY DEF AloneInv
<1>2. \A w \in Workers : Holds(w, j)' => Holds(w, j)
  BY DEF Moves, Holds
<1>3. OneHolder(j)'
  BY <1>1, <1>2 DEF OneHolder
<1>4. CASE j \in R
  BY <1>3, <1>4 DEF HoldersKnow
<1>5. CASE j \notin R
  <2>1. RowSame(j)
    BY <1>5
  <2>2. ASSUME NEW w \in Workers, Holds(w, j)' PROVE StillSo(w, j)'
    <3>1. StillSo(w, j) /\ Moves(w) /\ req'[w].op \notin {"idle", "refused"}
      BY <1>1, <1>2, <2>2 DEF HoldersKnow, Holds
    <3>2. CASE req'[w] = req[w]
      BY <2>1, <3>1, <3>2 DEF RowSame, StillSo
    <3>3. CASE req[w].op \in {"issue", "locked"} /\ req'[w].op \in {"locked", "counted"}
      BY <2>1, <3>1, <3>3 DEF RowSame, StillSo
    <3> QED BY <3>1, <3>2, <3>3 DEF Moves
  <2>3. \A s \in Sweepers : j \in due'[s] => status'[j] \in {"sent", "part_paid"}
    BY <1>1, <2>1 DEF HoldersKnow, RowSame
  <2> QED BY <1>1, <1>3, <2>1, <2>2, <2>3, RowKept DEF HoldersKnow
<1> QED BY <1>4, <1>5

\* The only holder of an invoice that is not raced lets it go.
LEMMA LetGo ==
    ASSUME LedgerInv, AloneInv, NEW w \in Workers, NEW i \in Invoices \ raced, Holds(w, i),
           Close(w), due' = due
    PROVE  /\ \A v \in Workers : ~Holds(v, i)'
           /\ \A s \in Sweepers : i \notin due'[s]
<1>1. \A v \in Workers : IF v = w THEN req'[v].op = "idle" ELSE req'[v] = req[v]
  BY DEF Close, LedgerInv, TypeOK, Idle
<1> QED BY <1>1 DEF AloneInv, OneHolder, Holds

(***************************************************************************)
(* Steps that load.                                                        *)
(***************************************************************************)
\* Who loads an invoice that nobody holds is its holder and knows the row.
LEMMA LoadAlone ==
    ASSUME LedgerInv, AloneInv, NEW w \in Workers, NEW i \in Invoices,
           UNCHANGED <<invoiceVars, due>>,
           req[w].op = "idle",
           \A v \in Workers \ {w} : req'[v] = req[v],
           req'[w].inv = i,
           raced' = (IF InFlight(i) THEN raced \union {i} ELSE raced),
           StillSo(w, i)'
    PROVE  AloneInv'
<1> SUFFICES ASSUME NEW j \in Invoices, j \notin raced'
             PROVE  OneHolder(j)' /\ HoldersKnow(j)' /\ RowAgrees(j)'
  BY DEF AloneInv
<1>1. OneHolder(j) /\ HoldersKnow(j) /\ RowAgrees(j)
  BY DEF AloneInv
<1>2. RowSame(j)
  BY DEF RowSame, invoiceVars
<1>3. RowAgrees(j)'
  BY <1>1, <1>2, RowKept
<1>4. \A v \in Workers \ {w} : /\ Holds(v, j)' <=> Holds(v, j)
                               /\ StillSo(v, j) => StillSo(v, j)'
  BY <1>2 DEF Holds, StillSo, RowSame
<1>5. \A s \in Sweepers : due'[s] = due[s]
  OBVIOUS
<1>6. CASE j # i
  <2>1. ~Holds(w, j)'
    BY <1>6 DEF Holds
  <2> QED BY <1>1, <1>2, <1>3, <1>4, <1>5, <2>1 DEF OneHolder, HoldersKnow, RowSame
<1>7. CASE j = i
  <2>1. /\ \A v \in Workers : ~Holds(v, j)
        /\ \A s \in Sweepers : j \notin due[s]
    BY <1>7 DEF InFlight, Holds
  <2> QED BY <1>3, <1>4, <1>5, <1>7, <2>1 DEF OneHolder, HoldersKnow
<1> QED BY <1>6, <1>7

\* A handler that begins knows what its guard has checked.
LEMMA BeginAlone ==
    ASSUME LedgerInv, AloneInv, NEW w \in Workers, Begin(w)
    PROVE  AloneInv'
<1> PICK i \in Invoices :
      \/ EditLoad(w, i) \/ DeleteLoad(w, i) \/ IssueLoad(w, i)
      \/ VoidLoad(w, i) \/ ServeLoad(w, i)
      \/ \E r \in References : PayLoad(w, i, r) \/ PayRefuse(w, i, r)
  BY DEF Begin
<1>1. ASSUME NEW op \in Phases, Load(w, i, op),
             op \in {"edit", "delete", "issue"} => status[i] = "draft",
             op = "delete" => i \notin lined, op = "issue" => i \in lined,
             op = "void" => status[i] \in Voidable /\ credited[i] = NothingPaid,
             op \notin {"locked", "counted"}
      PROVE  AloneInv'
  <2>1. req'[w].op = op /\ req'[w].inv = i /\ \A v \in Workers \ {w} : req'[v] = req[v]
    BY <1>1 DEF Load, LedgerInv, TypeOK, Idle
  <2>2. StillSo(w, i)'
    BY <1>1, <2>1 DEF StillSo, Load, invoiceVars, Phases
  <2> QED BY <1>1, <2>1, <2>2, LoadAlone DEF Load
<1>2. CASE \/ EditLoad(w, i) \/ DeleteLoad(w, i) \/ IssueLoad(w, i)
          \/ VoidLoad(w, i) \/ ServeLoad(w, i)
  BY <1>1, <1>2 DEF EditLoad, DeleteLoad, IssueLoad, VoidLoad, ServeLoad, Phases
<1>3. ASSUME NEW r \in References, PayLoad(w, i, r) PROVE AloneInv'
  <2>1. /\ req'[w].op = "pay" /\ req'[w].inv = i /\ req'[w].credited = credited[i]
        /\ req'[w].status = status[i] /\ req'[w].net = net[i]
        /\ \A v \in Workers \ {w} : req'[v] = req[v]
    BY <1>3 DEF PayLoad, LedgerInv, TypeOK
  <2>2. StillSo(w, i)'
    BY <1>3, <2>1 DEF StillSo, PayLoad, invoiceVars
  <2> QED BY <1>3, <2>1, <2>2, LoadAlone DEF PayLoad
<1>4. ASSUME NEW r \in References, PayRefuse(w, i, r) PROVE AloneInv'
  <2>1. \A v \in Workers : Moves(v)
    BY <1>4 DEF PayRefuse, Moves, LedgerInv, TypeOK, Idle
  <2>2. \A j \in Invoices \ {} : RowSame(j)
    BY <1>4 DEF PayRefuse, RowSame, invoiceVars
  <2> QED BY <1>4, <2>1, <2>2, StepAlone DEF PayRefuse
<1> QED BY <1>2, <1>3, <1>4

(***************************************************************************)
(* Commits.                                                                *)
(***************************************************************************)
\* A step that ends a request, or leaves it alone, and writes no row.
LEMMA NoRowWritten ==
    ASSUME LedgerInv, AloneInv, raced \subseteq raced', UNCHANGED invoiceVars,
           \A w \in Workers : Moves(w), \A s \in Sweepers : due'[s] \subseteq due[s]
    PROVE  AloneInv'
<1>1. \A j \in Invoices \ {} : RowSame(j)
  BY DEF RowSame, invoiceVars
<1> QED BY <1>1, StepAlone

\* A rollback writes nothing.
LEMMA RollbackAlone ==
    ASSUME LedgerInv, AloneInv, NEW w \in Workers, Rollback(w)
    PROVE  AloneInv'
<1>1. \A v \in Workers : Moves(v)
  BY DEF Rollback, Close, Moves, LedgerInv, TypeOK, Idle
<1> QED BY <1>1, NoRowWritten DEF Rollback

\* The commit of w writes the row of its invoice only; if that invoice is not
\* raced, its row must agree with itself afterwards.
LEMMA WriteAlone ==
    ASSUME LedgerInv, AloneInv, NEW w \in Workers, NEW i \in Invoices, Holds(w, i),
           Close(w), UNCHANGED <<due, raced>>,
           \A j \in Invoices \ {i} : RowSame(j),
           i \notin raced /\ RowAgrees(i) /\ StillSo(w, i) => RowAgrees(i)'
    PROVE  AloneInv'
<1>1. \A v \in Workers : Moves(v)
  BY DEF Close, Moves, LedgerInv, TypeOK, Idle
<1>2. ASSUME i \notin raced'
      PROVE  /\ \A v \in Workers : ~Holds(v, i)'
             /\ \A s \in Sweepers : i \notin due'[s]
             /\ RowAgrees(i)'
  <2>1. i \in Invoices \ raced
    BY <1>2
  <2>2. RowAgrees(i) /\ StillSo(w, i)
    BY <2>1 DEF AloneInv, HoldersKnow
  <2> QED BY <2>1, <2>2, LetGo
<1> DEFINE R == {i}
<1>3. \A j \in R \ raced' : /\ \A v \in Workers : ~Holds(v, j)'
                            /\ \A s \in Sweepers : j \notin due'[s]
                            /\ RowAgrees(j)'
  BY <1>2
<1>4. \A j \in Invoices \ R : RowSame(j)
  OBVIOUS
<1>5. raced \subseteq raced' /\ \A s \in Sweepers : due'[s] \subseteq due[s]
  OBVIOUS
<1> HIDE DEF R
<1> QED BY <1>1, <1>3, <1>4, <1>5, StepAlone

\* A row without balance has no payments, and none turns up by itself.
LEMMA UnpaidHasNone ==
    ASSUME NEW i \in Invoices, RowAgrees(i), credited[i] = NothingPaid
    PROVE  \A r \in References : payment[r] # i
BY DEF RowAgrees, NothingPaid

LEMMA EditAlone ==
    ASSUME LedgerInv, AloneInv, NEW w \in Workers, EditCommit(w)
    PROVE  AloneInv'
<1> PICK i \in Invoices : i = req[w].inv
  BY RequestType DEF LedgerInv, EditCommit
<1>1. i = req[w].inv /\ Holds(w, i)
  BY DEF EditCommit, Holds
<1>2. CASE Rollback(w)
  BY <1>2, RollbackAlone
<1>3. CASE ~Rollback(w)
  <2>1. /\ Close(w) /\ UNCHANGED <<status, number, credited, payment, due, raced>>
        /\ \E n \in Nets : net' = [net EXCEPT ![i] = n]
        /\ lined' = lined \union {i} \/ lined' = lined \ {i}
    BY <1>1, <1>3 DEF EditCommit, PutIn
  <2>2. \A j \in Invoices \ {i} : RowSame(j)
    BY <1>1, <2>1 DEF RowSame, LedgerInv, TypeOK
  <2>3. RowAgrees(i) /\ StillSo(w, i) => RowAgrees(i)'
    BY <1>1, <2>1 DEF RowAgrees, StillSo, Follows, EditCommit
  <2> QED BY <1>1, <2>1, <2>2, <2>3, WriteAlone
<1> QED BY <1>2, <1>3

LEMMA DeleteAlone ==
    ASSUME LedgerInv, AloneInv, NEW w \in Workers, DeleteCommit(w)
    PROVE  AloneInv'
<1> PICK i \in Invoices : i = req[w].inv
  BY RequestType DEF LedgerInv, DeleteCommit
<1>1. i = req[w].inv /\ Holds(w, i)
  BY DEF DeleteCommit, Holds
<1>2. /\ Close(w) /\ UNCHANGED <<due, raced>>
      /\ status' = [status EXCEPT ![i] = "deleted"]
      /\ number' = [number EXCEPT ![i] = NoNumber]
      /\ net' = [net EXCEPT ![i] = NoNet]
      /\ credited' = [credited EXCEPT ![i] = NothingPaid]
      /\ lined' = lined \ {i}
      /\ payment' = [r \in References |-> IF payment[r] = i THEN NoInvoice ELSE payment[r]]
  BY <1>1 DEF DeleteCommit
<1>3. \A j \in Invoices \ {i} : RowSame(j)
  BY <1>1, <1>2, LedgerAssumption DEF RowSame, LedgerInv, TypeOK
<1>4. RowAgrees(i)'
  BY <1>1, <1>2, LedgerAssumption DEF RowAgrees, Follows, LedgerInv, TypeOK
<1> QED BY <1>1, <1>2, <1>3, <1>4, WriteAlone

LEMMA IssueAlone ==
    ASSUME LedgerInv, AloneInv, NEW w \in Workers, IssueCommit(w)
    PROVE  AloneInv'
<1> PICK i \in Invoices : i = req[w].inv
  BY RequestType DEF LedgerInv, IssueCommit
<1>1. i = req[w].inv /\ Holds(w, i)
  BY DEF IssueCommit, Holds
<1>2. CASE Rollback(w)
  BY <1>2, RollbackAlone
<1>3. CASE ~Rollback(w)
  <2>1. /\ Close(w) /\ UNCHANGED <<net, lined, credited, payment, due, raced>>
        /\ status' = [status EXCEPT ![i] = "sent"]
        /\ number' = [number EXCEPT ![i] = req[w].num]
    BY <1>1, <1>3 DEF IssueCommit
  <2>2. \A j \in Invoices \ {i} : RowSame(j)
    BY <1>1, <2>1 DEF RowSame, LedgerInv, TypeOK
  <2>3. RowAgrees(i) /\ StillSo(w, i) => RowAgrees(i)'
    BY <1>1, <2>1 DEF RowAgrees, StillSo, Follows, IssueCommit, LedgerInv, TypeOK
  <2> QED BY <1>1, <2>1, <2>2, <2>3, WriteAlone
<1> QED BY <1>2, <1>3

LEMMA VoidAlone ==
    ASSUME LedgerInv, AloneInv, NEW w \in Workers, VoidCommit(w)
    PROVE  AloneInv'
<1> PICK i \in Invoices : i = req[w].inv
  BY RequestType DEF LedgerInv, VoidCommit
<1>1. i = req[w].inv /\ Holds(w, i)
  BY DEF VoidCommit, Holds
<1>2. CASE Rollback(w)
  BY <1>2, RollbackAlone
<1>3. CASE ~Rollback(w)
  <2>1. /\ Close(w) /\ UNCHANGED <<number, net, lined, credited, payment, due, raced>>
        /\ status' = [status EXCEPT ![i] = "void"]
    BY <1>1, <1>3 DEF VoidCommit
  <2>2. \A j \in Invoices \ {i} : RowSame(j)
    BY <1>1, <2>1 DEF RowSame, LedgerInv, TypeOK
  <2>3. RowAgrees(i) /\ StillSo(w, i) => RowAgrees(i)'
    BY <1>1, <2>1 DEF RowAgrees, StillSo, Follows, VoidCommit, LedgerInv, TypeOK
  <2> QED BY <1>1, <2>1, <2>2, <2>3, WriteAlone
<1> QED BY <1>2, <1>3

LEMMA ServeAlone ==
    ASSUME LedgerInv, AloneInv, NEW w \in Workers, ServeCommit(w)
    PROVE  AloneInv'
<1> PICK i \in Invoices : i = req[w].inv
  BY RequestType DEF LedgerInv, ServeCommit
<1>1. i = req[w].inv /\ Holds(w, i)
  BY DEF ServeCommit, Holds
<1>2. CASE Rollback(w)
  BY <1>2, RollbackAlone
<1>3. CASE ~Rollback(w)
  <2>1. /\ Close(w) /\ UNCHANGED <<status, number, net, lined, credited, payment, due, raced>>
    BY <1>1, <1>3 DEF ServeCommit
  <2>2. \A j \in Invoices : RowSame(j)
    BY <2>1 DEF RowSame
  <2>3. RowAgrees(i) /\ StillSo(w, i) => RowAgrees(i)'
    BY <1>1, <2>2, RowKept
  <2> QED BY <1>1, <2>1, <2>2, <2>3, WriteAlone
<1> QED BY <1>2, <1>3

\* The balance that was read is the balance: a payment that is alone adds one
\* to it, and judges the status by what is then on record.
LEMMA PayAlone ==
    ASSUME LedgerInv, AloneInv, NEW w \in Workers, PayCommit(w)
    PROVE  AloneInv'
<1> PICK i \in Invoices, r \in References : i = req[w].inv /\ r = req[w].ref
  BY RequestType DEF LedgerInv, PayCommit
<1>1. i = req[w].inv /\ r = req[w].ref /\ Holds(w, i)
  BY DEF PayCommit, Holds
<1>2. /\ Close(w) /\ UNCHANGED <<number, net, lined, due, raced>>
      /\ payment[r] = NoInvoice
      /\ payment' = [payment EXCEPT ![r] = i]
      /\ credited' = [credited EXCEPT ![i] = Balance(w)]
      /\ status' = IF NewStatus(w) = req[w].status THEN status
                   ELSE [status EXCEPT ![i] = NewStatus(w)]
  BY <1>1 DEF PayCommit
<1>3. \A j \in Invoices \ {i} : RowSame(j)
  BY <1>1, <1>2, LedgerAssumption DEF RowSame, LedgerInv, TypeOK
<1>4. ASSUME RowAgrees(i), StillSo(w, i) PROVE RowAgrees(i)'
  <2>1. /\ req[w].status = status[i] /\ req[w].credited = credited[i] /\ req[w].net = net[i]
        /\ status[i] \in Payable
    BY <1>4 DEF StillSo, PayCommit
  <2>2. status'[i] = NewStatus(w) /\ credited'[i] = Balance(w) /\ net'[i] = req[w].net
    BY <1>1, <1>2, <2>1 DEF LedgerInv, TypeOK
  <2>3. credited[i] \in Balances
    BY <1>1 DEF LedgerInv, TypeOK
  <2>4. Balance(w) = [credited[i] EXCEPT ![r] = @ + 1]
    BY <2>1 DEF Balance
  <2>5. /\ \A q \in References : Balance(w)[q] >= credited[i][q]
        /\ Balance(w)[r] >= 1
    BY <1>1, <2>3, <2>4 DEF Balances
  <2>6. Balance(w) # NothingPaid
    BY <1>1, <2>5 DEF NothingPaid
  <2>7. \A q \in References : payment'[q] = i => q = r \/ payment[q] = i
    BY <1>1, <1>2 DEF LedgerInv, TypeOK
  <2>8. \A q \in References : payment'[q] = i => credited'[i][q] >= 1
    <3> SUFFICES ASSUME NEW q \in References, payment'[q] = i PROVE Balance(w)[q] >= 1
      BY <2>2
    <3>1. CASE q = r
      BY <2>5, <3>1
    <3>2. CASE payment[q] = i
      BY <1>1, <1>4, <2>3, <2>4, <3>2 DEF RowAgrees, Balances
    <3> QED BY <2>7, <3>1, <3>2
  <2>9. Follows(i)'
    BY <2>2, <2>6 DEF Follows, NewStatus
  <2>10. status'[i] \in {"paid", "part_paid"}
    BY <2>2 DEF NewStatus
  <2> QED BY <2>8, <2>9, <2>10 DEF RowAgrees
<1> QED BY <1>1, <1>2, <1>3, <1>4, WriteAlone

\* Nobody holds an invoice that is not there.
LEMMA CreateAlone ==
    ASSUME LedgerInv, AloneInv, NEW i \in Invoices, CreateInvoice(i)
    PROVE  AloneInv'
<1> DEFINE R == {i}
<1>1. /\ status[i] = "absent" /\ status' = [status EXCEPT ![i] = "draft"]
      /\ \E n \in Nets : net' = [net EXCEPT ![i] = n]
      /\ lined' = lined \union {i} \/ lined' = lined \ {i}
      /\ UNCHANGED <<number, credited, payment, req, due, raced>>
  BY DEF CreateInvoice, PutIn
<1>2. \A j \in Invoices \ R : RowSame(j)
  BY <1>1 DEF RowSame, LedgerInv, TypeOK
<1>3. ASSUME i \notin raced
      PROVE  /\ \A w \in Workers : ~Holds(w, i)
             /\ \A s \in Sweepers : i \notin due[s]
             /\ RowAgrees(i)'
  <2>1. HoldersKnow(i) /\ RowAgrees(i)
    BY <1>3 DEF AloneInv
  <2>2. ASSUME NEW w \in Workers, Holds(w, i) PROVE FALSE
    <3>1. req[w].op \in Phases \union {"pay"}
      BY <2>2, RequestType DEF LedgerInv, Holds
    <3>2. req[w].op # "serve"
      BY <1>1, <2>2 DEF LedgerInv, Pending, PendingServe, Holds
    <3> QED BY <1>1, <2>1, <2>2, <3>1, <3>2 DEF HoldersKnow, StillSo, Phases, Voidable, Payable
  <2>3. \A s \in Sweepers : i \notin due[s]
    BY <1>1, <2>1 DEF HoldersKnow
  <2>4. RowAgrees(i)'
    BY <1>1, <2>1 DEF RowAgrees, Follows, LedgerInv, TypeOK
  <2> QED BY <2>2, <2>3, <2>4
<1>4. \A j \in R \ raced' : /\ \A v \in Workers : ~Holds(v, j)'
                            /\ \A s \in Sweepers : j \notin due'[s]
                            /\ RowAgrees(j)'
  BY <1>1, <1>3 DEF Holds
<1>5. \A w \in Workers : Moves(w)
  BY <1>1 DEF Moves
<1>6. raced \subseteq raced' /\ \A s \in Sweepers : due'[s] \subseteq due[s]
  BY <1>1
<1> HIDE DEF R
<1> QED BY <1>2, <1>4, <1>5, <1>6, StepAlone

(***************************************************************************)
(* The sweep.                                                              *)
(***************************************************************************)
\* A sweep that loads an invoice nobody holds finds it sent or part-paid.
LEMMA SweepLoadAlone ==
    ASSUME LedgerInv, AloneInv, NEW s \in Sweepers, SweepLoad(s)
    PROVE  AloneInv'
<1> DEFINE rows == {i \in Invoices : Sweepable(i)}
<1>1. /\ UNCHANGED <<invoiceVars, req>>
      /\ raced' = raced \union {i \in rows : InFlight(i)}
      /\ \A t \in Sweepers : due'[t] = IF t = s THEN rows ELSE due[t]
      /\ due[s] = {}
  BY DEF SweepLoad, LedgerInv, TypeOK
<1> SUFFICES ASSUME NEW j \in Invoices, j \notin raced'
             PROVE  OneHolder(j)' /\ HoldersKnow(j)' /\ RowAgrees(j)'
  BY DEF AloneInv
<1>2. OneHolder(j) /\ HoldersKnow(j) /\ RowAgrees(j)
  BY <1>1 DEF AloneInv
<1>3. RowSame(j)
  BY <1>1 DEF RowSame, invoiceVars
<1>4. \A w \in Workers : /\ Holds(w, j)' <=> Holds(w, j)
                         /\ StillSo(w, j) => StillSo(w, j)'
  BY <1>1, <1>3 DEF Holds, StillSo, RowSame
<1>5. CASE j \in rows
  <2>1. /\ \A w \in Workers : ~Holds(w, j)
        /\ \A t \in Sweepers : j \notin due[t]
    BY <1>1, <1>5 DEF InFlight, Holds
  <2>2. status'[j] \in {"sent", "part_paid"}
    BY <1>3, <1>5 DEF Sweepable, RowSame
  <2> QED BY <1>1, <1>2, <1>3, <1>4, <2>1, <2>2, RowKept DEF OneHolder, HoldersKnow
<1>6. CASE j \notin rows
  <2>1. \A t \in Sweepers : j \in due'[t] <=> j \in due[t]
    BY <1>1, <1>6
  <2> QED BY <1>2, <1>3, <1>4, <2>1, RowKept DEF OneHolder, HoldersKnow, RowSame
<1> QED BY <1>5, <1>6

\* Its commit makes them overdue and lets them go.
LEMMA SweepCommitAlone ==
    ASSUME LedgerInv, AloneInv, NEW s \in Sweepers, SweepCommit(s)
    PROVE  AloneInv'
<1>1. /\ UNCHANGED <<number, lined, net, credited, payment, req, raced>>
      /\ \A t \in Sweepers : due'[t] = IF t = s THEN {} ELSE due[t]
  BY DEF SweepCommit, LedgerInv, TypeOK
<1>2. \A w \in Workers : Moves(w)
  BY <1>1 DEF Moves
<1>3. raced \subseteq raced' /\ \A t \in Sweepers : due'[t] \subseteq due[t]
  BY <1>1
<1>4. CASE ~(\A i \in due[s] : Exists(i))
  <2>1. \A j \in Invoices \ {} : RowSame(j)
    BY <1>1, <1>4 DEF SweepCommit, RowSame
  <2> QED BY <1>2, <1>3, <2>1, StepAlone
<1>5. CASE \A i \in due[s] : Exists(i)
  <2> PICK R : R = due[s]
    OBVIOUS
  <2>1. \A j \in Invoices : status'[j] = IF j \in R THEN "overdue" ELSE status[j]
    BY <1>5 DEF SweepCommit
  <2>2. \A j \in Invoices \ R : RowSame(j)
    BY <1>1, <2>1 DEF RowSame
  <2>3. ASSUME NEW j \in R \ raced'
        PROVE  /\ \A w \in Workers : ~Holds(w, j)'
               /\ \A t \in Sweepers : j \notin due'[t]
               /\ RowAgrees(j)'
    <3>1. j \in Invoices \ raced /\ j \in due[s]
      BY <1>1, <2>3 DEF LedgerInv, TypeOK
    <3>2. OneHolder(j) /\ HoldersKnow(j) /\ RowAgrees(j)
      BY <3>1 DEF AloneInv
    <3>3. /\ \A w \in Workers : ~Holds(w, j)'
          /\ \A t \in Sweepers : j \notin due'[t]
      BY <1>1, <3>1, <3>2 DEF OneHolder, Holds
    <3>4. status[j] \in {"sent", "part_paid"} /\ status'[j] = "overdue"
      BY <2>1, <3>1, <3>2 DEF HoldersKnow
    <3>5. RowAgrees(j)'
      BY <1>1, <3>2, <3>4 DEF RowAgrees, Follows
    <3> QED BY <3>3, <3>5
  <2> QED BY <1>2, <1>3, <2>2, <2>3, StepAlone
<1> QED BY <1>4, <1>5

\* Every step keeps what is known of the invoices that are not raced.
LEMMA NextAlone ==
    ASSUME LedgerInv, AloneInv, [Next]_vars
    PROVE  AloneInv'
<1>1. ASSUME NEW i \in Invoices, CreateInvoice(i) PROVE AloneInv'
  BY <1>1, CreateAlone
<1>2. ASSUME NEW w \in Workers, Begin(w) PROVE AloneInv'
  BY <1>2, BeginAlone
<1>3. ASSUME NEW w \in Workers, Continue(w) PROVE AloneInv'
  <2>1. CASE IssueLock(w) \/ IssueCount(w)
    <3>1. \A v \in Workers : Moves(v)
      BY <2>1, RequestType DEF IssueLock, IssueCount, Moves, LedgerInv, TypeOK
    <3> QED BY <2>1, <3>1, NoRowWritten DEF IssueLock, IssueCount
  <2> QED BY <1>3, <2>1, EditAlone, DeleteAlone, IssueAlone, VoidAlone, ServeAlone, PayAlone,
             RollbackAlone DEF Continue, Refused, PayUnchanged
<1>4. ASSUME NEW w \in Workers, Abort(w) PROVE AloneInv'
  BY <1>4, RollbackAlone DEF Abort
<1>5. ASSUME NEW s \in Sweepers, Sweep(s) PROVE AloneInv'
  <2>1. CASE SweepAbort(s)
    <3>1. \A t \in Sweepers : due'[t] \subseteq due[t]
      BY <2>1 DEF SweepAbort, LedgerInv, TypeOK
    <3> QED BY <2>1, <3>1, NoRowWritten DEF SweepAbort, Moves
  <2> QED BY <1>5, <2>1, SweepLoadAlone, SweepCommitAlone DEF Sweep
<1>6. CASE Clock \/ UNCHANGED vars
  BY <1>6, NoRowWritten DEF Clock, NewYear, PassDue, vars, Moves
<1> QED BY <1>1, <1>2, <1>3, <1>4, <1>5, <1>6 DEF Next

\* Nobody holds anything in the empty database.
LEMMA InitAlone == Init => AloneInv
BY LedgerAssumption
   DEF Init, AloneInv, OneHolder, HoldersKnow, Holds, RowAgrees, Follows, Idle, NothingPaid

(***************************************************************************)
(* Numbers.                                                                *)
(***************************************************************************)
\* A handler that begins writes nothing and counts nothing.
LEMMA BeginWritesNothing ==
    ASSUME LedgerInv, NEW w \in Workers, Begin(w)
    PROVE  /\ UNCHANGED <<invoiceVars, due, orgLock>>
           /\ raced \subseteq raced'
           /\ req'[w].op \notin {"locked", "counted"}
           /\ \A v \in Workers \ {w} : req'[v] = req[v]
<1> PICK i \in Invoices :
      \/ EditLoad(w, i) \/ DeleteLoad(w, i) \/ IssueLoad(w, i)
      \/ VoidLoad(w, i) \/ ServeLoad(w, i)
      \/ \E r \in References : PayLoad(w, i, r) \/ PayRefuse(w, i, r)
  BY DEF Begin
<1>1. CASE \/ EditLoad(w, i) \/ DeleteLoad(w, i) \/ IssueLoad(w, i)
          \/ VoidLoad(w, i) \/ ServeLoad(w, i)
  <2>1. PICK op \in {"edit", "delete", "issue", "void", "serve"} : Load(w, i, op)
    BY <1>1 DEF EditLoad, DeleteLoad, IssueLoad, VoidLoad, ServeLoad
  <2>2. req'[w].op = op /\ \A v \in Workers \ {w} : req'[v] = req[v]
    BY <2>1 DEF Load, LedgerInv, TypeOK, Idle
  <2> QED BY <2>1, <2>2 DEF Load
<1>2. ASSUME NEW r \in References, PayLoad(w, i, r) \/ PayRefuse(w, i, r)
      PROVE  /\ UNCHANGED <<invoiceVars, due, orgLock>>
             /\ raced \subseteq raced'
             /\ req'[w].op \notin {"locked", "counted"}
             /\ \A v \in Workers \ {w} : req'[v] = req[v]
  <2>1. req \in [Workers -> Requests]
    BY DEF LedgerInv, TypeOK
  <2>2. req'[w].op \notin {"locked", "counted"} /\ \A v \in Workers \ {w} : req'[v] = req[v]
    <3>1. CASE PayLoad(w, i, r)
      BY <2>1, <3>1 DEF PayLoad
    <3>2. CASE PayRefuse(w, i, r)
      BY <2>1, <3>2 DEF PayRefuse, Idle
    <3> QED BY <1>2, <3>1, <3>2
  <2>3. UNCHANGED <<invoiceVars, due, orgLock>> /\ raced \subseteq raced'
    BY <1>2 DEF PayLoad, PayRefuse
  <2> QED BY <2>2, <2>3
<1> QED BY <1>1, <1>2

\* An invoice that was raced stays so.
LEMMA RacedGrows ==
    ASSUME LedgerInv, [Next]_vars
    PROVE  raced \subseteq raced'
<1>1. ASSUME NEW w \in Workers, Begin(w) PROVE raced \subseteq raced'
  BY <1>1, BeginWritesNothing
<1> QED BY <1>1
        DEF Next, CreateInvoice, Continue, Abort, Rollback, EditCommit, DeleteCommit, IssueLock,
            IssueCount, IssueCommit, VoidCommit, ServeCommit, Refused, PayCommit, PayUnchanged,
            Sweep, SweepLoad, SweepCommit, SweepAbort, Clock, NewYear, PassDue, vars

\* Of a request, a step changes the phase by locking or counting, or ends it.
LEMMA NextLock ==
    ASSUME LedgerInv, LockHeld, [Next]_vars
    PROVE  LockHeld'
<1>1. ASSUME NEW w \in Workers, Close(w) PROVE LockHeld'
  BY <1>1 DEF Close, LockHeld, LedgerInv, TypeOK, Idle
<1>2. ASSUME NEW w \in Workers, Begin(w) PROVE LockHeld'
  <2>1. /\ orgLock' = orgLock
        /\ req'[w].op \notin {"locked", "counted"}
        /\ \A v \in Workers \ {w} : req'[v] = req[v]
    BY <1>2, BeginWritesNothing
  <2> QED BY <2>1 DEF LockHeld
<1>3. ASSUME NEW w \in Workers, IssueLock(w) PROVE LockHeld'
  BY <1>3, LedgerAssumption DEF IssueLock, LockHeld, LedgerInv, TypeOK
<1>4. ASSUME NEW w \in Workers, IssueCount(w) PROVE LockHeld'
  <2>1. orgLock = w /\ orgLock' = orgLock /\ \A v \in Workers \ {w} : req'[v] = req[v]
    BY <1>4 DEF IssueCount, LockHeld, LedgerInv, TypeOK
  <2> QED BY <2>1 DEF LockHeld
<1>5. ASSUME NEW w \in Workers, Continue(w) \/ Abort(w) PROVE LockHeld'
  BY <1>1, <1>3, <1>4, <1>5
     DEF Continue, Abort, Rollback, EditCommit, DeleteCommit, IssueCommit, VoidCommit, ServeCommit,
         Refused, PayCommit, PayUnchanged
<1>6. CASE UNCHANGED <<orgLock, req>>
  BY <1>6 DEF LockHeld
<1> QED BY <1>2, <1>5, <1>6
        DEF Next, CreateInvoice, Sweep, SweepLoad, SweepCommit, SweepAbort,
            Clock, NewYear, PassDue, vars

\* A year has finitely many numbers.
LEMMA YearIsFinite ==
    ASSUME NEW y
    PROVE  IsFiniteSet(NumberedIn(y)) /\ Cardinality(NumberedIn(y)) \in Nat
<1>1. IsFiniteSet(NumberedIn(y))
  BY LedgerAssumption, FS_Subset DEF NumberedIn
<1> QED BY <1>1, FS_CardinalityType

\* A step that gives no number and counts none.
LEMMA NumbersStay ==
    ASSUME NumbersInv, raced \subseteq raced', raced' = {} => number' = number,
           \A w \in Workers : req'[w].op = "counted" => req'[w] = req[w]
    PROVE  NumbersInv'
<1> SUFFICES ASSUME raced' = {} PROVE NumbersInv'
  BY DEF NumbersInv
<1>1. raced = {} /\ number' = number
  OBVIOUS
<1>2. \A y \in 1 .. MaxYear :
        {number[i].seq : i \in NumberedIn(y)} = 1 .. Cardinality(NumberedIn(y))
  BY <1>1 DEF NumbersInv
<1>3. \A w \in Workers : req'[w].op = "counted" =>
        /\ req'[w].num.year \in 1 .. MaxYear
        /\ req'[w].num.seq = Cardinality(NumberedIn(req[w].num.year)) + 1
        /\ req'[w] = req[w]
  BY <1>1 DEF NumbersInv
<1> QED BY <1>1, <1>2, <1>3 DEF NumbersInv, NumberedIn

\* The count under the lock is the next number of the year.
LEMMA CountNumbers ==
    ASSUME LedgerInv, NumbersInv, NEW w \in Workers, IssueCount(w)
    PROVE  NumbersInv'
<1>1. /\ req'[w].op = "counted" /\ req'[w].num = NextNumber
      /\ \A v \in Workers \ {w} : req'[v] = req[v]
      /\ UNCHANGED <<number, raced>>
  BY RequestType DEF IssueCount, LedgerInv, TypeOK, invoiceVars
<1>2. \A y : NumberedIn(y)' = NumberedIn(y)
  BY <1>1 DEF NumberedIn
<1>3. year \in 1 .. MaxYear
  BY DEF LedgerInv, TypeOK
<1>4. NextNumber.year = year /\ NextNumber.seq = Cardinality(NumberedIn(year)) + 1
  BY DEF NextNumber
<1> QED BY <1>1, <1>2, <1>3, <1>4 DEF NumbersInv

\* The number that was counted is still the next one when it is written, for
\* the session held the lock.
LEMMA IssueNumbers ==
    ASSUME LedgerInv, AloneInv, LockHeld, NumbersInv,
           NEW w \in Workers, IssueCommit(w), ~Rollback(w)
    PROVE  NumbersInv'
<1> PICK i \in Invoices : i = req[w].inv
  BY RequestType DEF LedgerInv, IssueCommit
<1> PICK n \in Numbers : n = req[w].num
  BY RequestType DEF LedgerInv
<1>1. /\ req[w].op = "counted"
      /\ raced' = raced
      /\ \A j \in Invoices : number'[j] = IF j = i THEN n ELSE number[j]
      /\ Close(w)
  BY DEF IssueCommit, LedgerInv, TypeOK
<1> SUFFICES ASSUME raced' = {}
             PROVE  /\ \A y \in 1 .. MaxYear :
                          {number'[j].seq : j \in NumberedIn(y)'} = 1 .. Cardinality(NumberedIn(y)')
                    /\ \A v \in Workers : req'[v].op # "counted"
  BY DEF NumbersInv
<1>2. \A v \in Workers : req'[v].op # "counted"
  BY <1>1 DEF LockHeld, Close, LedgerInv, TypeOK, Idle
<1>3. /\ n.year \in 1 .. MaxYear
      /\ n.seq = Cardinality(NumberedIn(n.year)) + 1
      /\ \A y \in 1 .. MaxYear :
            {number[j].seq : j \in NumberedIn(y)} = 1 .. Cardinality(NumberedIn(y))
  BY <1>1 DEF NumbersInv
<1>4. number[i] = NoNumber
  BY <1>1 DEF AloneInv, HoldersKnow, Holds, StillSo, RowAgrees
<1>5. ASSUME NEW y \in 1 .. MaxYear
      PROVE  {number'[j].seq : j \in NumberedIn(y)'} = 1 .. Cardinality(NumberedIn(y)')
  <2>1. i \notin NumberedIn(y)
    BY <1>4 DEF NumberedIn, NoNumber
  <2>2. CASE y = n.year
    <3>1. NumberedIn(y)' = NumberedIn(y) \union {i}
      BY <1>1, <2>2 DEF NumberedIn
    <3>2. Cardinality(NumberedIn(y)') = Cardinality(NumberedIn(y)) + 1
      BY <2>1, <3>1, YearIsFinite, FS_AddElement
    <3>3. {number'[j].seq : j \in NumberedIn(y)'}
            = {number[j].seq : j \in NumberedIn(y)} \union {n.seq}
      BY <1>1, <2>1, <3>1 DEF NumberedIn
    <3>4. Cardinality(NumberedIn(y)) \in Nat
      BY YearIsFinite
    <3>5. \A k \in Nat : (1 .. k) \union {k + 1} = 1 .. (k + 1)
      OBVIOUS
    <3> QED BY <1>3, <2>2, <3>2, <3>3, <3>4, <3>5
  <2>3. CASE y # n.year
    <3>1. NumberedIn(y)' = NumberedIn(y)
      BY <1>1, <2>1, <2>3 DEF NumberedIn
    <3>2. {number'[j].seq : j \in NumberedIn(y)'} = {number[j].seq : j \in NumberedIn(y)}
      BY <1>1, <2>1, <3>1 DEF NumberedIn
    <3> QED BY <1>3, <3>1, <3>2
  <2> QED BY <2>2, <2>3
<1> QED BY <1>2, <1>5

\* Every step keeps the numbers of the years without gaps.
LEMMA NextNumbers ==
    ASSUME LedgerInv, AloneInv, LockHeld, NumbersInv, [Next]_vars
    PROVE  NumbersInv'
<1>1. ASSUME NEW w \in Workers, Rollback(w) PROVE NumbersInv'
  BY <1>1, NumbersStay DEF Rollback, Close, invoiceVars, LedgerInv, TypeOK, Idle
<1>2. ASSUME NEW w \in Workers, Begin(w) PROVE NumbersInv'
  <2>1. /\ raced \subseteq raced' /\ number' = number
        /\ req'[w].op # "counted" /\ \A v \in Workers \ {w} : req'[v] = req[v]
    BY <1>2, BeginWritesNothing DEF invoiceVars
  <2> QED BY <2>1, NumbersStay
<1>3. ASSUME NEW w \in Workers, DeleteCommit(w) PROVE NumbersInv'
  <2>1. /\ raced' = raced /\ Close(w) /\ req[w].op = "delete" /\ req[w].inv \in Invoices
        /\ number' = [number EXCEPT ![req[w].inv] = NoNumber]
    BY <1>3, RequestType DEF DeleteCommit, LedgerInv
  <2>2. ASSUME raced = {} PROVE number[req[w].inv] = NoNumber
    BY <2>1, <2>2 DEF AloneInv, HoldersKnow, Holds, StillSo, RowAgrees
  <2>3. raced' = {} => number' = number
    BY <2>1, <2>2 DEF LedgerInv, TypeOK
  <2>4. \A v \in Workers : req'[v].op = "counted" => req'[v] = req[v]
    BY <2>1 DEF Close, LedgerInv, TypeOK, Idle
  <2> QED BY <2>1, <2>3, <2>4, NumbersStay
<1>4. ASSUME NEW w \in Workers, IssueLock(w) PROVE NumbersInv'
  <2>1. /\ UNCHANGED <<number, raced>>
        /\ req'[w].op # "counted" /\ \A v \in Workers \ {w} : req'[v] = req[v]
    BY <1>4, RequestType DEF IssueLock, LedgerInv, TypeOK, invoiceVars
  <2> QED BY <2>1, NumbersStay
<1>5. ASSUME NEW w \in Workers,
             EditCommit(w) \/ VoidCommit(w) \/ ServeCommit(w) \/ PayCommit(w), ~Rollback(w)
      PROVE  NumbersInv'
  <2>1. UNCHANGED <<number, raced>> /\ Close(w)
    BY <1>5 DEF EditCommit, VoidCommit, ServeCommit, PayCommit
  <2>2. \A v \in Workers : req'[v].op = "counted" => req'[v] = req[v]
    BY <2>1 DEF Close, LedgerInv, TypeOK, Idle
  <2> QED BY <2>1, <2>2, NumbersStay
<1>6. ASSUME NEW w \in Workers, Continue(w) \/ Abort(w) PROVE NumbersInv'
  BY <1>1, <1>3, <1>4, <1>5, <1>6, CountNumbers, IssueNumbers
     DEF Continue, Abort, Refused, PayUnchanged
<1>7. CASE UNCHANGED <<number, req>> /\ raced \subseteq raced'
  BY <1>7, NumbersStay
<1> QED BY <1>2, <1>6, <1>7
        DEF Next, CreateInvoice, Sweep, SweepLoad, SweepCommit, SweepAbort, Clock, NewYear, PassDue,
            vars, invoiceVars

\* No year has a number in the empty database.
LEMMA InitNumbers == Init => LockHeld /\ NumbersInv
<1> SUFFICES ASSUME Init PROVE LockHeld /\ NumbersInv
  OBVIOUS
<1>1. \A w \in Workers : req[w].op = "idle"
  BY DEF Init, Idle
<1>2. \A y \in 1 .. MaxYear : NumberedIn(y) = {}
  BY DEF Init, NumberedIn, NoNumber
<1>3. Cardinality({}) = 0
  BY FS_EmptySet
<1> QED BY <1>1, <1>2, <1>3 DEF LockHeld, NumbersInv

(***************************************************************************)
(* The invariant, and what it says of invoices that are not raced.         *)
(***************************************************************************)
\* Whatever requests and sweeps overlap, an invoice that no two sessions have
\* held at once has one holder, whose copy of the row is the row, and a row that
\* agrees with the payments table.
THEOREM AloneIsSafe == Spec => []Inv
<1>1. Init => Inv
  BY InitSafe, InitAlone, InitNumbers DEF Inv
<1>2. Inv /\ [Next]_vars => Inv'
  BY NextSafe, NextAlone, NextLock, NextNumbers DEF Inv
<1> QED BY <1>1, <1>2, PTL DEF Spec

\* No payment of an invoice that was not raced is lost from its balance
\* (record_payment: "+=" on the balance that was loaded).
THEOREM NoPaymentIsLost == Spec => []NoPaymentLost
<1>1. Inv => NoPaymentLost
  BY DEF Inv, AloneInv, RowAgrees, NoPaymentLost, Recorded
<1> QED BY <1>1, AloneIsSafe, PTL

\* The status of an invoice that was not raced says what its payments say
\* (record_payment, void_invoice, mark_overdue_invoices).
THEOREM StatusIsOfPayments == Spec => []StatusFollowsPayments
<1>1. Inv => StatusFollowsPayments
  BY DEF Inv, AloneInv, RowAgrees, Follows, StatusFollowsPayments
<1> QED BY <1>1, AloneIsSafe, PTL

\* As long as no invoice was raced, the numbers of every year run from 1 without
\* a gap, for any number of issuing requests (issue_invoice).
THEOREM NumbersAreGapless == Spec => []NumbersHaveNoGap
<1>1. Inv => NumbersHaveNoGap
  BY DEF Inv, NumbersInv, NumbersHaveNoGap
<1> QED BY <1>1, AloneIsSafe, PTL

\* As long as no invoice was raced, the number counted under the organisation
\* lock is free until its request commits (issue_invoice).
THEOREM CountedIsFree == Spec => []CountedNumberIsFree
<1>1. Inv => CountedNumberIsFree
  <2> SUFFICES ASSUME Inv, raced = {}, NEW w \in Workers, req[w].op = "counted",
                      NEW j \in Invoices, number[j] = req[w].num
               PROVE  FALSE
    BY DEF CountedNumberIsFree, NumberTaken
  <2> PICK n \in Numbers : n = req[w].num
    BY RequestType DEF Inv, LedgerInv
  <2>1. /\ n.year \in 1 .. MaxYear
        /\ n.seq = Cardinality(NumberedIn(n.year)) + 1
        /\ {number[i].seq : i \in NumberedIn(n.year)} = 1 .. Cardinality(NumberedIn(n.year))
    BY DEF Inv, NumbersInv
  <2>2. n.seq \in {number[i].seq : i \in NumberedIn(n.year)}
    BY DEF NumberedIn
  <2> QED BY <2>1, <2>2, YearIsFinite
<1> QED BY <1>1, AloneIsSafe, PTL

(***************************************************************************)
(* What an issued invoice may become.                                      *)
(***************************************************************************)
Final(j) ==
    status[j] \in Issued =>
        status'[j] \in Issued \union {"void"} /\ net'[j] = net[j] /\ number'[j] = number[j]

\* A request that is alone with a draft does not write an issued invoice.
LEMMA DraftsOnly ==
    ASSUME LedgerInv, AloneInv, NEW w \in Workers, NEW j \in Invoices \ raced,
           EditCommit(w) \/ DeleteCommit(w) \/ IssueCommit(w)
    PROVE  Final(j)
<1> PICK i \in Invoices : i = req[w].inv
  BY RequestType DEF LedgerInv, EditCommit, DeleteCommit, IssueCommit
<1>1. i \notin raced => status[i] = "draft"
  BY DEF AloneInv, HoldersKnow, Holds, StillSo, EditCommit, DeleteCommit, IssueCommit
<1>2. CASE j = i
  BY <1>1, <1>2 DEF Final, Issued
<1>3. CASE j # i
  BY <1>3 DEF Final, LedgerInv, TypeOK, EditCommit, DeleteCommit, IssueCommit, Rollback, invoiceVars
<1> QED BY <1>2, <1>3

LEMMA NextFinal ==
    ASSUME LedgerInv, AloneInv, [Next]_vars, NEW j \in Invoices \ raced
    PROVE  Final(j)
<1>1. ASSUME NEW i \in Invoices, CreateInvoice(i) PROVE Final(j)
  BY <1>1 DEF CreateInvoice, Final, Issued, LedgerInv, TypeOK
<1>2. ASSUME NEW w \in Workers, VoidCommit(w) \/ ServeCommit(w) PROVE Final(j)
  BY <1>2 DEF VoidCommit, ServeCommit, Rollback, invoiceVars, Final, LedgerInv, TypeOK
<1>3. ASSUME NEW w \in Workers, PayCommit(w) PROVE Final(j)
  <2>1. NewStatus(w) \in {"paid", "part_paid"}
    BY DEF NewStatus
  <2> QED BY <1>3, <2>1 DEF PayCommit, Final, Issued, LedgerInv, TypeOK
<1>4. ASSUME NEW s \in Sweepers, SweepCommit(s) PROVE Final(j)
  BY <1>4 DEF SweepCommit, Final, Issued, LedgerInv, TypeOK
<1>5. CASE UNCHANGED invoiceVars
  BY <1>5 DEF invoiceVars, Final
<1>6. ASSUME NEW w \in Workers, Begin(w) PROVE Final(j)
  BY <1>5, <1>6, BeginWritesNothing
<1> QED BY <1>1, <1>2, <1>3, <1>4, <1>5, <1>6, DraftsOnly
        DEF Next, Continue, Abort, Refused, PayUnchanged, Rollback, IssueLock, IssueCount,
            Sweep, SweepLoad, SweepAbort, Clock, NewYear, PassDue, vars, invoiceVars

\* The amount and the number of an invoice that is out and was not raced never
\* change, and its row stays (edit guards, issue_invoice, delete_invoice).
THEOREM IssuedStaysFinal == Spec => IssuedIsFinal
<1>1. Inv /\ [Next]_vars =>
        [\A i \in Invoices \ raced' :
            status[i] \in Issued =>
               /\ status'[i] \in Issued \union {"void"}
               /\ net'[i] = net[i]
               /\ number'[i] = number[i]]_vars
  <2> SUFFICES ASSUME Inv, [Next]_vars, NEW i \in Invoices \ raced'
               PROVE  Final(i)
    BY DEF Final
  <2> i \notin raced
    BY RacedGrows DEF Inv
  <2> QED BY NextFinal DEF Inv
<1> QED BY <1>1, AloneIsSafe, PTL DEF Spec, IssuedIsFinal

(***************************************************************************)
(* InvoiceLedger implements AtomicLedger.                                  *)
(***************************************************************************)
\* What the holder of an invoice knows while no invoice is raced.
LEMMA HolderKnows ==
    ASSUME Inv, raced = {}, NEW w \in Workers, NEW i \in Invoices, Holds(w, i)
    PROVE  RowAgrees(i) /\ StillSo(w, i)
BY DEF Inv, AloneInv, HoldersKnow

\* The balance is then the payments on record, each once.
LEMMA BalanceIsPaid ==
    ASSUME Inv, raced = {}, NEW i \in Invoices
    PROVE  credited[i] = Atomic!Paid(i)
<1>1. credited[i] \in Balances
  BY DEF Inv, LedgerInv, TypeOK
<1>2. ASSUME NEW r \in References
      PROVE  credited[i][r] = IF payment[r] = i THEN 1 ELSE 0
  <2>1. credited[i][r] <= IF payment[r] = i THEN 1 ELSE 0
    BY DEF Inv, LedgerInv, NoDoubleCredit, AtMostOnce
  <2>2. payment[r] = i => credited[i][r] >= 1
    BY DEF Inv, AloneInv, RowAgrees
  <2> QED BY <1>1, <2>1, <2>2 DEF Balances
<1> QED BY <1>1, <1>2 DEF Balances, Atomic!Paid

\* AtomicLedger counts with the same Cardinality.
LEMMA SameCardinality == \A S : Atomic!Cardinality(S) = Cardinality(S)
BY DEF Atomic!Cardinality, Cardinality

LEMMA EditIsAtomic ==
    ASSUME Inv, raced = {}, NEW w \in Workers, EditCommit(w), ~Rollback(w)
    PROVE  Atomic!Step
<1> PICK i \in Invoices : i = req[w].inv
  BY RequestType DEF Inv, LedgerInv, EditCommit
<1>1. StillSo(w, i)
  BY HolderKnows DEF Holds, EditCommit
<1>2. Atomic!Edit(i)
  BY <1>1 DEF EditCommit, StillSo, PutIn, Atomic!Edit, Atomic!Write
<1> QED BY <1>2 DEF Atomic!Step

\* A draft has no number, no payments and, when it is deleted, no lines.
LEMMA DeleteIsAtomic ==
    ASSUME Inv, raced = {}, NEW w \in Workers, DeleteCommit(w)
    PROVE  Atomic!Step
<1> PICK i \in Invoices : i = req[w].inv
  BY RequestType DEF Inv, LedgerInv, DeleteCommit
<1>1. RowAgrees(i) /\ status[i] = "draft" /\ i \notin lined
  BY HolderKnows DEF Holds, DeleteCommit, StillSo
<1>2. number[i] = NoNumber /\ credited[i] = NothingPaid
  BY <1>1 DEF RowAgrees, Follows
<1>3. number' = number /\ lined' = lined
  BY <1>1, <1>2 DEF DeleteCommit, Inv, LedgerInv, TypeOK
<1>4. payment' = payment
  BY <1>1, <1>2, UnpaidHasNone DEF DeleteCommit, Inv, LedgerInv, TypeOK
<1>5. Atomic!Delete(i)
  BY <1>1, <1>3, <1>4 DEF DeleteCommit, Atomic!Delete
<1> QED BY <1>5 DEF Atomic!Step

\* The number that was counted is the next one of its year when it is written.
LEMMA IssueIsAtomic ==
    ASSUME Inv, raced = {}, NEW w \in Workers, IssueCommit(w), ~Rollback(w)
    PROVE  Atomic!Step
<1> PICK i \in Invoices : i = req[w].inv
  BY RequestType DEF Inv, LedgerInv, IssueCommit
<1> PICK n \in Numbers : n = req[w].num
  BY RequestType DEF Inv, LedgerInv
<1>1. status[i] = "draft" /\ i \in lined
  BY HolderKnows DEF Holds, IssueCommit, StillSo
<1>2. n.year \in 1 .. MaxYear /\ n.seq = Cardinality(NumberedIn(n.year)) + 1
  BY DEF Inv, NumbersInv, IssueCommit
<1>3. n = [year |-> n.year, seq |-> Cardinality({j \in Invoices : number[j].year = n.year}) + 1]
  BY <1>2 DEF Numbers, NumberedIn
<1>4. /\ status' = [status EXCEPT ![i] = "sent"]
      /\ number' = [number EXCEPT ![i] = n]
      /\ UNCHANGED <<lined, net, payment>>
  BY DEF IssueCommit
<1>5. number' = [number EXCEPT ![i] =
         [year |-> n.year,
          seq |-> Atomic!Cardinality({j \in Invoices : number[j].year = n.year}) + 1]]
  BY <1>3, <1>4, SameCardinality, Zenon
<1>6. Atomic!Issue(i, n.year)
  BY <1>1, <1>4, <1>5 DEF Atomic!Issue
<1> QED BY <1>2, <1>6 DEF Atomic!Step

LEMMA VoidIsAtomic ==
    ASSUME Inv, raced = {}, NEW w \in Workers, VoidCommit(w), ~Rollback(w)
    PROVE  Atomic!Step
<1> PICK i \in Invoices : i = req[w].inv
  BY RequestType DEF Inv, LedgerInv, VoidCommit
<1>1. RowAgrees(i) /\ status[i] \in Voidable /\ credited[i] = NothingPaid
  BY HolderKnows DEF Holds, VoidCommit, StillSo
<1>2. Atomic!Void(i)
  BY <1>1, UnpaidHasNone DEF VoidCommit, Voidable, Payable, Atomic!Void
<1> QED BY <1>2 DEF Atomic!Step

\* The balance after the payment is the payments on record with it.
LEMMA PayIsAtomic ==
    ASSUME Inv, raced = {}, NEW w \in Workers, PayCommit(w)
    PROVE  Atomic!Step
<1> PICK i \in Invoices, r \in References : i = req[w].inv /\ r = req[w].ref
  BY RequestType DEF Inv, LedgerInv, PayCommit
<1>1. /\ status[i] \in Payable
      /\ req[w].status = status[i] /\ req[w].credited = credited[i] /\ req[w].net = net[i]
  BY HolderKnows DEF Holds, PayCommit, StillSo
<1>2. credited[i] = Atomic!Paid(i)
  BY BalanceIsPaid
<1>3. Balance(w) = [Atomic!Paid(i) EXCEPT ![r] = 1]
  <2>1. payment[r] # i
    BY LedgerAssumption DEF PayCommit
  <2>2. Atomic!Paid(i)[r] + 1 = 1 /\ r \in DOMAIN Atomic!Paid(i)
    BY <2>1 DEF Atomic!Paid
  <2>3. Balance(w) = [Atomic!Paid(i) EXCEPT ![r] = Atomic!Paid(i)[r] + 1]
    BY <1>1, <1>2 DEF Balance
  <2> QED BY <2>2, <2>3
<1>4. NewStatus(w) = IF Covers(net[i], [Atomic!Paid(i) EXCEPT ![r] = 1])
                     THEN "paid" ELSE "part_paid"
  BY <1>1, <1>3 DEF NewStatus
<1>5. status' = [status EXCEPT ![i] = NewStatus(w)]
  BY <1>1 DEF PayCommit, Inv, LedgerInv, TypeOK
<1>6. Atomic!Pay(i, r)
  BY <1>1, <1>4, <1>5 DEF PayCommit, Payable, Atomic!Pay
<1> QED BY <1>6 DEF Atomic!Step

LEMMA SweepIsAtomic ==
    ASSUME Inv, raced = {}, NEW s \in Sweepers, SweepCommit(s)
    PROVE  Atomic!Step
<1>1. due[s] \subseteq Invoices /\ \A i \in due[s] : status[i] \in {"sent", "part_paid"}
  BY DEF Inv, AloneInv, HoldersKnow, LedgerInv, TypeOK
<1>2. \A i \in due[s] : Exists(i)
  BY <1>1 DEF Exists, Statuses, Voidable, Payable
<1>3. Atomic!FallDue(due[s])
  BY <1>1, <1>2 DEF SweepCommit, Atomic!FallDue
<1> QED BY <1>1, <1>3 DEF Atomic!Step

\* As long as no invoice is raced, a step is an atomic request or changes
\* nothing that AtomicLedger sees.
LEMMA AloneStep ==
    ASSUME Inv, raced = {}, [Next]_vars
    PROVE  Atomic!Step \/ UNCHANGED <<status, number, lined, net, payment>>
<1>1. ASSUME NEW i \in Invoices, CreateInvoice(i) PROVE Atomic!Step
  <2>1. Atomic!Create(i)
    BY <1>1 DEF CreateInvoice, PutIn, Atomic!Create, Atomic!Write
  <2> QED BY <2>1 DEF Atomic!Step
<1>2. ASSUME NEW w \in Workers, Begin(w) PROVE UNCHANGED invoiceVars
  BY <1>2, BeginWritesNothing DEF Inv
<1>3. ASSUME NEW w \in Workers, Rollback(w) PROVE UNCHANGED invoiceVars
  BY <1>3 DEF Rollback
<1>4. ASSUME NEW w \in Workers, IssueLock(w) \/ IssueCount(w) PROVE UNCHANGED invoiceVars
  BY <1>4 DEF IssueLock, IssueCount
<1>5. ASSUME NEW w \in Workers, ServeCommit(w)
      PROVE  UNCHANGED <<status, number, lined, net, payment>>
  BY <1>5 DEF ServeCommit, Rollback, invoiceVars
<1>6. ASSUME NEW w \in Workers, Continue(w) \/ Abort(w)
      PROVE  Atomic!Step \/ UNCHANGED <<status, number, lined, net, payment>>
  BY <1>3, <1>4, <1>5, <1>6, EditIsAtomic, DeleteIsAtomic, IssueIsAtomic, VoidIsAtomic, PayIsAtomic
     DEF Continue, Abort, Refused, PayUnchanged, invoiceVars
<1>7. ASSUME NEW s \in Sweepers, Sweep(s)
      PROVE  Atomic!Step \/ UNCHANGED <<status, number, lined, net, payment>>
  BY <1>7, SweepIsAtomic DEF Sweep, SweepLoad, SweepAbort, invoiceVars
<1>8. CASE Clock \/ UNCHANGED vars
  BY <1>8 DEF Clock, NewYear, PassDue, vars, invoiceVars
<1> QED BY <1>1, <1>2, <1>6, <1>7, <1>8 DEF Next, invoiceVars

\* As long as no two sessions hold one invoice at once, however requests on
\* different invoices interleave, every request is one atomic step that decides
\* on the committed state (every handler of invoice_service.py and
\* invoice_payment_service.py).
THEOREM LedgerIsAtomic == Spec => ImplementsAtomicLedger
<1>1. Init => Atomic!Init
  BY DEF Init, NoNumber, Atomic!Init, Atomic!Unnumbered
<1>2. Inv /\ [Next]_vars => [Atomic!Next]_(Atomic!vars)
  <2> SUFFICES ASSUME Inv, [Next]_vars PROVE [Atomic!Next]_(Atomic!vars)
    OBVIOUS
  <2>1. raced \subseteq raced'
    BY RacedGrows DEF Inv
  <2>2. CASE raced' # {}
    BY <2>2 DEF Atomic!Next
  <2>3. CASE raced' = {}
    BY <2>1, <2>3, AloneStep DEF Atomic!Next, Atomic!vars
  <2> QED BY <2>2, <2>3
<1> QED BY <1>1, <1>2, AloneIsSafe, PTL DEF Spec, ImplementsAtomicLedger, Atomic!Spec
=============================================================================
