-------------------------- MODULE ClientIntakeProofs --------------------------
(***************************************************************************)
(* What no overlap of forms, retries, deletions and status changes breaks, *)
(* for every instance of ClientIntake.                                     *)
(***************************************************************************)
EXTENDS ClientIntake, FiniteSetTheorems, TLAPS

\* A session past the limit check holds the organisation, so what it counted
\* still is the count when it commits, and below the limit it read.
RoomIsKept ==
    \A w \in Workers : Inside(w) => Cardinality(Limited) < req[w].limit

NoneDeleted == \A m \in Matters : matter[m] # "deleted"

ReferencesAreCounts ==
    NoneDeleted =>
        /\ \A m \in Stored : matterRef[m] <= Cardinality(Stored)
        /\ \A w \in Workers : Inside(w) => req[w].ref = Cardinality(Stored) + 1

\* The list page shows clients that were created.
ListOK == \A c \in shown : c \in Clients /\ client[c] # "absent"

Inv ==
    /\ IntakeInv
    /\ ListOK
    /\ MattersHaveClient
    /\ OneRowPerMount
    /\ RoomIsKept
    /\ ReferencesAreCounts
    /\ ReferencesAreUnique

\* What RequestsPoint asks of one request.
Points(r) ==
    /\ r.op \in {"createMatter", "deleteClient"} => r.cl \in Clients /\ client[r.cl] # "absent"
    /\ r.op \in {"changeStatus", "deleteMatter"} => r.mt \in Matters /\ matter[r.mt] # "absent"
    /\ r.op = "changeStatus" => r.to \in {"open", "archived"}
    /\ r.op = "createMatter" /\ r.pc = "commit" => ClientRowExists(r.cl) /\ ~MatterKeyTaken(r.key)
    /\ r.op \in {"createClient", "createMatter"} => r.key = r.mount

Admitted(r) == r.op = "createMatter" /\ r.pc \in {"insert", "commit"}

\* What the count and the limit ask of a request that holds the organisation.
Counted(r) ==
    Admitted(r) => /\ Cardinality(Limited) < r.limit
                   /\ NoneDeleted => r.ref = Cardinality(Stored) + 1

FormsOK == form \in [Forms -> FormStates] /\ \A f \in Forms : form[f].key = form[f].mount

LEMMA FiniteTables ==
    /\ IsFiniteSet(Stored) /\ Cardinality(Stored) \in Nat
    /\ IsFiniteSet(Limited) /\ Cardinality(Limited) \in Nat
<1>1. Stored \in SUBSET Matters /\ Limited \in SUBSET Matters /\ IsFiniteSet(Matters)
  BY IntakeAssumption DEF Stored, Limited, Active
<1>2. IsFiniteSet(Stored) /\ IsFiniteSet(Limited)
  BY <1>1, FS_Subset
<1> QED BY <1>2, FS_CardinalityType

LEMMA FiniteTablesNext ==
    /\ IsFiniteSet(Stored') /\ Cardinality(Stored') \in Nat
    /\ IsFiniteSet(Limited') /\ Cardinality(Limited') \in Nat
<1>1. Stored' \in SUBSET Matters /\ Limited' \in SUBSET Matters /\ IsFiniteSet(Matters)
  BY IntakeAssumption DEF Stored, Limited, Active
<1>2. IsFiniteSet(Stored') /\ IsFiniteSet(Limited')
  BY <1>1, FS_Subset
<1> QED BY <1>2, FS_CardinalityType

LEMMA IdleSafe ==
    Idle \in Requests /\ Points(Idle) /\ ~Admitted(Idle) /\ Counted(Idle) /\ Idle.op = "none"
BY IntakeAssumption DEF Idle, Requests, Points, Admitted, Counted, Keys, MatterStates

LEMMA RequestFields ==
    ASSUME NEW r \in Requests
    PROVE  /\ r.key \in Keys /\ r.mount \in Keys /\ r.ref \in Nat /\ r.limit \in Nat /\ r.empty \in BOOLEAN
           /\ r.cl \in Clients \union {NoClient} /\ r.mt \in Matters \union {NoMatter}
           /\ r.to \in MatterStates
BY DEF Requests

\* Whatever a form gets for an answer, it is mounted with one key or closed.
LEMMA AnswerForms ==
    ASSUME Inv, NEW w \in Workers, NEW ok \in BOOLEAN, Answer(w, ok)
    PROVE  FormsOK' /\ req' = [req EXCEPT ![w] = Idle]
<1>1. form \in [Forms -> FormStates] /\ \A f \in Forms : form[f].key = form[f].mount
  BY DEF Inv, IntakeInv, TypeOK, KeysAreMounts
<1>2. ClosedForm \in FormStates /\ ClosedForm.key = ClosedForm.mount
  BY IntakeAssumption DEF ClosedForm, FormStates, Keys
<1>3. \A x \in FormStates : /\ [x EXCEPT !.waits = NoWorker] \in FormStates
                            /\ [x EXCEPT !.waits = NoWorker].key = x.key
                            /\ [x EXCEPT !.waits = NoWorker].mount = x.mount
  BY DEF FormStates
<1> QED BY <1>1, <1>2, <1>3 DEF Answer, FormsOK

\* One request moves on and no table changes.
LEMMA SessionSafe ==
    ASSUME Inv, NEW w \in Workers, NEW r \in Requests,
           req' = [req EXCEPT ![w] = r],
           UNCHANGED <<clientVars, matterVars, maxMatters, reopened>>,
           FormsOK', drawn' \in Keys, ListOK',
           Points(r), Counted(r),
           \/ orgLock' = orgLock /\ (Admitted(r) <=> Inside(w))
           \/ orgLock = NoWorker /\ orgLock' = w /\ Admitted(r)
           \/ orgLock = w /\ orgLock' = NoWorker /\ ~Admitted(r)
    PROVE  Inv'
<1>1. req'[w] = r /\ \A v \in Workers \ {w} : req'[v] = req[v]
  BY DEF Inv, IntakeInv, TypeOK
<1>2. client' = client /\ matter' = matter /\ Stored' = Stored /\ Limited' = Limited
  BY DEF clientVars, matterVars, Stored, Limited, Active
<1>3. TypeOK' /\ ListOK'
  BY DEF Inv, IntakeInv, TypeOK, FormsOK, ListOK, clientVars, matterVars
<1>4. LockIsHeld'
  BY <1>1, IntakeAssumption DEF Inv, IntakeInv, LockIsHeld, Inside, Admitted
<1>5. RequestsPoint'
  BY <1>1, <1>2 DEF Inv, IntakeInv, RequestsPoint, Points, At, ClientRowExists, MatterKeyTaken, matterVars
<1>6. KeysAreMounts' /\ MattersHaveClient' /\ OneRowPerMount' /\ ReferencesAreUnique'
  BY <1>2 DEF Inv, IntakeInv, KeysAreMounts, FormsOK, MattersHaveClient, ClientRowExists,
              OneRowPerMount, ReferencesAreUnique, clientVars, matterVars
<1>7. RoomIsKept'
  BY <1>1, <1>2 DEF Inv, RoomIsKept, Counted, Admitted, Inside
<1>8. ReferencesAreCounts'
  BY <1>1, <1>2 DEF Inv, ReferencesAreCounts, NoneDeleted, Counted, Admitted, Inside, matterVars
<1> QED BY <1>3, <1>4, <1>5, <1>6, <1>7, <1>8 DEF Inv, IntakeInv

\* A request that ends without a write.
LEMMA AnswerSafe ==
    ASSUME Inv, NEW w \in Workers, NEW ok \in BOOLEAN, Answer(w, ok),
           UNCHANGED <<clientVars, matterVars, maxMatters, drawn, reopened>>, ListOK',
           \/ orgLock' = orgLock /\ ~Inside(w)
           \/ Inside(w) /\ orgLock' = NoWorker
    PROVE  Inv'
<1>1. FormsOK' /\ req' = [req EXCEPT ![w] = Idle]
  BY AnswerForms
<1>2. Inside(w) => orgLock = w
  BY DEF Inv, IntakeInv, LockIsHeld
<1>3. drawn' \in Keys
  BY DEF Inv, IntakeInv, TypeOK
<1> QED BY <1>1, <1>2, <1>3, IdleSafe, SessionSafe

(***************************************************************************)
(* The forms and the pages                                                 *)
(***************************************************************************)

\* Only the forms, the keys drawn and the list change.
LEMMA PagesSafe ==
    ASSUME Inv, UNCHANGED <<clientVars, matterVars, orgLock, req, reopened>>,
           FormsOK', drawn' \in Keys, maxMatters' \in Plans, ListOK'
    PROVE  Inv'
<1>1. Stored' = Stored /\ Limited' = Limited
  BY DEF matterVars, Stored, Limited, Active
<1>2. TypeOK' /\ KeysAreMounts' /\ ListOK'
  BY DEF Inv, IntakeInv, TypeOK, KeysAreMounts, FormsOK, ListOK, clientVars, matterVars
<1>3. LockIsHeld' /\ RequestsPoint'
  BY <1>1 DEF Inv, IntakeInv, LockIsHeld, Inside, RequestsPoint, At, ClientRowExists,
              MatterKeyTaken, clientVars, matterVars
<1>4. MattersHaveClient' /\ OneRowPerMount' /\ ReferencesAreUnique'
  BY <1>1 DEF Inv, MattersHaveClient, ClientRowExists, OneRowPerMount, ReferencesAreUnique, clientVars, matterVars
<1>5. RoomIsKept' /\ ReferencesAreCounts'
  BY <1>1 DEF Inv, RoomIsKept, ReferencesAreCounts, NoneDeleted, Inside, matterVars
<1> QED BY <1>2, <1>3, <1>4, <1>5 DEF Inv, IntakeInv

\* What was counted for a matter does not follow the plan.
LEMMA PlanChangesSafe ==
    ASSUME Inv, NEW n \in Plans, PlanChanges(n)
    PROVE  Inv'
<1>1. FormsOK' /\ drawn' \in Keys /\ maxMatters' \in Plans /\ ListOK'
  BY DEF PlanChanges, FormsOK, ListOK, clientVars, Inv, IntakeInv, TypeOK, KeysAreMounts
<1> QED BY <1>1, PagesSafe DEF PlanChanges

LEMMA MountSafe ==
    ASSUME Inv, NEW f \in Forms, MountClientForm(f) \/ MountMatterForm(f)
    PROVE  Inv'
<1>1. drawn + 1 \in Keys
  BY IntakeAssumption DEF Inv, IntakeInv, TypeOK, Keys, MountClientForm, MountMatterForm
<1>2. \A kind \in {"client", "matter"} :
         Mounted(kind) \in FormStates /\ Mounted(kind).key = Mounted(kind).mount
  BY <1>1 DEF Mounted, FormStates
<1>3. \E kind \in {"client", "matter"} : form' = [form EXCEPT ![f] = Mounted(kind)]
  BY DEF MountClientForm, MountMatterForm
<1>4. FormsOK'
  BY <1>2, <1>3 DEF FormsOK, Inv, IntakeInv, TypeOK, KeysAreMounts
<1>5. drawn' \in Keys /\ maxMatters' \in Plans /\ ListOK'
  BY <1>1 DEF ListOK, clientVars, MountClientForm, MountMatterForm, Inv, IntakeInv, TypeOK
<1> QED BY <1>4, <1>5, PagesSafe DEF MountClientForm, MountMatterForm

LEMMA LeaveFormSafe ==
    ASSUME Inv, NEW f \in Forms, LeaveForm(f)
    PROVE  Inv'
<1>1. ClosedForm \in FormStates /\ ClosedForm.key = ClosedForm.mount
  BY IntakeAssumption DEF ClosedForm, FormStates, Keys
<1>2. FormsOK' /\ drawn' \in Keys /\ maxMatters' \in Plans /\ ListOK'
  BY <1>1 DEF ListOK, clientVars, FormsOK, LeaveForm, Inv, IntakeInv, TypeOK, KeysAreMounts
<1> QED BY <1>2, PagesSafe DEF LeaveForm

\* A form waits for a worker, or for none, and is otherwise as it was.
LEMMA WaitsKept ==
    ASSUME Inv, NEW f \in Forms, NEW w \in Workers \union {NoWorker},
           form' = [form EXCEPT ![f].waits = w]
    PROVE  FormsOK'
<1>1. \A x \in FormStates : /\ [x EXCEPT !.waits = w] \in FormStates
                            /\ [x EXCEPT !.waits = w].key = x.key
                            /\ [x EXCEPT !.waits = w].mount = x.mount
  BY DEF FormStates
<1> QED BY <1>1 DEF FormsOK, Inv, IntakeInv, TypeOK, KeysAreMounts

LEMMA LoseConnectionSafe ==
    ASSUME Inv, NEW f \in Forms, LoseConnection(f)
    PROVE  Inv'
<1>1. FormsOK' /\ drawn' \in Keys /\ maxMatters' \in Plans /\ ListOK'
  <2>1. drawn' \in Keys /\ maxMatters' \in Plans /\ ListOK'
    BY DEF ListOK, clientVars, LoseConnection, Inv, IntakeInv, TypeOK
  <2> QED BY <2>1, WaitsKept DEF LoseConnection
<1>2. CASE req' = req
  BY <1>1, <1>2, PagesSafe DEF LoseConnection
<1>3. CASE req[form[f].waits].pc = "lookup" /\ req' = [req EXCEPT ![form[f].waits] = Idle]
  <2>1. PICK w \in Workers : w = form[f].waits
    BY DEF LoseConnection, Inv, IntakeInv, TypeOK, FormStates
  <2>2. ~Inside(w) /\ orgLock' = orgLock /\ req' = [req EXCEPT ![w] = Idle]
    BY <1>3, <2>1 DEF Inside, LoseConnection
  <2> QED BY <1>1, <2>2, IdleSafe, SessionSafe DEF LoseConnection
<1> QED BY <1>2, <1>3 DEF LoseConnection

LEMMA SubmitClientSafe ==
    ASSUME Inv, NEW f \in Forms, NEW w \in Workers, SubmitClient(f, w)
    PROVE  Inv'
<1> DEFINE r == [Idle EXCEPT !.op = "createClient", !.pc = "lookup",
                             !.key = form[f].key, !.mount = form[f].mount]
<1>1. form[f].key \in Keys /\ form[f].mount = form[f].key
  BY DEF Inv, IntakeInv, TypeOK, FormStates, KeysAreMounts
<1>2. r \in Requests /\ Points(r) /\ ~Admitted(r) /\ Counted(r)
  BY <1>1, IntakeAssumption DEF Idle, Requests, Points, Admitted, Counted, Keys, MatterStates
<1>3. FormsOK' /\ drawn' \in Keys /\ ListOK'
  BY WaitsKept DEF ListOK, clientVars, SubmitClient, Send, Inv, IntakeInv, TypeOK
<1>4. req' = [req EXCEPT ![w] = r] /\ ~Inside(w) /\ orgLock' = orgLock
  BY DEF SubmitClient, Send, Inside
<1> HIDE DEF r
<1> QED BY <1>2, <1>3, <1>4, SessionSafe DEF SubmitClient

LEMMA SubmitMatterSafe ==
    ASSUME Inv, NEW f \in Forms, NEW w \in Workers, NEW c \in Clients, SubmitMatter(f, w, c)
    PROVE  Inv'
<1> DEFINE r == [Idle EXCEPT !.op = "createMatter", !.pc = "lookup",
                             !.key = form[f].key, !.mount = form[f].mount, !.cl = c]
<1>1. form[f].key \in Keys /\ form[f].mount = form[f].key
  BY DEF Inv, IntakeInv, TypeOK, FormStates, KeysAreMounts
<1>2. r \in Requests /\ Points(r) /\ ~Admitted(r) /\ Counted(r)
  BY <1>1, IntakeAssumption DEF Idle, Requests, Points, Admitted, Counted, Keys, MatterStates, SubmitMatter
<1>3. FormsOK' /\ drawn' \in Keys /\ ListOK'
  BY WaitsKept DEF ListOK, clientVars, SubmitMatter, Send, Inv, IntakeInv, TypeOK
<1>4. req' = [req EXCEPT ![w] = r] /\ ~Inside(w) /\ orgLock' = orgLock
  BY DEF SubmitMatter, Send, Inside
<1> HIDE DEF r
<1> QED BY <1>2, <1>3, <1>4, SessionSafe DEF SubmitMatter

\* What the pages send: a deletion of a client, a change of status, a
\* deletion of a matter.
LEMMA BeginSafe ==
    ASSUME Inv, NEW w \in Workers, NEW r \in Requests, Begin(w, r), Points(r), ~Admitted(r),
           UNCHANGED <<clientVars, matterVars, maxMatters, orgLock, form, drawn, shown, reopened>>
    PROVE  Inv'
<1>1. FormsOK' /\ drawn' \in Keys /\ ListOK'
  BY DEF ListOK, clientVars, FormsOK, Inv, IntakeInv, TypeOK, KeysAreMounts
<1>2. req' = [req EXCEPT ![w] = r] /\ ~Inside(w) /\ Counted(r)
  BY DEF Begin, Inside, Counted
<1> QED BY <1>1, <1>2, SessionSafe

LEMMA HandleArchiveSafe ==
    ASSUME Inv, NEW w \in Workers, NEW c \in Clients, HandleArchive(w, c)
    PROVE  Inv'
<1> DEFINE r == [Idle EXCEPT !.op = "deleteClient", !.pc = "count", !.cl = c]
<1>1. client[c] # "absent"
  BY DEF HandleArchive, Inv, ListOK
<1>2. r \in Requests
  BY IdleSafe DEF Idle, Requests
<1>3. Points(r) /\ ~Admitted(r)
  BY <1>1 DEF Idle, Points, Admitted
<1>4. Begin(w, r)
  BY DEF HandleArchive
<1> HIDE DEF r
<1> QED BY <1>2, <1>3, <1>4, BeginSafe DEF HandleArchive

LEMMA HandleStatusChangeSafe ==
    ASSUME Inv, NEW w \in Workers, NEW m \in Matters, NEW to \in {"open", "archived"},
           HandleStatusChange(w, m, to)
    PROVE  Inv'
<1> DEFINE r == [Idle EXCEPT !.op = "changeStatus", !.pc = "load", !.mt = m, !.to = to]
<1>1. to \in MatterStates
  BY DEF MatterStates
<1>2. r \in Requests
  BY <1>1, IdleSafe DEF Idle, Requests
<1>3. Points(r) /\ ~Admitted(r)
  BY DEF HandleStatusChange, Idle, Points, Admitted
<1>4. Begin(w, r)
  BY DEF HandleStatusChange
<1> HIDE DEF r
<1> QED BY <1>2, <1>3, <1>4, BeginSafe DEF HandleStatusChange

LEMMA DeleteMatterRequestSafe ==
    ASSUME Inv, NEW w \in Workers, NEW m \in Matters, DeleteMatterRequest(w, m)
    PROVE  Inv'
<1> DEFINE r == [Idle EXCEPT !.op = "deleteMatter", !.pc = "load", !.mt = m]
<1>1. r \in Requests
  BY IdleSafe DEF Idle, Requests
<1>2. Points(r) /\ ~Admitted(r)
  BY DEF DeleteMatterRequest, Idle, Points, Admitted
<1>3. Begin(w, r)
  BY DEF DeleteMatterRequest
<1> HIDE DEF r
<1> QED BY <1>1, <1>2, <1>3, BeginSafe DEF DeleteMatterRequest

LEMMA LoadClientsSafe ==
    ASSUME Inv, LoadClients
    PROVE  Inv'
<1>1. FormsOK' /\ drawn' \in Keys /\ maxMatters' \in Plans
  BY DEF LoadClients, FormsOK, Inv, IntakeInv, TypeOK, KeysAreMounts
<1>2. ListOK'
  BY DEF LoadClients, ListOK, clientVars
<1> QED BY <1>1, <1>2, PagesSafe DEF LoadClients

(***************************************************************************)
(* Handlers that read                                                      *)
(***************************************************************************)

\* The next step of a handler that holds nothing yet.
LEMMA GotoSafe ==
    ASSUME Inv, NEW w \in Workers,
           NEW pc \in {"lookup", "admit", "insert", "commit", "recheck"}, Goto(w, pc),
           UNCHANGED <<clientVars, matterVars, maxMatters, orgLock, drawn, shown, reopened>>,
           Points([req[w] EXCEPT !.pc = pc]), Counted([req[w] EXCEPT !.pc = pc]),
           req[w].op = "createMatter" /\ pc \in {"insert", "commit"} <=> Inside(w)
    PROVE  Inv'
<1> DEFINE r == [req[w] EXCEPT !.pc = pc]
<1>1. r \in Requests /\ req' = [req EXCEPT ![w] = r]
  BY DEF Inv, IntakeInv, TypeOK, Requests, Goto
<1>2. Admitted(r) <=> Inside(w)
  BY DEF Admitted, Inv, IntakeInv, TypeOK, Requests
<1>3. FormsOK' /\ drawn' \in Keys /\ ListOK'
  BY DEF Goto, FormsOK, ListOK, clientVars, Inv, IntakeInv, TypeOK, KeysAreMounts
<1>4. Points(r) /\ Counted(r)
  OBVIOUS
<1> HIDE DEF r
<1> QED BY <1>1, <1>2, <1>3, <1>4, SessionSafe

\* An answer when the handler holds nothing.
LEMMA RefuseSafe ==
    ASSUME Inv, NEW w \in Workers, NEW ok \in BOOLEAN, Answer(w, ok), ~Inside(w),
           UNCHANGED <<clientVars, matterVars, maxMatters, orgLock, drawn, shown, reopened>>
    PROVE  Inv'
<1>1. ListOK'
  BY DEF Inv, ListOK, clientVars
<1> QED BY <1>1, AnswerSafe

LEMMA AbortSafe ==
    ASSUME Inv, NEW w \in Workers, Abort(w)
    PROVE  Inv'
<1>1. \/ orgLock' = orgLock /\ ~Inside(w)
      \/ Inside(w) /\ orgLock' = NoWorker
  BY IntakeAssumption DEF Abort, Inv, IntakeInv, LockIsHeld
<1>2. ListOK'
  BY DEF Abort, Inv, ListOK, clientVars
<1> QED BY <1>1, <1>2, AnswerSafe DEF Abort

LEMMA CreateClientLookupSafe ==
    ASSUME Inv, NEW w \in Workers, CreateClientLookup(w)
    PROVE  Inv'
<1>1. ~Inside(w) /\ req[w].op = "createClient"
  BY DEF CreateClientLookup, At, Inside
<1>2. CASE Answer(w, TRUE)
  BY <1>1, <1>2, RefuseSafe DEF CreateClientLookup
<1>3. CASE Goto(w, "commit")
  <2>1. Points([req[w] EXCEPT !.pc = "commit"]) /\ Counted([req[w] EXCEPT !.pc = "commit"])
    BY <1>1 DEF Points, Counted, Admitted, Inv, IntakeInv, RequestsPoint, TypeOK, Requests
  <2> QED BY <1>1, <1>3, <2>1, GotoSafe DEF CreateClientLookup
<1> QED BY <1>2, <1>3 DEF CreateClientLookup

LEMMA CreateMatterLookupSafe ==
    ASSUME Inv, NEW w \in Workers, CreateMatterLookup(w)
    PROVE  Inv'
<1>1. ~Inside(w) /\ req[w].op = "createMatter"
  BY DEF CreateMatterLookup, At, Inside
<1>2. CASE Answer(w, TRUE)
  BY <1>1, <1>2, RefuseSafe DEF CreateMatterLookup
<1>3. CASE Goto(w, "admit")
  <2>1. Points([req[w] EXCEPT !.pc = "admit"]) /\ Counted([req[w] EXCEPT !.pc = "admit"])
    BY <1>1 DEF Points, Counted, Admitted, Inv, IntakeInv, RequestsPoint, TypeOK, Requests
  <2> QED BY <1>1, <1>3, <2>1, GotoSafe DEF CreateMatterLookup
<1> QED BY <1>2, <1>3 DEF CreateMatterLookup

LEMMA CreateMatterAdmitSafe ==
    ASSUME Inv, NEW w \in Workers, CreateMatterAdmit(w)
    PROVE  Inv'
<1>1. ~Inside(w) /\ req[w].op = "createMatter" /\ orgLock = NoWorker
  BY DEF CreateMatterAdmit, At, Inside
<1>2. CASE Answer(w, FALSE) /\ UNCHANGED orgLock
  BY <1>1, <1>2, RefuseSafe DEF CreateMatterAdmit
<1>3. CASE /\ CheckMatterLimit
           /\ orgLock' = w
           /\ req' = [req EXCEPT ![w].pc = "insert", ![w].ref = GenerateReference,
                                 ![w].limit = maxMatters]
           /\ UNCHANGED form
  <2> DEFINE r == [req[w] EXCEPT !.pc = "insert", !.ref = GenerateReference, !.limit = maxMatters]
  <2>1. GenerateReference \in Nat /\ maxMatters \in Nat
    BY FiniteTables, IntakeAssumption DEF GenerateReference, Inv, IntakeInv, TypeOK
  <2>2. r \in Requests /\ req' = [req EXCEPT ![w] = r]
    BY <1>3, <2>1 DEF Inv, IntakeInv, TypeOK, Requests
  <2>3. r.op = "createMatter" /\ r.pc = "insert" /\ r.ref = GenerateReference
        /\ r.limit = maxMatters
        /\ r.cl = req[w].cl /\ r.key = req[w].key /\ r.mount = req[w].mount
    BY <1>1 DEF Inv, IntakeInv, TypeOK, Requests
  <2>4. Points(r) /\ Admitted(r)
    BY <1>1, <2>3 DEF Points, Admitted, Inv, IntakeInv, RequestsPoint
  <2>5. Cardinality(Limited) < maxMatters
    <3>1. Limited \in SUBSET Active /\ IsFiniteSet(Active) /\ Cardinality(Active) \in Nat
      <4>1. Active \in SUBSET Matters /\ Limited \in SUBSET Active
        BY DEF Active, Limited
      <4> QED BY <4>1, IntakeAssumption, FS_Subset, FS_CardinalityType
    <3>2. Cardinality(Limited) <= Cardinality(Active)
      BY <3>1, FS_Subset
    <3> QED BY <1>3, <2>1, <3>1, <3>2, FiniteTables DEF CheckMatterLimit
  <2>6. Counted(r)
    BY <2>3, <2>5 DEF Counted, GenerateReference
  <2>7. FormsOK' /\ drawn' \in Keys /\ ListOK'
    BY <1>3 DEF CreateMatterAdmit, FormsOK, ListOK, clientVars, Inv, IntakeInv, TypeOK, KeysAreMounts
  <2> HIDE DEF r
  <2> QED BY <1>1, <1>3, <2>2, <2>4, <2>6, <2>7, SessionSafe DEF CreateMatterAdmit
<1> QED BY <1>2, <1>3 DEF CreateMatterAdmit

LEMMA CreateMatterInsertSafe ==
    ASSUME Inv, NEW w \in Workers, CreateMatterInsert(w)
    PROVE  Inv'
<1>1. Inside(w) /\ req[w].op = "createMatter"
  BY DEF CreateMatterInsert, At, Inside
<1>2. CASE Answer(w, FALSE) /\ orgLock' = NoWorker
  <2>1. ListOK'
    BY DEF CreateMatterInsert, Inv, ListOK, clientVars
  <2> QED BY <1>1, <1>2, <2>1, AnswerSafe DEF CreateMatterInsert
<1>3. CASE /\ ClientRowExists(req[w].cl) /\ ~MatterKeyTaken(req[w].key)
           /\ Goto(w, "commit")
           /\ UNCHANGED orgLock
  <2> DEFINE r == [req[w] EXCEPT !.pc = "commit"]
  <2>1. r.op = req[w].op /\ r.pc = "commit" /\ r.ref = req[w].ref /\ r.limit = req[w].limit
        /\ r.cl = req[w].cl /\ r.key = req[w].key /\ r.mount = req[w].mount
    BY DEF Inv, IntakeInv, TypeOK, Requests
  <2>2. Points(r)
    BY <1>1, <1>3, <2>1 DEF Points, Inv, IntakeInv, RequestsPoint
  <2>3. Counted(r)
    BY <1>1, <2>1 DEF Counted, Inv, RoomIsKept, ReferencesAreCounts
  <2> QED BY <1>1, <1>3, <2>2, <2>3, GotoSafe DEF CreateMatterInsert
<1> QED BY <1>2, <1>3 DEF CreateMatterInsert

LEMMA DeleteOrArchiveCountSafe ==
    ASSUME Inv, NEW w \in Workers, DeleteOrArchiveCount(w)
    PROVE  Inv'
<1>1. ~Inside(w) /\ req[w].op = "deleteClient"
  BY DEF DeleteOrArchiveCount, At, Inside
<1>2. CASE Answer(w, FALSE)
  BY <1>1, <1>2, RefuseSafe DEF DeleteOrArchiveCount
<1>3. CASE /\ req' = [req EXCEPT ![w].pc = "commit", ![w].empty = (MattersOf(req[w].cl) = {})]
           /\ UNCHANGED form
  <2> DEFINE r == [req[w] EXCEPT !.pc = "commit", !.empty = (MattersOf(req[w].cl) = {})]
  <2>1. r \in Requests /\ req' = [req EXCEPT ![w] = r]
    BY <1>3 DEF Inv, IntakeInv, TypeOK, Requests
  <2>2. r.op = "deleteClient" /\ r.cl = req[w].cl
    BY <1>1 DEF Inv, IntakeInv, TypeOK, Requests
  <2>3. Points(r) /\ ~Admitted(r) /\ Counted(r)
    BY <1>1, <2>2 DEF Points, Admitted, Counted, Inv, IntakeInv, RequestsPoint
  <2>4. FormsOK' /\ drawn' \in Keys /\ ListOK'
    BY <1>3 DEF DeleteOrArchiveCount, FormsOK, ListOK, clientVars, Inv, IntakeInv, TypeOK, KeysAreMounts
  <2> HIDE DEF r
  <2> QED BY <1>1, <2>1, <2>3, <2>4, SessionSafe DEF DeleteOrArchiveCount
<1> QED BY <1>2, <1>3 DEF DeleteOrArchiveCount

LEMMA RecheckClientSafe ==
    ASSUME Inv, NEW w \in Workers, RecheckClient(w)
    PROVE  Inv'
<1>1. ~Inside(w)
  BY DEF RecheckClient, At, Inside
<1>2. ListOK'
  BY DEF RecheckClient, Inv, ListOK, clientVars
<1> QED BY <1>1, <1>2, AnswerSafe DEF RecheckClient

LEMMA LoadsSafe ==
    ASSUME Inv, NEW w \in Workers, ChangeStatusLoad(w) \/ DeleteMatterLoad(w)
    PROVE  Inv'
<1>1. ~Inside(w) /\ req[w].op \in {"changeStatus", "deleteMatter"}
  BY DEF ChangeStatusLoad, DeleteMatterLoad, At, Inside
<1>2. CASE Answer(w, FALSE)
  BY <1>1, <1>2, RefuseSafe DEF ChangeStatusLoad, DeleteMatterLoad
<1>3. CASE Goto(w, "commit")
  <2>1. Points([req[w] EXCEPT !.pc = "commit"]) /\ Counted([req[w] EXCEPT !.pc = "commit"])
    BY <1>1 DEF Points, Counted, Admitted, Inv, IntakeInv, RequestsPoint, TypeOK, Requests
  <2> QED BY <1>1, <1>3, <2>1, GotoSafe DEF ChangeStatusLoad, DeleteMatterLoad
<1> QED BY <1>2, <1>3 DEF ChangeStatusLoad, DeleteMatterLoad

(***************************************************************************)
(* Handlers that write                                                     *)
(***************************************************************************)

\* A write that makes no matter: rows never become absent, and those an
\* insert refers to stay.
LEMMA WriteSafe ==
    ASSUME Inv, NEW w \in Workers, NEW r \in Requests,
           req' = [req EXCEPT ![w] = r], ~Inside(w), ~Admitted(r), Points(r),
           FormsOK', UNCHANGED <<matterOf, matterRef, matterKey, matterBy, maxMatters, orgLock, drawn, shown>>,
           client' \in [Clients -> ClientStates], matter' \in [Matters -> MatterStates],
           clientKey' \in [Clients -> Keys], clientBy' = clientKey', reopened' \subseteq Matters,
           \A c \in Clients : client[c] # "absent" => client'[c] # "absent",
           \A m \in Matters : matter[m] # "absent" => matter'[m] # "absent",
           Stored' \subseteq Stored, Limited' \subseteq Limited,
           NoneDeleted' => NoneDeleted /\ Stored' = Stored,
           MattersHaveClient',
           \A v \in Workers : At(v, "createMatter", "commit") => Live(client'[req[v].cl]),
           \A c, d \in Clients : Live(client'[c]) /\ Live(client'[d]) /\ clientBy'[c] = clientBy'[d]
                               /\ clientBy'[c] # 0 => c = d
    PROVE  Inv'
<1>1. req'[w] = r /\ \A v \in Workers \ {w} : req'[v] = req[v]
  BY DEF Inv, IntakeInv, TypeOK
<1>2. TypeOK' /\ KeysAreMounts' /\ ListOK'
  BY DEF Inv, IntakeInv, TypeOK, KeysAreMounts, FormsOK, ListOK
<1>3. LockIsHeld'
  BY <1>1 DEF Inv, IntakeInv, LockIsHeld, Inside, Admitted
<1>4. RequestsPoint'
  <2>1. \A v \in Workers \ {w} : (At(v, "createMatter", "commit") => ~MatterKeyTaken(req[v].key))'
    BY <1>1 DEF Inv, IntakeInv, RequestsPoint, At, MatterKeyTaken
  <2>2. \A v \in Workers \ {w} : (At(v, "createMatter", "commit") => ClientRowExists(req[v].cl))'
    BY <1>1 DEF At, ClientRowExists
  <2>3. ~At(w, "createMatter", "commit")'
    BY <1>1 DEF At, Admitted
  <2> QED
    BY <1>1, <2>1, <2>2, <2>3 DEF Inv, IntakeInv, RequestsPoint, Points, At, ClientRowExists, MatterKeyTaken
<1>5. OneRowPerMount'
  BY DEF Inv, OneRowPerMount
<1>6. ReferencesAreUnique'
  BY DEF Inv, ReferencesAreUnique, NoneDeleted
<1>7. RoomIsKept'
  <2>1. Cardinality(Limited') <= Cardinality(Limited)
    BY FiniteTables, FS_Subset
  <2>2. \A v \in Workers : Inside(v)' => Inside(v) /\ req'[v].limit = req[v].limit
    BY <1>1 DEF Inside, Admitted
  <2>3. \A v \in Workers : req[v].limit \in Nat
    BY RequestFields DEF Inv, IntakeInv, TypeOK
  <2> QED BY <2>1, <2>2, <2>3, FiniteTables, FiniteTablesNext DEF Inv, RoomIsKept
<1>8. ReferencesAreCounts'
  BY <1>1 DEF Inv, ReferencesAreCounts, Inside, Admitted
<1> QED BY <1>2, <1>3, <1>4, <1>5, <1>6, <1>7, <1>8 DEF Inv, IntakeInv

\* The write is the last step of the handler.
LEMMA LastWriteSafe ==
    ASSUME Inv, NEW w \in Workers, NEW ok \in BOOLEAN, Answer(w, ok), ~Inside(w),
           UNCHANGED <<matterOf, matterRef, matterKey, matterBy, maxMatters, orgLock, drawn, shown>>,
           client' \in [Clients -> ClientStates], matter' \in [Matters -> MatterStates],
           clientKey' \in [Clients -> Keys], clientBy' = clientKey', reopened' \subseteq Matters,
           \A c \in Clients : client[c] # "absent" => client'[c] # "absent",
           \A m \in Matters : matter[m] # "absent" => matter'[m] # "absent",
           Stored' \subseteq Stored, Limited' \subseteq Limited,
           NoneDeleted' => NoneDeleted /\ Stored' = Stored,
           \A c \in Clients : Live(client[c]) => Live(client'[c]),
           \A c, d \in Clients : Live(client'[c]) /\ Live(client'[d]) /\ clientBy'[c] = clientBy'[d]
                               /\ clientBy'[c] # 0 => c = d
    PROVE  Inv'
<1>1. FormsOK' /\ req' = [req EXCEPT ![w] = Idle]
  BY AnswerForms
<1>2. MattersHaveClient'
  BY DEF Inv, MattersHaveClient, ClientRowExists
<1>3. \A v \in Workers : At(v, "createMatter", "commit") => Live(client'[req[v].cl])
  <2> SUFFICES ASSUME NEW v \in Workers, At(v, "createMatter", "commit")
               PROVE  Live(client'[req[v].cl])
    OBVIOUS
  <2>1. v # w
    BY DEF Inside, At
  <2>2. req'[v] = req[v]
    BY <1>1, <2>1 DEF Inv, IntakeInv, TypeOK
  <2>3. req[v].cl \in Clients /\ Live(client[req[v].cl])
    BY DEF Inv, IntakeInv, RequestsPoint, At, ClientRowExists
  <2> QED BY <2>2, <2>3 DEF ClientRowExists
<1> QED BY <1>1, <1>2, <1>3, IdleSafe, WriteSafe

LEMMA ClientFacts ==
    ASSUME Inv
    PROVE  /\ client \in [Clients -> ClientStates] /\ clientKey \in [Clients -> Keys]
           /\ clientBy = clientKey /\ matterBy = matterKey
           /\ matter \in [Matters -> MatterStates] /\ reopened \subseteq Matters
<1>1. clientKey \in [Clients -> Keys] /\ clientBy \in [Clients -> Keys]
      /\ matterKey \in [Matters -> Keys] /\ matterBy \in [Matters -> Keys]
  BY DEF Inv, IntakeInv, TypeOK
<1>2. (\A c \in Clients : clientKey[c] = clientBy[c]) /\ (\A m \in Matters : matterKey[m] = matterBy[m])
  BY DEF Inv, IntakeInv, KeysAreMounts
<1>3. clientBy = clientKey /\ matterBy = matterKey
  BY <1>1, <1>2
<1> QED BY <1>1, <1>3 DEF Inv, IntakeInv, TypeOK

LEMMA MattersUntouched ==
    ASSUME UNCHANGED <<matterVars, reopened>>
    PROVE  /\ matter' = matter /\ reopened' = reopened /\ Stored' = Stored /\ Limited' = Limited
           /\ NoneDeleted' = NoneDeleted
           /\ UNCHANGED <<matterOf, matterRef, matterKey, matterBy>>
BY DEF matterVars, Stored, Limited, Active, NoneDeleted

LEMMA CreateClientCommitSafe ==
    ASSUME Inv, NEW w \in Workers, CreateClientCommit(w)
    PROVE  Inv'
<1>1. ~Inside(w) /\ Answer(w, TRUE) /\ UNCHANGED <<matterVars, maxMatters, orgLock, drawn, shown, reopened>>
  BY DEF CreateClientCommit, At, Inside
<1>2. CASE UNCHANGED clientVars
  BY <1>1, <1>2, RefuseSafe
<1>3. ASSUME NEW c \in Clients,
             ~ClientKeyTaken(req[w].key),
             client[c] = "absent",
             client' = [client EXCEPT ![c] = "active"],
             clientKey' = [clientKey EXCEPT ![c] = req[w].key],
             clientBy' = [clientBy EXCEPT ![c] = req[w].mount]
      PROVE  Inv'
  <2>1. req[w].key \in Keys /\ req[w].key = req[w].mount
    BY DEF CreateClientCommit, At, Inv, IntakeInv, TypeOK, Requests, RequestsPoint
  <2>2. client' \in [Clients -> ClientStates] /\ clientKey' \in [Clients -> Keys] /\ clientBy' = clientKey'
    BY <1>3, <2>1, ClientFacts DEF ClientStates
  <2>3. /\ client'[c] = "active" /\ clientBy'[c] = req[w].key
        /\ \A d \in Clients \ {c} : client'[d] = client[d] /\ clientBy'[d] = clientKey[d]
    BY <1>3, <2>1, ClientFacts
  <2>4. \A d \in Clients : /\ client[d] # "absent" => client'[d] # "absent"
                           /\ Live(client[d]) => Live(client'[d])
    BY <1>3, <2>3 DEF Live
  <2>5. \A d, e \in Clients : Live(client'[d]) /\ Live(client'[e]) /\ clientBy'[d] = clientBy'[e]
                            /\ clientBy'[d] # 0 => d = e
    <3>1. \A d \in Clients \ {c} : Live(client'[d]) => clientBy'[d] # req[w].key
      BY <1>3, <2>3 DEF ClientKeyTaken
    <3> QED BY <2>3, <3>1, ClientFacts DEF Inv, OneRowPerMount
  <2>6. /\ matter' \in [Matters -> MatterStates] /\ reopened' \subseteq Matters
        /\ \A m \in Matters : matter[m] # "absent" => matter'[m] # "absent"
        /\ Stored' \subseteq Stored /\ Limited' \subseteq Limited
        /\ NoneDeleted' => NoneDeleted /\ Stored' = Stored
        /\ UNCHANGED <<matterOf, matterRef, matterKey, matterBy, maxMatters, orgLock, drawn, shown>>
    BY <1>1, ClientFacts, MattersUntouched
  <2> QED BY <1>1, <2>2, <2>4, <2>5, <2>6, LastWriteSafe
<1> QED BY <1>2, <1>3 DEF CreateClientCommit

LEMMA DeleteCommitSafe ==
    ASSUME Inv, NEW w \in Workers, DeleteCommit(w)
    PROVE  Inv'
<1> DEFINE r == [req[w] EXCEPT !.pc = "recheck"]
<1>1. ~Inside(w) /\ req[w].op = "deleteClient" /\ req[w].cl \in Clients /\ client[req[w].cl] # "absent"
  BY DEF DeleteCommit, At, Inside, Inv, IntakeInv, RequestsPoint
<1> PICK c \in Clients : c = req[w].cl
  BY <1>1
<1>2. /\ client' = [client EXCEPT ![c] = "deleted"]
      /\ matter' = [m \in Matters |-> IF m \in MattersOf(c) THEN "deleted" ELSE matter[m]]
      /\ ~ClientReferenced(c)
      /\ UNCHANGED <<clientKey, clientBy, matterOf, matterRef, matterKey, matterBy,
                     maxMatters, orgLock, drawn, shown, reopened, form>>
  BY DEF DeleteCommit, Goto
<1>3. r \in Requests /\ req' = [req EXCEPT ![w] = r] /\ r.op = "deleteClient" /\ r.cl = req[w].cl
  BY <1>1 DEF DeleteCommit, Goto, Inv, IntakeInv, TypeOK, Requests
<1>4. ~Admitted(r) /\ Points(r)
  BY <1>1, <1>3 DEF Admitted, Points
<1>5. FormsOK'
  BY <1>2 DEF FormsOK, Inv, IntakeInv, TypeOK, KeysAreMounts
<1>6. client' \in [Clients -> ClientStates] /\ matter' \in [Matters -> MatterStates]
  BY <1>2, ClientFacts DEF ClientStates, MatterStates
<1>7. \A d \in Clients : /\ client[d] # "absent" => client'[d] # "absent"
                         /\ Live(client'[d]) => Live(client[d]) /\ d # c
                         /\ d # c => client'[d] = client[d]
  BY <1>2, ClientFacts DEF Live
<1>8. \A m \in Matters : /\ matter[m] # "absent" => matter'[m] # "absent"
                         /\ m \in MattersOf(c) => matter'[m] = "deleted"
                         /\ m \notin MattersOf(c) => matter'[m] = matter[m]
  BY <1>2
<1>9. Stored' = Stored \ MattersOf(c) /\ Limited' \subseteq Limited
  BY <1>2, <1>8 DEF Stored, Limited, Active, Live
<1>10. NoneDeleted' => NoneDeleted /\ Stored' = Stored
  <2> SUFFICES ASSUME NoneDeleted' PROVE NoneDeleted /\ Stored' = Stored
    OBVIOUS
  <2>1. MattersOf(c) = {}
    BY <1>8 DEF NoneDeleted, MattersOf, Stored
  <2> QED BY <1>8, <1>9, <2>1 DEF NoneDeleted
<1>11. MattersHaveClient'
  <2> SUFFICES ASSUME NEW m \in Stored' PROVE matterOf[m] \in Clients /\ Live(client'[matterOf[m]])
    BY <1>2 DEF MattersHaveClient, ClientRowExists
  <2>1. m \in Stored /\ matterOf[m] # c
    BY <1>9 DEF MattersOf
  <2> QED BY <1>7, <2>1 DEF Inv, MattersHaveClient, ClientRowExists
<1>12. \A v \in Workers : At(v, "createMatter", "commit") => Live(client'[req[v].cl])
  <2> SUFFICES ASSUME NEW v \in Workers, At(v, "createMatter", "commit")
               PROVE  Live(client'[req[v].cl])
    OBVIOUS
  <2>1. v # w /\ req[v].cl # c
    BY <1>1, <1>2 DEF At, ClientReferenced
  <2>2. req'[v] = req[v]
    BY <1>3, <2>1 DEF Inv, IntakeInv, TypeOK
  <2>3. req[v].cl \in Clients /\ Live(client[req[v].cl])
    BY DEF Inv, IntakeInv, RequestsPoint, At, ClientRowExists
  <2> QED BY <1>7, <2>1, <2>2, <2>3 DEF ClientRowExists
<1>13. \A d, e \in Clients : Live(client'[d]) /\ Live(client'[e]) /\ clientBy'[d] = clientBy'[e]
                           /\ clientBy'[d] # 0 => d = e
  BY <1>2, <1>7 DEF Inv, OneRowPerMount
<1> HIDE DEF r
<1>14. Stored' \subseteq Stored /\ reopened' \subseteq Matters /\ clientKey' \in [Clients -> Keys] /\ clientBy' = clientKey'
  BY <1>2, <1>9, ClientFacts
<1> QED BY <1>1, <1>2, <1>3, <1>4, <1>5, <1>6, <1>7, <1>8, <1>9, <1>10, <1>11, <1>12, <1>13, <1>14, WriteSafe

LEMMA ArchiveCommitSafe ==
    ASSUME Inv, NEW w \in Workers, ArchiveCommit(w)
    PROVE  Inv'
<1>1. ~Inside(w) /\ req[w].op = "deleteClient" /\ req[w].cl \in Clients
      /\ UNCHANGED <<clientKey, clientBy, matterVars, maxMatters, orgLock, drawn, shown, reopened>>
  BY DEF ArchiveCommit, At, Inside, Inv, IntakeInv, RequestsPoint
<1>2. CASE Answer(w, FALSE) /\ UNCHANGED client
  BY <1>1, <1>2, RefuseSafe DEF clientVars
<1>3. CASE /\ ClientRowExists(req[w].cl)
           /\ client' = [client EXCEPT ![req[w].cl] = "archived"]
           /\ Goto(w, "recheck")
  <2> DEFINE r == [req[w] EXCEPT !.pc = "recheck"]
  <2>1. r \in Requests /\ req' = [req EXCEPT ![w] = r] /\ r.op = "deleteClient" /\ r.cl = req[w].cl
    BY <1>1, <1>3 DEF Goto, Inv, IntakeInv, TypeOK, Requests
  <2>2. ~Admitted(r) /\ Points(r)
    BY <1>1, <1>3, <2>1 DEF Admitted, Points, ClientRowExists, Live
  <2>3. FormsOK'
    BY <1>3 DEF Goto, FormsOK, Inv, IntakeInv, TypeOK, KeysAreMounts
  <2>4. client' \in [Clients -> ClientStates]
    BY <1>3, ClientFacts DEF ClientStates
  <2>5. \A d \in Clients : /\ client[d] # "absent" => client'[d] # "absent"
                           /\ Live(client'[d]) <=> Live(client[d])
    BY <1>3, ClientFacts DEF ClientRowExists, Live
  <2>6. MattersHaveClient'
    BY <1>1, <2>5, MattersUntouched DEF Inv, MattersHaveClient, ClientRowExists
  <2>7. \A v \in Workers : At(v, "createMatter", "commit") => Live(client'[req[v].cl])
    <3> SUFFICES ASSUME NEW v \in Workers, At(v, "createMatter", "commit")
                 PROVE  Live(client'[req[v].cl])
      OBVIOUS
    <3>1. req'[v] = req[v]
      BY <1>1, <2>1 DEF At, Inv, IntakeInv, TypeOK
    <3>2. req[v].cl \in Clients /\ Live(client[req[v].cl])
      BY DEF Inv, IntakeInv, RequestsPoint, At, ClientRowExists
    <3> QED BY <2>5, <3>1, <3>2 DEF ClientRowExists
  <2>8. \A d, e \in Clients : Live(client'[d]) /\ Live(client'[e]) /\ clientBy'[d] = clientBy'[e]
                            /\ clientBy'[d] # 0 => d = e
    BY <1>1, <2>5 DEF Inv, OneRowPerMount
  <2> HIDE DEF r
  <2>9. /\ matter' \in [Matters -> MatterStates] /\ reopened' \subseteq Matters
        /\ \A m \in Matters : matter[m] # "absent" => matter'[m] # "absent"
        /\ Stored' \subseteq Stored /\ Limited' \subseteq Limited
        /\ NoneDeleted' => NoneDeleted /\ Stored' = Stored
        /\ clientKey' \in [Clients -> Keys] /\ clientBy' = clientKey'
        /\ UNCHANGED <<matterOf, matterRef, matterKey, matterBy, maxMatters, orgLock, drawn, shown>>
    BY <1>1, ClientFacts, MattersUntouched
  <2> QED BY <1>1, <2>1, <2>2, <2>3, <2>4, <2>5, <2>6, <2>7, <2>8, <2>9, WriteSafe
<1> QED BY <1>2, <1>3 DEF ArchiveCommit

\* The writes of one matter's status: the clients stay as they are.
LEMMA StatusWriteSafe ==
    ASSUME Inv, NEW w \in Workers, Answer(w, TRUE), ~Inside(w),
           UNCHANGED <<clientVars, matterOf, matterRef, matterKey, matterBy, maxMatters, orgLock, drawn, shown>>,
           matter' \in [Matters -> MatterStates], reopened' \subseteq Matters,
           \A m \in Matters : matter[m] # "absent" => matter'[m] # "absent",
           Stored' \subseteq Stored, Limited' \subseteq Limited,
           NoneDeleted' => NoneDeleted /\ Stored' = Stored
    PROVE  Inv'
<1>1. /\ client' = client /\ clientKey' = clientKey /\ clientBy' = clientBy
      /\ client' \in [Clients -> ClientStates] /\ clientKey' \in [Clients -> Keys] /\ clientBy' = clientKey'
  BY ClientFacts DEF clientVars
<1>2. /\ \A c \in Clients : client[c] # "absent" => client'[c] # "absent"
      /\ \A c \in Clients : Live(client[c]) => Live(client'[c])
      /\ \A c, d \in Clients : Live(client'[c]) /\ Live(client'[d]) /\ clientBy'[c] = clientBy'[d]
                              /\ clientBy'[c] # 0 => c = d
  BY <1>1 DEF Inv, OneRowPerMount
<1> QED BY <1>1, <1>2, LastWriteSafe

LEMMA ChangeStatusCommitSafe ==
    ASSUME Inv, NEW w \in Workers, ChangeStatusCommit(w)
    PROVE  Inv'
<1>1. /\ ~Inside(w) /\ req[w].mt \in Matters /\ req[w].to \in {"open", "archived"}
      /\ UNCHANGED <<clientVars, matterOf, matterRef, matterKey, matterBy, maxMatters, orgLock, drawn, shown>>
  BY DEF ChangeStatusCommit, At, Inside, Inv, IntakeInv, RequestsPoint
<1> PICK m \in Matters : m = req[w].mt
  BY <1>1
<1> PICK to \in {"open", "archived"} : to = req[w].to
  BY <1>1
<1>2. CASE Answer(w, FALSE) /\ UNCHANGED <<matter, reopened>>
  BY <1>1, <1>2, RefuseSafe DEF matterVars
<1>3. CASE /\ Live(matter[m])
           /\ matter' = [matter EXCEPT ![m] = to]
           /\ reopened' = IF matter[m] = "archived" THEN reopened \union {m} ELSE reopened
           /\ Answer(w, TRUE)
  <2>1. matter' \in [Matters -> MatterStates] /\ reopened' \subseteq Matters
    BY <1>3, ClientFacts DEF MatterStates
  <2>2. matter'[m] = to /\ \A n \in Matters \ {m} : matter'[n] = matter[n]
    BY <1>3, ClientFacts
  <2>3. Live(to) /\ to # "absent" /\ to # "deleted" /\ matter[m] # "deleted"
    BY <1>3 DEF Live
  <2>4. Stored' = Stored
    BY <1>3, <2>2, <2>3 DEF Stored
  <2>5. Limited' \subseteq Limited
    <3>1. m \in Limited' => m \in Limited
      BY <1>3, ClientFacts DEF Limited, Active, Live, MatterStates
    <3>2. \A n \in Matters \ {m} : n \in Limited' => n \in Limited
      BY <1>3, <2>2 DEF Limited, Active
    <3> QED BY <3>1, <3>2 DEF Limited, Active
  <2>6. NoneDeleted' => NoneDeleted /\ Stored' = Stored
    BY <2>2, <2>3, <2>4 DEF NoneDeleted
  <2>7. \A n \in Matters : matter[n] # "absent" => matter'[n] # "absent"
    BY <2>2, <2>3
  <2> QED BY <1>1, <1>3, <2>1, <2>4, <2>5, <2>6, <2>7, StatusWriteSafe
<1> QED BY <1>2, <1>3 DEF ChangeStatusCommit

LEMMA DeleteMatterCommitSafe ==
    ASSUME Inv, NEW w \in Workers, DeleteMatterCommit(w)
    PROVE  Inv'
<1>1. /\ ~Inside(w) /\ req[w].mt \in Matters /\ Answer(w, TRUE)
      /\ UNCHANGED <<clientVars, matterOf, matterRef, matterKey, matterBy, maxMatters, orgLock, drawn, shown, reopened>>
  BY DEF DeleteMatterCommit, At, Inside, Inv, IntakeInv, RequestsPoint
<1> PICK m \in Matters : m = req[w].mt
  BY <1>1
<1>2. matter' = [matter EXCEPT ![m] = "deleted"]
  BY DEF DeleteMatterCommit
<1>3. matter' \in [Matters -> MatterStates] /\ reopened' \subseteq Matters
  BY <1>1, <1>2, ClientFacts DEF MatterStates
<1>4. matter'[m] = "deleted" /\ \A n \in Matters \ {m} : matter'[n] = matter[n]
  BY <1>2, ClientFacts
<1>5. Stored' \subseteq Stored /\ Limited' \subseteq Limited
  BY <1>1, <1>4 DEF Stored, Limited, Active, Live
<1>6. ~NoneDeleted'
  BY <1>4 DEF NoneDeleted
<1>7. \A n \in Matters : matter[n] # "absent" => matter'[n] # "absent"
  BY <1>4
<1> QED BY <1>1, <1>3, <1>5, <1>6, <1>7, StatusWriteSafe

\* The insert becomes visible and the organisation is released: the new
\* reference is the count at the time, as nobody else could add or count.
LEMMA CreateMatterCommitSafe ==
    ASSUME Inv, NEW w \in Workers, CreateMatterCommit(w)
    PROVE  Inv'
<1> DEFINE q == req[w]
<1>1. /\ q \in Requests /\ q.op = "createMatter" /\ q.pc = "commit"
      /\ Inside(w) /\ orgLock = w /\ \A v \in Workers \ {w} : ~Inside(v)
  BY DEF CreateMatterCommit, At, Inside, Inv, IntakeInv, TypeOK, LockIsHeld
<1>2. q.cl \in Clients /\ ClientRowExists(q.cl) /\ ~MatterKeyTaken(q.key) /\ q.key = q.mount
  BY <1>1 DEF Inv, IntakeInv, RequestsPoint, At
<1>3. /\ FormsOK' /\ req' = [req EXCEPT ![w] = Idle] /\ orgLock' = NoWorker
      /\ UNCHANGED <<clientVars, maxMatters, drawn, shown, reopened>>
  BY AnswerForms DEF CreateMatterCommit
<1> PICK m \in Matters :
       /\ matter[m] = "absent"
       /\ matter' = [matter EXCEPT ![m] = "intake"]
       /\ matterOf' = [matterOf EXCEPT ![m] = q.cl]
       /\ matterRef' = [matterRef EXCEPT ![m] = q.ref]
       /\ matterKey' = [matterKey EXCEPT ![m] = q.key]
       /\ matterBy' = [matterBy EXCEPT ![m] = q.mount]
  BY DEF CreateMatterCommit
<1>4. /\ matter'[m] = "intake" /\ matterOf'[m] = q.cl /\ matterRef'[m] = q.ref
      /\ matterKey'[m] = q.key /\ matterBy'[m] = q.key
      /\ \A n \in Matters \ {m} : /\ matter'[n] = matter[n] /\ matterOf'[n] = matterOf[n]
                                  /\ matterRef'[n] = matterRef[n] /\ matterKey'[n] = matterKey[n]
                                  /\ matterBy'[n] = matterBy[n]
  BY <1>2 DEF Inv, IntakeInv, TypeOK
<1>5. req'[w] = Idle /\ \A v \in Workers \ {w} : req'[v] = req[v]
  BY <1>3 DEF Inv, IntakeInv, TypeOK
<1>6. \A v \in Workers : ~Inside(v)'
  BY <1>1, <1>5, IdleSafe DEF Inside
<1>7. Stored' = Stored \union {m} /\ m \notin Stored
  BY <1>4 DEF Stored, Live
<1>8. TypeOK'
  <2>1. q.ref \in Nat /\ q.key \in Keys /\ q.mount \in Keys
    BY <1>1, RequestFields
  <2>2. matter' \in [Matters -> MatterStates] /\ matterOf' \in [Matters -> Clients \union {NoClient}]
    BY <1>2 DEF Inv, IntakeInv, TypeOK, MatterStates
  <2>3. /\ matterRef' \in [Matters -> Nat] /\ matterKey' \in [Matters -> Keys]
        /\ matterBy' \in [Matters -> Keys]
    BY <2>1 DEF Inv, IntakeInv, TypeOK
  <2>4. req' \in [Workers -> Requests] /\ form' \in [Forms -> FormStates] /\ orgLock' \in Workers \union {NoWorker}
    BY <1>3, IdleSafe DEF FormsOK, Inv, IntakeInv, TypeOK
  <2> QED BY <1>3, <2>2, <2>3, <2>4 DEF Inv, IntakeInv, TypeOK, clientVars
<1>9. LockIsHeld'
  BY <1>3, <1>6, IntakeAssumption DEF LockIsHeld
<1>10. RequestsPoint'
  <2>1. \A v \in Workers : ~At(v, "createMatter", "commit")'
    BY <1>6 DEF At, Inside
  <2> QED BY <1>3, <1>4, <1>5, <2>1, IdleSafe DEF Inv, IntakeInv, RequestsPoint, clientVars
<1>11. KeysAreMounts' /\ ListOK'
  <2>1. \A n \in Matters : matterKey'[n] = matterBy'[n]
    BY <1>4 DEF Inv, IntakeInv, KeysAreMounts
  <2> QED BY <1>3, <2>1 DEF Inv, IntakeInv, KeysAreMounts, FormsOK, ListOK, clientVars
<1>12. MattersHaveClient'
  BY <1>2, <1>3, <1>4, <1>7 DEF Inv, MattersHaveClient, ClientRowExists, clientVars, Stored
<1>13. OneRowPerMount'
  <2>1. \A n \in Stored : matterBy'[n] = matterBy[n] /\ matterBy[n] # q.key
    <3>1. \A n \in Stored : n \in Matters /\ n # m /\ matterKey[n] # q.key
      BY <1>2, <1>7 DEF MatterKeyTaken, Stored
    <3> QED BY <1>4, <3>1, ClientFacts
  <2>2. \A n, o \in Stored' : matterBy'[n] = matterBy'[o] => n = o
    BY <1>4, <1>7, <2>1 DEF Inv, OneRowPerMount
  <2>3. client' = client /\ clientBy' = clientBy
    BY <1>3 DEF clientVars
  <2> QED BY <2>2, <2>3 DEF Inv, OneRowPerMount
<1>14. RoomIsKept'
  BY <1>6 DEF RoomIsKept
<1>15. Cardinality(Stored') = Cardinality(Stored) + 1
  BY <1>7, FiniteTables, FS_AddElement
<1>16. ASSUME NoneDeleted'
       PROVE  /\ NoneDeleted /\ matterRef'[m] = Cardinality(Stored) + 1
              /\ \A n \in Stored : matterRef'[n] = matterRef[n] /\ matterRef[n] \in Nat
                                 /\ matterRef[n] <= Cardinality(Stored)
  <2>1. NoneDeleted
    BY <1>4, <1>16 DEF NoneDeleted
  <2>2. q.ref = Cardinality(Stored) + 1 /\ \A n \in Stored : matterRef[n] <= Cardinality(Stored)
    BY <1>1, <2>1 DEF Inv, ReferencesAreCounts
  <2>3. \A n \in Stored : n \in Matters /\ n # m /\ matterRef[n] \in Nat
    BY <1>7 DEF Stored, Inv, IntakeInv, TypeOK
  <2> QED BY <1>4, <2>1, <2>2, <2>3
<1>17. ReferencesAreCounts'
  <2> SUFFICES ASSUME NoneDeleted', NEW n \in Stored' PROVE matterRef'[n] <= Cardinality(Stored')
    BY <1>6 DEF ReferencesAreCounts
  <2>1. CASE n = m
    BY <1>15, <1>16, <2>1, FiniteTables
  <2>2. CASE n \in Stored
    BY <1>15, <1>16, <2>2, FiniteTables
  <2> QED BY <1>7, <2>1, <2>2
<1>18. ReferencesAreUnique'
  <2> SUFFICES ASSUME NoneDeleted', NEW n \in Stored', NEW o \in Stored', matterRef'[n] = matterRef'[o]
               PROVE  n = o
    BY DEF ReferencesAreUnique, NoneDeleted
  <2>1. \A i \in Nat : i <= Cardinality(Stored) => i # Cardinality(Stored) + 1
    BY FiniteTables
  <2>2. \A x \in Stored : matterRef'[x] # matterRef'[m]
    BY <1>16, <2>1
  <2>3. n \in Stored /\ o \in Stored => n = o
    BY <1>16 DEF Inv, ReferencesAreUnique, NoneDeleted
  <2> QED BY <1>7, <2>2, <2>3
<1> QED BY <1>8, <1>9, <1>10, <1>11, <1>12, <1>13, <1>14, <1>17, <1>18 DEF Inv, IntakeInv

(***************************************************************************)
(* The invariant                                                           *)
(***************************************************************************)
LEMMA InvInit == Init => Inv
<1> SUFFICES ASSUME Init PROVE Inv
  OBVIOUS
<1>1. Stored = {}
  BY DEF Init, Stored, Live
<1>2. \A w \in Workers : req[w] = Idle /\ ~Inside(w)
  BY DEF Init, Inside, Idle
<1>3. ClosedForm \in FormStates /\ ClosedForm.key = ClosedForm.mount /\ 0 \in Keys
  BY IntakeAssumption DEF ClosedForm, FormStates, Keys
<1>4. TypeOK
  BY <1>3, IdleSafe DEF Init, TypeOK, ClientStates, MatterStates
<1>5. LockIsHeld
  BY <1>2, IntakeAssumption DEF Init, LockIsHeld
<1>6. RequestsPoint
  BY <1>2, IdleSafe DEF RequestsPoint, At
<1>7. KeysAreMounts /\ ListOK
  BY <1>3 DEF Init, KeysAreMounts, ListOK
<1>8. MattersHaveClient /\ ReferencesAreUnique /\ ReferencesAreCounts
  BY <1>1, <1>2 DEF MattersHaveClient, ReferencesAreUnique, ReferencesAreCounts
<1>9. OneRowPerMount
  BY <1>1 DEF Init, OneRowPerMount, Live
<1>10. RoomIsKept
  BY <1>2 DEF RoomIsKept
<1> QED BY <1>4, <1>5, <1>6, <1>7, <1>8, <1>9, <1>10 DEF Inv, IntakeInv

LEMMA InvStep == Inv /\ [Next]_vars => Inv'
<1> SUFFICES ASSUME Inv, [Next]_vars PROVE Inv'
  OBVIOUS
<1>1. CASE UNCHANGED vars
  <2>1. FormsOK' /\ drawn' \in Keys /\ maxMatters' \in Plans /\ ListOK'
    BY <1>1 DEF vars, clientVars, FormsOK, ListOK, Inv, IntakeInv, TypeOK, KeysAreMounts
  <2> QED BY <1>1, <2>1, PagesSafe DEF vars
<1>2. ASSUME NEW f \in Forms,
             MountClientForm(f) \/ MountMatterForm(f) \/ LeaveForm(f) \/ LoseConnection(f)
      PROVE  Inv'
  BY <1>2, MountSafe, LeaveFormSafe, LoseConnectionSafe
<1>3. ASSUME NEW f \in Forms, NEW w \in Workers,
             SubmitClient(f, w) \/ \E c \in Clients : SubmitMatter(f, w, c)
      PROVE  Inv'
  BY <1>3, SubmitClientSafe, SubmitMatterSafe
<1>4. ASSUME NEW w \in Workers,
             \/ \E c \in Clients : HandleArchive(w, c)
             \/ \E m \in Matters, to \in {"open", "archived"} : HandleStatusChange(w, m, to)
             \/ \E m \in Matters : DeleteMatterRequest(w, m)
      PROVE  Inv'
  BY <1>4, HandleArchiveSafe, HandleStatusChangeSafe, DeleteMatterRequestSafe
<1>5. ASSUME NEW w \in Workers, Handle(w) \/ Abort(w)
      PROVE  Inv'
  BY <1>5, AbortSafe, CreateClientLookupSafe, CreateClientCommitSafe, CreateMatterLookupSafe, CreateMatterAdmitSafe,
     CreateMatterInsertSafe, CreateMatterCommitSafe, DeleteOrArchiveCountSafe, DeleteCommitSafe,
     ArchiveCommitSafe, RecheckClientSafe, LoadsSafe, ChangeStatusCommitSafe, DeleteMatterCommitSafe
     DEF Handle
<1>6. CASE LoadClients \/ \E n \in Plans : PlanChanges(n)
  BY <1>6, LoadClientsSafe, PlanChangesSafe
<1> QED BY <1>1, <1>2, <1>3, <1>4, <1>5, <1>6 DEF Next

LEMMA InvAlways == Spec => []Inv
<1>1. Init => Inv
  BY InvInit
<1>2. Inv /\ [Next]_vars => Inv'
  BY InvStep
<1> QED BY <1>1, <1>2, PTL DEF Spec

\* Types, the organisation lock, what each request refers to, and the keys
\* its forms drew, hold in every reachable state.
THEOREM IntakeIsSafe == Spec => []IntakeInv
<1>1. Inv => IntakeInv
  BY DEF Inv
<1> QED BY <1>1, InvAlways, PTL

\* No overlap of a deletion with a creation leaves a matter without its client.
THEOREM ClientsOutliveMatters == Spec => []MattersHaveClient
<1>1. Inv => MattersHaveClient
  BY DEF Inv
<1> QED BY <1>1, InvAlways, PTL

\* However often a form is submitted, it has one record to show for it.
THEOREM FormsMakeOneRow == Spec => []OneRowPerMount
<1>1. Inv => OneRowPerMount
  BY DEF Inv
<1> QED BY <1>1, InvAlways, PTL

\* References repeat only after a matter was deleted.
THEOREM ReferencesNeverClash == Spec => []ReferencesAreUnique
<1>1. Inv => ReferencesAreUnique
  BY DEF Inv
<1> QED BY <1>1, InvAlways, PTL

\* Only the commit of a new matter makes more of them: a status change that
\* opens an archived matter marks it as reopened.
LEMMA LimitedShrinks ==
    ASSUME Inv, [Next]_vars, \A w \in Workers : ~CreateMatterCommit(w)
    PROVE  Limited' \subseteq Limited
<1>1. CASE UNCHANGED <<matter, reopened>>
  BY <1>1 DEF Limited, Active
<1>2. ASSUME NEW w \in Workers, DeleteCommit(w) \/ DeleteMatterCommit(w) PROVE Limited' \subseteq Limited
  <2>1. reopened' = reopened /\ \A m \in Matters : matter'[m] \in {matter[m], "deleted"}
    BY <1>2, ClientFacts DEF DeleteCommit, DeleteMatterCommit
  <2> QED BY <2>1 DEF Limited, Active
<1>3. ASSUME NEW w \in Workers, ChangeStatusCommit(w) PROVE Limited' \subseteq Limited
  <2>1. \A m \in Matters :
           \/ matter'[m] = matter[m] /\ (m \in reopened => m \in reopened')
           \/ Live(matter[m]) /\ (matter[m] = "archived" \/ m \in reopened => m \in reopened')
    BY <1>3, ClientFacts DEF ChangeStatusCommit
  <2> QED BY <2>1, ClientFacts DEF Limited, Active, Live, MatterStates
<1>4. \/ UNCHANGED <<matter, reopened>>
      \/ \E w \in Workers : DeleteCommit(w) \/ DeleteMatterCommit(w) \/ ChangeStatusCommit(w)
  BY DEF Next, vars, matterVars, MountClientForm, MountMatterForm, LeaveForm, LoseConnection, SubmitClient,
         SubmitMatter, LoadClients, HandleArchive, HandleStatusChange, DeleteMatterRequest, Handle, Abort,
         PlanChanges, CreateClientLookup, CreateClientCommit, CreateMatterLookup, CreateMatterAdmit,
         CreateMatterInsert, DeleteOrArchiveCount, ArchiveCommit, RecheckClient, ChangeStatusLoad, DeleteMatterLoad
<1> QED BY <1>1, <1>2, <1>3, <1>4

\* Racing creations never pass together the limit that the plan set when the
\* organisation was locked, whatever becomes of the plan before the commit.
THEOREM LimitIsNeverPassed == Spec => LimitHolds
<1>1. Inv /\ [Next]_vars =>
        [Cardinality(Limited') > Cardinality(Limited) =>
            \E w \in Workers : Inside(w) /\ Cardinality(Limited') <= req[w].limit]_vars
  <2> SUFFICES ASSUME Inv, [Next]_vars, Cardinality(Limited') > Cardinality(Limited)
               PROVE  \E w \in Workers : Inside(w) /\ Cardinality(Limited') <= req[w].limit
    OBVIOUS
  <2>1. PICK w \in Workers : CreateMatterCommit(w)
    <3>1. SUFFICES ASSUME Limited' \subseteq Limited PROVE FALSE
      BY LimitedShrinks
    <3>2. Cardinality(Limited') <= Cardinality(Limited)
      BY <3>1, FiniteTables, FS_Subset
    <3> QED BY <3>2, FiniteTables, FiniteTablesNext
  <2>2. Inside(w) /\ Cardinality(Limited) < req[w].limit /\ req[w].limit \in Nat
    BY <2>1, RequestFields DEF CreateMatterCommit, At, Inside, Inv, RoomIsKept, IntakeInv, TypeOK
  <2>3. PICK m \in Matters : Limited' \subseteq Limited \union {m}
    BY <2>1 DEF CreateMatterCommit, Limited, Active, Inv, IntakeInv, TypeOK
  <2>4. IsFiniteSet(Limited \union {m}) /\ Cardinality(Limited \union {m}) <= Cardinality(Limited) + 1
    <3>1. IsFiniteSet(Limited \union {m})
          /\ Cardinality(Limited \union {m}) = IF m \in Limited THEN Cardinality(Limited) ELSE Cardinality(Limited) + 1
      BY FiniteTables, FS_AddElement, Zenon
    <3> QED BY <3>1, FiniteTables
  <2>5. Cardinality(Limited') <= Cardinality(Limited \union {m})
    BY <2>3, <2>4, FS_Subset
  <2>6. Cardinality(Limited \union {m}) \in Nat
    BY <2>4, FS_CardinalityType
  <2>7. Cardinality(Limited') <= req[w].limit
    BY <2>2, <2>4, <2>5, <2>6, FiniteTables, FiniteTablesNext
  <2> QED BY <2>2, <2>7
<1> QED BY <1>1, InvAlways, PTL DEF Spec, LimitHolds
=============================================================================
