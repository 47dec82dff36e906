----------------------------- MODULE ClientIntake -----------------------------
(***************************************************************************)
(* Clients and matters from the web client's forms to the database:        *)
(* client-form-page.tsx, matter-form-page.tsx, client-list-page.tsx and    *)
(* the status control of matter-detail-page.tsx, over client_service.py,   *)
(* matter_service.py and the matter limit of billing_service.py.           *)
(*                                                                         *)
(* A form draws one idempotency key when it is mounted and sends it with   *)
(* every submission.  Its connection may drop at any time: the form is     *)
(* then free to be submitted again while the first handler still runs.     *)
(* Handlers are sessions at READ COMMITTED; what a session inserted is     *)
(* seen by the others after its commit, and the organisation row is locked *)
(* from the limit check to the end of the transaction.  A handler may end  *)
(* without a commit at any step, and the plan may change at any time.      *)
(***************************************************************************)
EXTENDS Naturals, FiniteSets

CONSTANTS
    Clients,         \* primary keys of clients
    Matters,         \* primary keys of matters
    Forms,           \* browser tabs that show a create form
    Workers,         \* requests in flight
    Plans,           \* the max_matters that plans and flags give
    MaxKeys,         \* bound: keys drawn, one per mounted form
    NoClient, NoMatter, NoWorker

ASSUME IntakeAssumption ==
    /\ IsFiniteSet(Clients)
    /\ IsFiniteSet(Matters)
    /\ Plans \subseteq Nat
    /\ MaxKeys \in Nat
    /\ NoClient \notin Clients
    /\ NoMatter \notin Matters
    /\ NoWorker \notin Workers

VARIABLES
    client,      \* "absent", "active", "archived" (not is_active), "deleted"
    clientKey,   \* Client.idempotency_key, 0 for none
    clientBy,    \* history: the mounted form a client was made from
    matter,      \* "absent", "intake", "open", "archived", "deleted"
    matterOf,    \* Matter.client_id
    matterRef,   \* the number in Matter.reference_no
    matterKey,   \* Matter.idempotency_key
    matterBy,    \* history: the mounted form a matter was made from
    maxMatters,  \* get_effective_plan: the matters the organisation may have now
    orgLock,     \* the session that holds the organisation row
    req,         \* per worker: where its handler is and what it holds
    form,        \* per tab: the form's refs
    drawn,       \* number of keys drawn so far
    shown,       \* the clients the list page shows as active
    reopened     \* history: matters that left "archived"

clientVars == <<client, clientKey, clientBy>>
matterVars == <<matter, matterOf, matterRef, matterKey, matterBy>>
vars == <<clientVars, matterVars, maxMatters, orgLock, req, form, drawn, shown, reopened>>

Keys == 0 .. MaxKeys
ClientStates == {"absent", "active", "archived", "deleted"}
MatterStates == {"absent", "intake", "open", "archived", "deleted"}
Live(st) == st \notin {"absent", "deleted"}

\* Matter statuses up to the ones the limit tells apart: "open" stands for
\* open, pending, in_review and closed, which lead to each other.
ALLOWED_TRANSITIONS ==
    {"intake", "open"} \X {"open", "archived"} \union {<<"archived", "open">>}

Active == {m \in Matters : matter[m] \in {"intake", "open"}}
Stored == {m \in Matters : Live(matter[m])}

Idle == [op |-> "none", pc |-> "none", key |-> 0, mount |-> 0, cl |-> NoClient,
         mt |-> NoMatter, ref |-> 0, limit |-> 0, to |-> "absent", empty |-> FALSE]
ClosedForm == [open |-> FALSE, kind |-> "client", mount |-> 0, key |-> 0, waits |-> NoWorker]

Init ==
    /\ client = [c \in Clients |-> "absent"]
    /\ clientKey = [c \in Clients |-> 0]
    /\ clientBy = [c \in Clients |-> 0]
    /\ matter = [m \in Matters |-> "absent"]
    /\ matterOf = [m \in Matters |-> NoClient]
    /\ matterRef = [m \in Matters |-> 0]
    /\ matterKey = [m \in Matters |-> 0]
    /\ matterBy = [m \in Matters |-> 0]
    /\ maxMatters \in Plans
    /\ orgLock = NoWorker
    /\ req = [w \in Workers |-> Idle]
    /\ form = [f \in Forms |-> ClosedForm]
    /\ drawn = 0
    /\ shown = {}
    /\ reopened = {}

(***************************************************************************)
(* The forms.  idempotencyKeyRef is drawn when the component is mounted;   *)
(* submittingRef is waits # NoWorker.                                      *)
(***************************************************************************)
Mounted(kind) == [open |-> TRUE, kind |-> kind, mount |-> drawn + 1, key |-> drawn + 1,
                  waits |-> NoWorker]

MountClientForm(f) ==
    /\ ~form[f].open /\ drawn < MaxKeys
    /\ form' = [form EXCEPT ![f] = Mounted("client")]
    /\ drawn' = drawn + 1
    /\ UNCHANGED <<clientVars, matterVars, maxMatters, orgLock, req, shown, reopened>>

MountMatterForm(f) ==
    /\ ~form[f].open /\ drawn < MaxKeys
    /\ form' = [form EXCEPT ![f] = Mounted("matter")]
    /\ drawn' = drawn + 1
    /\ UNCHANGED <<clientVars, matterVars, maxMatters, orgLock, req, shown, reopened>>

\* handleCancel, or any other navigation: a request in flight goes on.
LeaveForm(f) ==
    /\ form[f].open
    /\ form' = [form EXCEPT ![f] = ClosedForm]
    /\ UNCHANGED <<clientVars, matterVars, maxMatters, orgLock, req, drawn, shown, reopened>>

CanSubmit(f) == form[f].open /\ form[f].waits = NoWorker

Send(f, w, r) ==
    /\ req[w].op = "none"
    /\ req' = [req EXCEPT ![w] = r]
    /\ form' = [form EXCEPT ![f].waits = w]

\* Bound: a create is sent only while primary keys are left for it.
Room(op, states) ==
    Cardinality({x \in DOMAIN states : states[x] = "absent"})
        > Cardinality({w \in Workers : req[w].op = op})

SubmitClient(f, w) ==
    /\ CanSubmit(f) /\ form[f].kind = "client"
    /\ Room("createClient", client)
    /\ Send(f, w, [Idle EXCEPT !.op = "createClient", !.pc = "lookup",
                               !.key = form[f].key, !.mount = form[f].mount])
    /\ UNCHANGED <<clientVars, matterVars, maxMatters, orgLock, drawn, shown, reopened>>

\* The clients offered were read when the form was mounted; the one picked
\* may have been archived or deleted since.
SubmitMatter(f, w, c) ==
    /\ CanSubmit(f) /\ form[f].kind = "matter"
    /\ client[c] # "absent"
    /\ Room("createMatter", matter)
    /\ Send(f, w, [Idle EXCEPT !.op = "createMatter", !.pc = "lookup",
                               !.key = form[f].key, !.mount = form[f].mount, !.cl = c])
    /\ UNCHANGED <<clientVars, matterVars, maxMatters, orgLock, drawn, shown, reopened>>

\* fetch throws: the form reports that the action may already have completed
\* and can be submitted again.  The handler runs on if the request arrived.
LoseConnection(f) ==
    /\ form[f].waits # NoWorker
    /\ form' = [form EXCEPT ![f].waits = NoWorker]
    /\ \/ req' = req
       \/ /\ req[form[f].waits].pc = "lookup"
          /\ req' = [req EXCEPT ![form[f].waits] = Idle]
    /\ UNCHANGED <<clientVars, matterVars, maxMatters, orgLock, drawn, shown, reopened>>

(***************************************************************************)
(* The end of a handler.  A form that still waits gets the answer: it      *)
(* navigates to the new record, or shows the error and can be sent again.  *)
(***************************************************************************)
Answer(w, ok) ==
    /\ req' = [req EXCEPT ![w] = Idle]
    /\ form' = [f \in Forms |->
                   IF form[f].waits # w THEN form[f]
                   ELSE IF ok THEN ClosedForm ELSE [form[f] EXCEPT !.waits = NoWorker]]

Goto(w, pc) ==
    /\ req' = [req EXCEPT ![w].pc = pc]
    /\ UNCHANGED form

At(w, op, pc) == req[w].op = op /\ req[w].pc = pc

\* get_db rolls back: the connection to the database breaks, or the handler
\* raises.  Nothing was committed, and the organisation row is free.
Abort(w) ==
    /\ req[w].op # "none"
    /\ Answer(w, FALSE)
    /\ orgLock' = IF orgLock = w THEN NoWorker ELSE orgLock
    /\ UNCHANGED <<clientVars, matterVars, maxMatters, drawn, shown, reopened>>

\* A plan is bought or ends, a flag is set, or a trial runs out, which waits for
\* no lock.
PlanChanges(n) ==
    /\ n # maxMatters
    /\ maxMatters' = n
    /\ UNCHANGED <<clientVars, matterVars, orgLock, req, form, drawn, shown, reopened>>

(***************************************************************************)
(* create_client: the row is flushed by the commit itself, so a key taken  *)
(* meanwhile is an IntegrityError that the handler answers with the row.   *)
(***************************************************************************)
\* Mutant: the clients' keys are not unique.
ClientKeyFree(k) == k \notin Keys

ClientKeyTaken(k) == \E c \in Clients : Live(client[c]) /\ clientKey[c] = k

CreateClientLookup(w) ==
    /\ At(w, "createClient", "lookup")
    /\ IF ClientKeyTaken(req[w].key) THEN Answer(w, TRUE) ELSE Goto(w, "commit")
    /\ UNCHANGED <<clientVars, matterVars, maxMatters, orgLock, drawn, shown, reopened>>

CreateClientCommit(w) ==
    /\ At(w, "createClient", "commit")
    /\ \/ /\ ClientKeyTaken(req[w].key)
          /\ UNCHANGED clientVars
       \/ /\ ~ClientKeyTaken(req[w].key)
          /\ \E c \in Clients :
                /\ client[c] = "absent"
                /\ client' = [client EXCEPT ![c] = "active"]
                /\ clientKey' = [clientKey EXCEPT ![c] = req[w].key]
                /\ clientBy' = [clientBy EXCEPT ![c] = req[w].mount]
    /\ Answer(w, TRUE)
    /\ UNCHANGED <<matterVars, maxMatters, orgLock, drawn, shown, reopened>>

(***************************************************************************)
(* create_matter.  The limit check locks the organisation row; the insert  *)
(* is flushed before the commit and outside its try, so a key taken since  *)
(* the lookup, or a client deleted since the check, is a server error.     *)
(***************************************************************************)
MatterKeyTaken(k) == \E m \in Stored : matterKey[m] = k

CreateMatterLookup(w) ==
    /\ At(w, "createMatter", "lookup")
    /\ IF MatterKeyTaken(req[w].key) THEN Answer(w, TRUE) ELSE Goto(w, "admit")
    /\ UNCHANGED <<clientVars, matterVars, maxMatters, orgLock, drawn, shown, reopened>>

CheckMatterLimit == Cardinality(Active) < maxMatters
VerifyClient(c) == client[c] = "active"
GenerateReference == Cardinality(Stored) + 1

\* Mutant: the limit is checked without locking the organisation row.
CreateMatterAdmitUnlocked(w) ==
    /\ At(w, "createMatter", "admit")
    /\ CheckMatterLimit /\ VerifyClient(req[w].cl)
    /\ req' = [req EXCEPT ![w].pc = "insert", ![w].ref = GenerateReference,
                        ![w].limit = maxMatters]
    /\ UNCHANGED <<form, clientVars, matterVars, maxMatters, orgLock, drawn, shown, reopened>>

\* check_matter_limit waits for the organisation row here.
CreateMatterAdmit(w) ==
    /\ At(w, "createMatter", "admit")
    /\ orgLock = NoWorker
    /\ \/ /\ CheckMatterLimit /\ VerifyClient(req[w].cl)
          /\ orgLock' = w
          /\ req' = [req EXCEPT ![w].pc = "insert", ![w].ref = GenerateReference,
                                ![w].limit = maxMatters]
          /\ UNCHANGED form
       \/ /\ ~(CheckMatterLimit /\ VerifyClient(req[w].cl))
          /\ Answer(w, FALSE)
          /\ UNCHANGED orgLock
    /\ UNCHANGED <<clientVars, matterVars, maxMatters, drawn, shown, reopened>>

ClientRowExists(c) == Live(client[c])

\* Mutant: a refused insert leaves its transaction open.
CreateMatterInsertHolds(w) ==
    /\ At(w, "createMatter", "insert")
    /\ IF ClientRowExists(req[w].cl) /\ ~MatterKeyTaken(req[w].key)
       THEN Goto(w, "commit") ELSE Answer(w, FALSE)
    /\ UNCHANGED <<orgLock, clientVars, matterVars, maxMatters, drawn, shown, reopened>>

CreateMatterInsert(w) ==
    /\ At(w, "createMatter", "insert")
    /\ \/ /\ ClientRowExists(req[w].cl) /\ ~MatterKeyTaken(req[w].key)
          /\ Goto(w, "commit")
          /\ UNCHANGED orgLock
       \/ /\ ~(ClientRowExists(req[w].cl) /\ ~MatterKeyTaken(req[w].key))
          /\ Answer(w, FALSE)
          /\ orgLock' = NoWorker
    /\ UNCHANGED <<clientVars, matterVars, maxMatters, drawn, shown, reopened>>

CreateMatterCommit(w) ==
    /\ At(w, "createMatter", "commit")
    /\ \E m \in Matters :
          /\ matter[m] = "absent"
          /\ matter' = [matter EXCEPT ![m] = "intake"]
          /\ matterOf' = [matterOf EXCEPT ![m] = req[w].cl]
          /\ matterRef' = [matterRef EXCEPT ![m] = req[w].ref]
          /\ matterKey' = [matterKey EXCEPT ![m] = req[w].key]
          /\ matterBy' = [matterBy EXCEPT ![m] = req[w].mount]
    /\ orgLock' = NoWorker
    /\ Answer(w, TRUE)
    /\ UNCHANGED <<clientVars, maxMatters, drawn, shown, reopened>>

(***************************************************************************)
(* The client list: handleArchive sends the DELETE, then reads the client  *)
(* again to tell an archived client from a deleted one.                    *)
(***************************************************************************)
Begin(w, r) ==
    /\ req[w].op = "none"
    /\ req' = [req EXCEPT ![w] = r]

LoadClients ==
    /\ shown' = {c \in Clients : client[c] = "active"}
    /\ UNCHANGED <<clientVars, matterVars, maxMatters, orgLock, req, form, drawn, reopened>>

HandleArchive(w, c) ==
    /\ c \in shown
    /\ Begin(w, [Idle EXCEPT !.op = "deleteClient", !.pc = "count", !.cl = c])
    /\ UNCHANGED <<clientVars, matterVars, maxMatters, orgLock, form, drawn, shown, reopened>>

MattersOf(c) == {m \in Stored : matterOf[m] = c}

DeleteOrArchiveCount(w) ==
    /\ At(w, "deleteClient", "count")
    /\ \/ /\ ClientRowExists(req[w].cl)
          /\ req' = [req EXCEPT ![w].pc = "commit", ![w].empty = (MattersOf(req[w].cl) = {})]
          /\ UNCHANGED form
       \/ /\ ~ClientRowExists(req[w].cl)
          /\ Answer(w, FALSE)
    /\ UNCHANGED <<clientVars, matterVars, maxMatters, orgLock, drawn, shown, reopened>>

\* An inserted matter locks its client's row against deletion until it commits.
ClientReferenced(c) == \E w \in Workers : At(w, "createMatter", "commit") /\ req[w].cl = c

\* Mutant: the matters of a deleted client stay.
DeleteCommitNoCascade(w) ==
    /\ At(w, "deleteClient", "commit") /\ req[w].empty
    /\ ~ClientReferenced(req[w].cl)
    /\ client' = [client EXCEPT ![req[w].cl] = "deleted"]
    /\ Goto(w, "recheck")
    /\ UNCHANGED <<clientKey, clientBy, matterVars, maxMatters, orgLock, drawn, shown, reopened>>

\* Matter.client_id is ON DELETE CASCADE.
DeleteCommit(w) ==
    /\ At(w, "deleteClient", "commit") /\ req[w].empty
    /\ ~ClientReferenced(req[w].cl)
    /\ client' = [client EXCEPT ![req[w].cl] = "deleted"]
    /\ matter' = [m \in Matters |-> IF m \in MattersOf(req[w].cl) THEN "deleted" ELSE matter[m]]
    /\ Goto(w, "recheck")
    /\ UNCHANGED <<clientKey, clientBy, matterOf, matterRef, matterKey, matterBy,
                   orgLock, maxMatters, drawn, shown, reopened>>

ArchiveCommit(w) ==
    /\ At(w, "deleteClient", "commit") /\ ~req[w].empty
    /\ \/ /\ ClientRowExists(req[w].cl)
          /\ client' = [client EXCEPT ![req[w].cl] = "archived"]
          /\ Goto(w, "recheck")
       \/ /\ ~ClientRowExists(req[w].cl)
          /\ Answer(w, FALSE)
          /\ UNCHANGED client
    /\ UNCHANGED <<clientKey, clientBy, matterVars, maxMatters, orgLock, drawn, shown, reopened>>

\* A 404 is a NotFoundError, which is no ApiClientError: the entry stays.
RecheckClient(w) ==
    /\ At(w, "deleteClient", "recheck")
    /\ shown' = IF client[req[w].cl] = "archived" THEN shown \ {req[w].cl} ELSE shown
    /\ Answer(w, TRUE)
    /\ UNCHANGED <<clientVars, matterVars, maxMatters, orgLock, drawn, reopened>>

(***************************************************************************)
(* Status changes and deletions of a matter: the row is loaded without a   *)
(* lock and written by the commit.                                         *)
(***************************************************************************)
HandleStatusChange(w, m, to) ==
    /\ matter[m] # "absent"
    /\ Begin(w, [Idle EXCEPT !.op = "changeStatus", !.pc = "load", !.mt = m, !.to = to])
    /\ UNCHANGED <<clientVars, matterVars, maxMatters, orgLock, form, drawn, shown, reopened>>

ChangeStatusLoad(w) ==
    /\ At(w, "changeStatus", "load")
    /\ IF <<matter[req[w].mt], req[w].to>> \in ALLOWED_TRANSITIONS
       THEN Goto(w, "commit") ELSE Answer(w, FALSE)
    /\ UNCHANGED <<clientVars, matterVars, maxMatters, orgLock, drawn, shown, reopened>>

\* The update of a row that is gone matches nothing and fails.
ChangeStatusCommit(w) ==
    /\ At(w, "changeStatus", "commit")
    /\ LET m == req[w].mt IN
       IF Live(matter[m])
       THEN /\ matter' = [matter EXCEPT ![m] = req[w].to]
            /\ reopened' = IF matter[m] = "archived" THEN reopened \union {m} ELSE reopened
            /\ Answer(w, TRUE)
       ELSE /\ Answer(w, FALSE)
            /\ UNCHANGED <<matter, reopened>>
    /\ UNCHANGED <<clientVars, matterOf, matterRef, matterKey, matterBy, orgLock, maxMatters, drawn, shown>>

DeleteMatterRequest(w, m) ==
    /\ matter[m] # "absent"
    /\ Begin(w, [Idle EXCEPT !.op = "deleteMatter", !.pc = "load", !.mt = m])
    /\ UNCHANGED <<clientVars, matterVars, maxMatters, orgLock, form, drawn, shown, reopened>>

DeleteMatterLoad(w) ==
    /\ At(w, "deleteMatter", "load")
    /\ IF matter[req[w].mt] = "archived" THEN Goto(w, "commit") ELSE Answer(w, FALSE)
    /\ UNCHANGED <<clientVars, matterVars, maxMatters, orgLock, drawn, shown, reopened>>

DeleteMatterCommit(w) ==
    /\ At(w, "deleteMatter", "commit")
    /\ matter' = [matter EXCEPT ![req[w].mt] = "deleted"]
    /\ Answer(w, TRUE)
    /\ UNCHANGED <<clientVars, matterOf, matterRef, matterKey, matterBy,
                   orgLock, maxMatters, drawn, shown, reopened>>

Handle(w) ==
    \/ CreateClientLookup(w) \/ CreateClientCommit(w)
    \/ CreateMatterLookup(w) \/ CreateMatterAdmit(w)
    \/ CreateMatterInsert(w) \/ CreateMatterCommit(w)
    \/ DeleteOrArchiveCount(w) \/ DeleteCommit(w) \/ ArchiveCommit(w) \/ RecheckClient(w)
    \/ ChangeStatusLoad(w) \/ ChangeStatusCommit(w)
    \/ DeleteMatterLoad(w) \/ DeleteMatterCommit(w)

Next ==
    \/ \E f \in Forms : MountClientForm(f) \/ MountMatterForm(f) \/ LeaveForm(f) \/ LoseConnection(f)
    \/ \E f \in Forms, w \in Workers : SubmitClient(f, w)
    \/ \E f \in Forms, w \in Workers, c \in Clients : SubmitMatter(f, w, c)
    \/ LoadClients
    \/ \E w \in Workers, c \in Clients : HandleArchive(w, c)
    \/ \E w \in Workers, m \in Matters, to \in {"open", "archived"} : HandleStatusChange(w, m, to)
    \/ \E w \in Workers, m \in Matters : DeleteMatterRequest(w, m)
    \/ \E w \in Workers : Handle(w) \/ Abort(w)
    \/ \E n \in Plans : PlanChanges(n)

Spec == Init /\ [][Next]_vars

(***************************************************************************)
(* Properties                                                              *)
(***************************************************************************)
Requests ==
    [op : {"none", "createClient", "createMatter", "deleteClient", "changeStatus", "deleteMatter"},
     pc : {"none", "lookup", "admit", "insert", "commit", "count", "recheck", "load"},
     key : Keys, mount : Keys, cl : Clients \union {NoClient}, mt : Matters \union {NoMatter},
     ref : Nat, limit : Nat, to : MatterStates, empty : BOOLEAN]

FormStates == [open : BOOLEAN, kind : {"client", "matter"}, mount : Keys, key : Keys,
               waits : Workers \union {NoWorker}]

TypeOK ==
    /\ client \in [Clients -> ClientStates]
    /\ clientKey \in [Clients -> Keys]
    /\ clientBy \in [Clients -> Keys]
    /\ matter \in [Matters -> MatterStates]
    /\ matterOf \in [Matters -> Clients \union {NoClient}]
    /\ matterRef \in [Matters -> Nat]
    /\ matterKey \in [Matters -> Keys]
    /\ matterBy \in [Matters -> Keys]
    /\ maxMatters \in Plans
    /\ orgLock \in Workers \union {NoWorker}
    /\ req \in [Workers -> Requests]
    /\ form \in [Forms -> FormStates]
    /\ drawn \in Keys
    /\ shown \subseteq Clients
    /\ reopened \subseteq Matters

\* A session is past the limit check exactly while it holds the organisation.
Inside(w) == req[w].op = "createMatter" /\ req[w].pc \in {"insert", "commit"}

LockIsHeld == \A w \in Workers : Inside(w) <=> orgLock = w

\* What a request refers to is the row it was sent for.
RequestsPoint ==
    \A w \in Workers :
        /\ req[w].op \in {"createMatter", "deleteClient"} =>
               req[w].cl \in Clients /\ client[req[w].cl] # "absent"
        /\ req[w].op \in {"changeStatus", "deleteMatter"} =>
               req[w].mt \in Matters /\ matter[req[w].mt] # "absent"
        /\ req[w].op = "changeStatus" => req[w].to \in {"open", "archived"}
        /\ At(w, "createMatter", "commit") => ClientRowExists(req[w].cl)
        /\ At(w, "createMatter", "commit") => ~MatterKeyTaken(req[w].key)
        /\ req[w].op \in {"createClient", "createMatter"} => req[w].key = req[w].mount

\* The key on a row is the one its form drew.
KeysAreMounts ==
    /\ \A f \in Forms : form[f].key = form[f].mount
    /\ \A c \in Clients : clientKey[c] = clientBy[c]
    /\ \A m \in Matters : matterKey[m] = matterBy[m]

IntakeInv == TypeOK /\ LockIsHeld /\ RequestsPoint /\ KeysAreMounts

\* A matter never outlives its client, however a deletion and a creation
\* overlap: the count in delete_or_archive_client, the row locks and the
\* cascade leave no matter whose client is gone.
MattersHaveClient == \A m \in Stored : matterOf[m] \in Clients /\ ClientRowExists(matterOf[m])

\* A form that was mounted once has at most one record to show for it at any
\* time, whatever was lost, sent twice or sent while the first still ran.
\* (A retry after the record was deleted makes it anew.)
OneRowPerMount ==
    /\ \A c, d \in Clients :
          Live(client[c]) /\ Live(client[d]) /\ clientBy[c] = clientBy[d] /\ clientBy[c] # 0 => c = d
    /\ \A m, n \in Stored : matterBy[m] = matterBy[n] => m = n

\* As long as no matter was deleted, no two matters share a reference: the
\* count is taken under the organisation lock.  (After a deletion the count
\* falls behind the numbers in use.)
ReferencesAreUnique ==
    (\A m \in Matters : matter[m] # "deleted") =>
        \A m, n \in Stored : matterRef[m] = matterRef[n] => m = n

\* However creations race, with each other, with deletions and with a change
\* of the plan, a new matter is one of at most as many as the plan allowed when
\* the organisation row was locked, not counting those that were taken back
\* out of the archive, which change_status does not check.  (A plan that
\* shrinks closes no matter.)
Limited == Active \ reopened

LimitHolds ==
    [][Cardinality(Limited') > Cardinality(Limited) =>
          \E w \in Workers : Inside(w) /\ Cardinality(Limited') <= req[w].limit]_vars
=============================================================================
