------------------------------ MODULE TaskBoard ------------------------------
(***************************************************************************)
(* The task board (kanban-page.tsx) and the requests it makes to           *)
(* task_service.py, which other members make too.  The board shows a       *)
(* dragged card in its new column before the server has agreed, and takes  *)
(* whole snapshots of the server when it is refreshed; a request is an     *)
(* asynchronous session of the server whose answer may be late or lost.    *)
(* The tasks of one matter are modelled: their list is read by one query.  *)
(***************************************************************************)
EXTENDS Naturals, FiniteSets

CONSTANTS
    Tasks,           \* primary keys of tasks
    Initial,         \* tasks that are there before the first step
    Workers,         \* requests in flight
    Targets,         \* bound: the columns that cards are moved to
    MaxRequests,     \* bound: requests sent by the page and by other members
    MaxDialogs,      \* bound: times the "New Task" dialog is opened
    NoTask, NoWorker

ASSUME BoardAssumption ==
    /\ Initial \subseteq Tasks
    /\ Targets \subseteq {"todo", "done", "archived"}
    /\ MaxRequests \in Nat
    /\ MaxDialogs \in Nat
    /\ NoTask \notin Tasks
    /\ NoWorker \notin Workers

VARIABLES
    status,      \* Task.status, "absent" when there is no row
    completed,   \* Task.completed_at is set
    deleted,     \* tasks with is_deleted
    key,         \* Task.idempotency_key, 0 for none
    madeIn,      \* history: the opening of the dialog a task was made in
    req,         \* per request: where it is, and who waits for it
    sent,        \* number of requests sent
    page,        \* "loading", "error" or "board": what is rendered
    board,       \* the tasks state of the page: a column, or "absent"
    load,        \* the loadBoard in flight
    dialog,      \* the dialog: what it edits, and its key
    submitting,  \* submittingTaskRef: the request handleSubmit awaits
    opened,      \* number of times the dialog was opened for a new task
    confirmed,   \* history: openings whose creation was confirmed
    raced,       \* history: tasks two sessions were writing at once
    unsettled    \* history: tasks the page cannot be blamed for, see below

rowVars == <<status, completed, deleted, key, madeIn>>
pageVars == <<page, board, load, dialog, submitting, opened, confirmed>>
vars == <<rowVars, req, sent, pageVars, raced, unsettled>>

\* "todo" stands for todo and in_progress, which nothing tells apart.
Columns == {"todo", "done", "archived"}
Openings == 0 .. MaxDialogs
Live(t) == status[t] # "absent" /\ t \notin deleted
OnServer(t) == IF Live(t) THEN status[t] ELSE "absent"

Idle == [op |-> "none", pc |-> "none", task |-> NoTask, to |-> "todo", seen |-> "absent",
         key |-> 0, in |-> 0, for |-> "nobody", was |-> "absent", ok |-> FALSE]
NoLoad == [pc |-> "none", snap |-> [t \in Tasks |-> "absent"], old |-> {}, quiet |-> FALSE]
Closed == [open |-> FALSE, task |-> NoTask, key |-> 0]

Init ==
    /\ status = [t \in Tasks |-> IF t \in Initial THEN "todo" ELSE "absent"]
    /\ completed = [t \in Tasks |-> FALSE]
    /\ deleted = {}
    /\ key = [t \in Tasks |-> 0]
    /\ madeIn = [t \in Tasks |-> 0]
    /\ req = [w \in Workers |-> Idle]
    /\ sent = 0
    /\ page = "loading"
    /\ board = [t \in Tasks |-> "absent"]
    /\ load = [NoLoad EXCEPT !.pc = "sent", !.quiet = TRUE]
    /\ dialog = Closed
    /\ submitting = NoWorker
    /\ opened = 0
    /\ confirmed = {}
    /\ raced = {}
    /\ unsettled = Initial

(***************************************************************************)
(* A request is sent.  History: when it meets another request for its      *)
(* task, or a refresh, the page shows whichever answer is applied last,    *)
(* and what another member does it does not show at all.  Such a task is   *)
(* unsettled until a refresh that met no request.                          *)
(***************************************************************************)
InFlight(t) == {w \in Workers : req[w].task = t}
Quiet == \A w \in Workers : req[w].op = "none"

Send(w, r) ==
    /\ req[w].op = "none" /\ sent < MaxRequests
    /\ req' = [req EXCEPT ![w] = r]
    /\ sent' = sent + 1
    /\ load' = [load EXCEPT !.quiet = FALSE]
    /\ unsettled' = IF r.task # NoTask /\ (r.for = "other" \/ load.pc # "none" \/ InFlight(r.task) # {})
                    THEN unsettled \union {r.task} ELSE unsettled

Update(t, to, who) == [Idle EXCEPT !.op = "update", !.pc = "load", !.task = t, !.to = to, !.for = who]
Delete(t, who) == [Idle EXCEPT !.op = "delete", !.pc = "load", !.task = t, !.for = who]

(***************************************************************************)
(* The page.                                                               *)
(***************************************************************************)
HandleDragEnd(w, t, to) ==
    /\ page = "board" /\ board[t] \notin {"absent", to}
    /\ board' = [board EXCEPT ![t] = to]
    /\ Send(w, [Update(t, to, "drag") EXCEPT !.was = board[t]])
    /\ UNCHANGED <<rowVars, page, dialog, submitting, opened, confirmed, raced>>

HandleStatusChange(w, t, to) ==
    /\ page = "board" /\ board[t] \notin {"absent", to}
    /\ Send(w, Update(t, to, "menu"))
    /\ UNCHANGED <<rowVars, page, board, dialog, submitting, opened, confirmed, raced>>

HandleDelete(w, t) ==
    /\ page = "board" /\ board[t] # "absent"
    /\ Send(w, Delete(t, "delete"))
    /\ UNCHANGED <<rowVars, page, board, dialog, submitting, opened, confirmed, raced>>

\* Mutant: the key of the first opening is kept.
OpenCreateSameKey ==
    /\ page = "board" /\ ~dialog.open /\ opened < MaxDialogs
    /\ opened' = opened + 1
    /\ dialog' = [Closed EXCEPT !.open = TRUE, !.key = 1]
    /\ UNCHANGED <<rowVars, sent, req, page, board, load, submitting, confirmed, raced, unsettled>>

OpenCreate ==
    /\ page = "board" /\ ~dialog.open /\ opened < MaxDialogs
    /\ opened' = opened + 1
    /\ dialog' = [Closed EXCEPT !.open = TRUE, !.key = opened + 1]
    /\ UNCHANGED <<rowVars, sent, req, page, board, load, submitting, confirmed, raced, unsettled>>

\* taskIdempotencyKeyRef keeps its value: an edit does not use it.
OpenEdit(t) ==
    /\ page = "board" /\ ~dialog.open /\ board[t] # "absent"
    /\ dialog' = [Closed EXCEPT !.open = TRUE, !.task = t]
    /\ UNCHANGED <<rowVars, sent, req, page, board, load, submitting, opened, confirmed, raced, unsettled>>

CloseDialog ==
    /\ page = "board" /\ dialog.open
    /\ dialog' = Closed
    /\ UNCHANGED <<rowVars, sent, req, page, board, load, submitting, opened, confirmed, raced, unsettled>>

\* Bound: a create is sent only while there is a primary key left for it.
Room == Cardinality({w \in Workers : req[w].op = "create"})
            < Cardinality({t \in Tasks : status[t] = "absent"})

SubmitCreate(w) ==
    /\ page = "board" /\ dialog.open /\ dialog.task = NoTask /\ submitting = NoWorker /\ Room
    /\ submitting' = w
    /\ Send(w, [Idle EXCEPT !.op = "create", !.pc = "lookup", !.key = dialog.key,
                            !.in = opened, !.for = "dialog"])
    /\ UNCHANGED <<rowVars, page, board, dialog, opened, confirmed, raced>>

\* The form sends its status with the rest, changed or not.
SubmitEdit(w, to) ==
    /\ page = "board" /\ dialog.open /\ dialog.task # NoTask /\ submitting = NoWorker
    /\ submitting' = w
    /\ Send(w, Update(dialog.task, to, "dialog"))
    /\ UNCHANGED <<rowVars, page, board, dialog, opened, confirmed, raced>>

(***************************************************************************)
(* loadBoard: the list, then an update for every task that was done a year *)
(* ago, then the board.  The refresh button waits for the one in flight.   *)
(***************************************************************************)
Reload(then) ==
    /\ load' = [NoLoad EXCEPT !.pc = "sent", !.quiet = Quiet]
    /\ unsettled' = unsettled \union {t \in Tasks : InFlight(t) # {}}
    /\ page' = then
    /\ UNCHANGED <<rowVars, sent, req, board, dialog, submitting, opened, confirmed, raced>>

Refresh == page = "board" /\ load.pc = "none" /\ Reload("board")

TryAgain == page = "error" /\ Reload("loading")

LoadRead ==
    /\ load.pc = "sent"
    /\ load' = [load EXCEPT !.pc = "back", !.snap = [t \in Tasks |-> OnServer(t)]]
    /\ UNCHANGED <<rowVars, sent, req, page, board, dialog, submitting, opened, confirmed, raced, unsettled>>

\* The board is shown; a quiet refresh settles every task but those whose
\* archiving went wrong.
Show(columns, failed) ==
    /\ page' = "board"
    /\ board' = columns
    /\ load' = NoLoad
    /\ unsettled' = IF load.quiet THEN failed ELSE unsettled \union failed

LoadBack ==
    /\ load.pc = "back"
    /\ Show(load.snap, {})
    /\ UNCHANGED <<rowVars, sent, req, dialog, submitting, opened, confirmed, raced>>

\* Promise.allSettled over one update.  Bound: one task at a time is old.
LoadArchive(w, t) ==
    /\ load.pc = "back" /\ load.snap[t] = "done"
    /\ req[w].op = "none"
    /\ req' = [req EXCEPT ![w] = Update(t, "archived", "sweep")]
    /\ load' = [load EXCEPT !.pc = "archiving", !.old = {t},
                            !.quiet = @ /\ InFlight(t) = {}]
    /\ unsettled' = IF InFlight(t) # {} THEN unsettled \union {t} ELSE unsettled
    /\ UNCHANGED <<rowVars, sent, page, board, dialog, submitting, opened, confirmed, raced>>

WithArchived == [t \in Tasks |-> IF t \in load.old THEN "archived" ELSE load.snap[t]]

\* The page shows the error instead of the board it has.
LoadFails ==
    /\ load.pc \in {"sent", "back"}
    /\ load' = NoLoad
    /\ page' = "error"
    /\ UNCHANGED <<rowVars, sent, req, board, dialog, submitting, opened, confirmed, raced, unsettled>>

(***************************************************************************)
(* create_task: the key is looked up, the row flushed (a key that another  *)
(* session has flushed is waited for; one taken meanwhile is an error,     *)
(* outside the try), and committed.                                        *)
(***************************************************************************)
At(w, op, pc) == req[w].op = op /\ req[w].pc = pc
Unheard(w) == req[w].for \in {"nobody", "other"}

\* The answer: what the callback was given, and nothing when nobody waits.
Answer(w, ok, t, to) ==
    req' = [req EXCEPT ![w] = IF Unheard(w) THEN Idle
                              ELSE [@ EXCEPT !.pc = "back", !.ok = ok, !.task = t, !.to = to, !.seen = "absent"]]

Reply(w, ok) == Answer(w, ok, req[w].task, req[w].to)
Server == <<pageVars, unsettled>>

\* Mutant: the row of a deleted task does not hold its key.
HasKeyLive(t, k) == Live(t) /\ key[t] = k

HasKey(t, k) == status[t] # "absent" /\ key[t] = k

CreateLookup(w) ==
    /\ At(w, "create", "lookup")
    /\ \/ \E t \in Tasks :
             /\ HasKey(t, req[w].key)
             /\ Answer(w, TRUE, t, status[t])
             /\ unsettled' = IF load.pc # "none" \/ InFlight(t) # {} \/ t \in deleted
                             THEN unsettled \union {t} ELSE unsettled
       \/ /\ \A t \in Tasks : ~HasKey(t, req[w].key)
          /\ req' = [req EXCEPT ![w].pc = "flush"]
          /\ UNCHANGED unsettled
    /\ UNCHANGED <<rowVars, sent, pageVars, raced>>

Flushed(t) == \E v \in Workers : At(v, "create", "commit") /\ req[v].task = t

CreateFlush(w) ==
    /\ At(w, "create", "flush")
    /\ \A v \in Workers : At(v, "create", "commit") => req[v].key # req[w].key
    /\ \/ /\ \E t \in Tasks : HasKey(t, req[w].key)
          /\ Reply(w, FALSE)
       \/ /\ \A t \in Tasks : ~HasKey(t, req[w].key)
          /\ \E t \in Tasks :
                /\ status[t] = "absent" /\ ~Flushed(t)
                /\ req' = [req EXCEPT ![w].pc = "commit", ![w].task = t]
    /\ UNCHANGED <<rowVars, sent, raced, Server>>

\* Mutant: the answer is taken from the row before the insert.
CreateCommitStale(w) ==
    /\ At(w, "create", "commit")
    /\ LET t == req[w].task IN
       /\ status' = [status EXCEPT ![t] = "todo"]
       /\ key' = [key EXCEPT ![t] = req[w].key]
       /\ madeIn' = [madeIn EXCEPT ![t] = req[w].in]
       /\ Answer(w, TRUE, t, status[t])
    /\ UNCHANGED <<sent, completed, deleted, pageVars, raced, unsettled>>

CreateCommit(w) ==
    /\ At(w, "create", "commit")
    /\ LET t == req[w].task IN
       /\ status' = [status EXCEPT ![t] = "todo"]
       /\ key' = [key EXCEPT ![t] = req[w].key]
       /\ madeIn' = [madeIn EXCEPT ![t] = req[w].in]
       /\ unsettled' = IF req[w].for = "nobody" \/ load.pc # "none" THEN unsettled \union {t} ELSE unsettled
    /\ Reply(w, TRUE)
    /\ UNCHANGED <<sent, completed, deleted, pageVars, raced>>

(***************************************************************************)
(* update_task: the row is loaded, and only what then differs is written.  *)
(***************************************************************************)
Writing(w, t) == req[w].op = "update" /\ req[w].pc = "commit" /\ req[w].task = t

UpdateLoad(w) ==
    /\ At(w, "update", "load")
    /\ LET t == req[w].task IN
       \/ /\ Live(t)
          /\ req' = [req EXCEPT ![w].pc = "commit", ![w].seen = status[t]]
          /\ raced' = IF \E v \in Workers : Writing(v, t) THEN raced \union {t} ELSE raced
       \/ /\ ~Live(t)
          /\ Reply(w, FALSE)
          /\ UNCHANGED raced
    /\ UNCHANGED <<rowVars, sent, Server>>

\* Mutant: the completion date of a task that is taken up again stays.
CompletedForGood(seen, to, was) == was \/ (to = "done" /\ seen # "done")

CompletedAfter(seen, to, was) ==
    IF to = "done" /\ seen # "done" THEN TRUE
    ELSE IF to # "done" /\ seen = "done" THEN FALSE ELSE was

UpdateCommit(w) ==
    /\ At(w, "update", "commit")
    /\ LET t == req[w].task  r == req[w] IN
       /\ status' = IF r.to = r.seen THEN status ELSE [status EXCEPT ![t] = r.to]
       /\ completed' = [completed EXCEPT ![t] = CompletedAfter(r.seen, r.to, @)]
       /\ Answer(w, TRUE, t, status'[t])
    /\ UNCHANGED <<sent, deleted, key, madeIn, raced, Server>>

DeleteLoad(w) ==
    /\ At(w, "delete", "load")
    /\ IF Live(req[w].task) THEN req' = [req EXCEPT ![w].pc = "commit"] ELSE Reply(w, FALSE)
    /\ UNCHANGED <<rowVars, sent, raced, Server>>

DeleteCommit(w) ==
    /\ At(w, "delete", "commit")
    /\ deleted' = deleted \union {req[w].task}
    /\ Reply(w, TRUE)
    /\ UNCHANGED <<sent, status, completed, key, madeIn, raced, Server>>

\* A handler that has written nothing may be refused or break.
ServerFails(w) ==
    /\ req[w].pc \in {"load", "lookup"}
    /\ Reply(w, FALSE)
    /\ UNCHANGED <<rowVars, sent, raced, Server>>

(***************************************************************************)
(* The answers.  A request whose connection breaks fails for the page; if  *)
(* it has arrived, its handler goes on for nobody.                         *)
(***************************************************************************)
OnBoard(t, column) == [board EXCEPT ![t] = IF @ = "absent" THEN @ ELSE column]

Succeed(r) ==
    /\ board' = CASE r.for \in {"drag", "menu"} -> OnBoard(r.task, r.to)
                  [] r.for = "dialog" /\ r.op = "update" -> OnBoard(r.task, r.to)
                  [] r.for = "dialog" /\ r.op = "create" -> [board EXCEPT ![r.task] = r.to]
                  [] r.for = "delete" -> [board EXCEPT ![r.task] = "absent"]
                  [] OTHER -> board
    /\ dialog' = IF r.for = "dialog" THEN Closed ELSE dialog
    /\ confirmed' = IF r.op = "create" /\ r.for = "dialog" THEN confirmed \union {r.in} ELSE confirmed

\* Mutant: a refused card stays where it was dropped.
FailInPlace(r) == UNCHANGED <<board, dialog, confirmed>>

Fail(r) ==
    /\ board' = IF r.for = "drag" THEN OnBoard(r.task, r.was) ELSE board
    /\ UNCHANGED <<dialog, confirmed>>

Settle(w) == submitting' = IF submitting = w THEN NoWorker ELSE submitting

Deliver(w) ==
    /\ req[w].pc = "back" /\ req[w].for # "sweep"
    /\ IF req[w].ok THEN Succeed(req[w]) ELSE Fail(req[w])
    /\ Settle(w)
    /\ req' = [req EXCEPT ![w] = Idle]
    /\ UNCHANGED <<rowVars, sent, page, load, opened, raced, unsettled>>

\* The archived tasks are shown as archived, whatever became of the updates.
DeliverSweep(w) ==
    /\ req[w].pc = "back" /\ req[w].for = "sweep"
    /\ Show(WithArchived, IF req[w].ok THEN {} ELSE load.old)
    /\ req' = [req EXCEPT ![w] = Idle]
    /\ UNCHANGED <<rowVars, sent, dialog, submitting, opened, confirmed, raced>>

LoseConnection(w) ==
    /\ req[w].pc # "none" /\ req[w].for \in {"drag", "menu", "dialog", "delete"}
    /\ Fail(req[w])
    /\ Settle(w)
    /\ \/ /\ req[w].pc \in {"load", "lookup"}
          /\ req' = [req EXCEPT ![w] = Idle]
          /\ UNCHANGED unsettled
       \/ /\ req' = [req EXCEPT ![w] = IF @.pc = "back" THEN Idle
                                          ELSE [@ EXCEPT !.for = "nobody", !.was = "absent"]]
          /\ unsettled' = IF req[w].task = NoTask THEN unsettled ELSE unsettled \union {req[w].task}
    /\ UNCHANGED <<rowVars, sent, page, load, opened, raced>>

\* The connection of the update that a refresh waits for: allSettled takes the
\* failure, and the board is shown like after any other answer.
LoseSweep(w) ==
    /\ req[w].for = "sweep"
    /\ Show(WithArchived, load.old)
    /\ \/ /\ req[w].pc \in {"load", "back"}
          /\ req' = [req EXCEPT ![w] = Idle]
       \/ /\ req[w].pc # "back"
          /\ req' = [req EXCEPT ![w].for = "nobody"]
    /\ UNCHANGED <<rowVars, sent, dialog, submitting, opened, confirmed, raced>>

\* Another member's page, or the matter page, does the same to the server.
OtherMember(w, t) ==
    /\ Live(t)
    /\ \/ \E to \in Targets : Send(w, Update(t, to, "other"))
       \/ Send(w, Delete(t, "other"))
    /\ UNCHANGED <<rowVars, page, board, dialog, submitting, opened, confirmed, raced>>

Serve(w) ==
    \/ CreateLookup(w) \/ CreateFlush(w) \/ CreateCommit(w)
    \/ UpdateLoad(w) \/ UpdateCommit(w) \/ DeleteLoad(w) \/ DeleteCommit(w)
    \/ Deliver(w) \/ DeliverSweep(w)

Next ==
    \/ \E w \in Workers, t \in Tasks, to \in Targets : HandleDragEnd(w, t, to)
    \/ \E w \in Workers, t \in Tasks, to \in Targets : HandleStatusChange(w, t, to)
    \/ \E w \in Workers, t \in Tasks : HandleDelete(w, t) \/ OtherMember(w, t) \/ LoadArchive(w, t)
    \/ OpenCreate \/ CloseDialog
    \/ \E t \in Tasks : OpenEdit(t)
    \/ \E w \in Workers : SubmitCreate(w)
    \/ \E w \in Workers, to \in Targets : SubmitEdit(w, to)
    \/ Refresh \/ TryAgain \/ LoadRead \/ LoadBack \/ LoadFails
    \/ \E w \in Workers : Serve(w) \/ ServerFails(w) \/ LoseConnection(w) \/ LoseSweep(w)

Spec == Init /\ [][Next]_vars

(***************************************************************************)
(* Properties                                                              *)
(***************************************************************************)
Requests ==
    [op : {"none", "create", "update", "delete"},
     pc : {"none", "lookup", "flush", "load", "commit", "back"},
     task : Tasks \union {NoTask}, to : Columns, seen : Columns \union {"absent"},
     key : Openings, in : Openings,
     for : {"nobody", "drag", "menu", "dialog", "delete", "sweep", "other"},
     was : Columns \union {"absent"}, ok : BOOLEAN]

TypeOK ==
    /\ status \in [Tasks -> Columns \union {"absent"}]
    /\ completed \in [Tasks -> BOOLEAN]
    /\ deleted \subseteq Tasks
    /\ key \in [Tasks -> Openings]
    /\ madeIn \in [Tasks -> Openings]
    /\ req \in [Workers -> Requests]
    /\ sent \in 0 .. MaxRequests
    /\ page \in {"loading", "error", "board"}
    /\ board \in [Tasks -> Columns \union {"absent"}]
    /\ load \in [pc : {"none", "sent", "back", "archiving"}, snap : [Tasks -> Columns \union {"absent"}],
                 old : SUBSET Tasks, quiet : BOOLEAN]
    /\ dialog \in [open : BOOLEAN, task : Tasks \union {NoTask}, key : Openings]
    /\ submitting \in Workers \union {NoWorker}
    /\ opened \in Openings
    /\ confirmed \subseteq Openings
    /\ raced \subseteq Tasks
    /\ unsettled \subseteq Tasks

\* What the steps of a request may hold: a create carries the key of the
\* opening it was sent in, and what it was confirmed with was made in it.
RequestsFit ==
    \A w \in Workers :
        /\ req[w].op = "none" => req[w].pc = "none"
        /\ req[w].op \in {"update", "delete"} => req[w].task \in Tasks /\ req[w].pc \in {"load", "commit", "back"}
        /\ req[w].op = "create" =>
               /\ req[w].pc \in {"lookup", "flush", "commit", "back"}
               /\ req[w].key = req[w].in
               /\ req[w].in # 0
        /\ At(w, "create", "back") /\ req[w].ok => \E t \in Tasks : madeIn[t] = req[w].in

KeysFit ==
    /\ \A t \in Tasks : key[t] = madeIn[t] /\ (status[t] = "absent" => key[t] = 0)
    /\ dialog.open /\ dialog.task = NoTask => dialog.key = opened /\ opened # 0

\* Rows that are flushed and not committed have a primary key and an
\* idempotency key of their own.
FlushesApart ==
    \A w \in Workers : At(w, "create", "commit") =>
        /\ req[w].task \in Tasks /\ status[req[w].task] = "absent"
        /\ \A t \in Tasks : ~HasKey(t, req[w].key)
        /\ \A v \in Workers :
              At(v, "create", "commit") /\ (req[v].task = req[w].task \/ req[v].key = req[w].key) => v = w

\* A session that alone writes a task still knows its status.
WritersKnow ==
    \A w \in Workers, t \in Tasks : Writing(w, t) =>
        /\ status[t] # "absent" /\ req[w].seen # "absent"
        /\ t \notin raced => req[w].seen = status[t] /\ \A v \in Workers : Writing(v, t) => v = w

RowsInv == TypeOK /\ RequestsFit /\ KeysFit /\ FlushesApart /\ WritersKnow

\* What the page or a request knows of has a row; only a create may be about
\* to make one.
KnownFits ==
    /\ \A t \in Tasks :
          \/ board[t] # "absent" \/ load.snap[t] # "absent" \/ t \in load.old
          \/ t \in deleted \/ dialog.task = t
          => status[t] # "absent"
    /\ \A w \in Workers :
          req[w].task \in Tasks /\ ~At(w, "create", "commit") => status[req[w].task] # "absent"

\* Who may wait for a request, and what it is for.
PurposeFits(r) ==
    /\ r.op = "none" => r.task = NoTask /\ r.for = "nobody"
    /\ r.op = "create" =>
          /\ r.for \in {"dialog", "nobody"}
          /\ r.pc \in {"lookup", "flush"} \/ (r.pc = "back" /\ ~r.ok) => r.task = NoTask
          /\ r.pc # "back" => r.to = "todo"
    /\ r.op = "update" => r.for # "delete" /\ (r.for = "sweep" /\ r.pc # "back" => r.to = "archived")
    /\ r.op = "delete" => r.for \in {"delete", "other", "nobody"}

PurposesFit == \A w \in Workers : PurposeFits(req[w])

\* The refresh in flight: the update it waits for, and the requests it met.
RefreshFits ==
    /\ load.pc # "archiving" => load.old = {}
    /\ \A v, w \in Workers : req[v].for = "sweep" /\ req[w].for = "sweep" => v = w
    /\ \A w \in Workers :
          req[w].for = "sweep" => load.pc = "archiving" /\ load.old = {req[w].task}
    /\ load.quiet => load.pc # "none" /\ \A w \in Workers : req[w].op = "none" \/ req[w].for = "sweep"
    /\ page = "error" => load.pc = "none"

\* What a request knows or was answered is so, and its card is where its
\* answer will find it.
ServerFits(r, t) ==
    /\ r.op = "update" /\ r.pc = "commit" => Live(t) /\ r.seen = status[t]
    /\ r.for = "sweep" => r.to = "archived"
    /\ r.pc = "back" /\ r.ok => OnServer(t) = IF r.op = "delete" THEN "absent" ELSE r.to

CardFits(r, t) ==
    /\ r.for = "drag" => board[t] = r.to
    /\ r.pc = "back" /\ r.ok => r.op # "update" \/ board[t] # "absent"
    /\ r.pc # "back" \/ ~r.ok => OnServer(t) = IF r.for = "drag" THEN r.was ELSE board[t]

\* A task is followed if nothing unsettled it or the refresh will settle it:
\* one request at most is in flight for it, and the refresh has it right.
Followed(t) == t \notin unsettled \/ load.quiet

SettledFor(t) ==
    /\ Followed(t) =>
          /\ load.pc \in {"back", "archiving"} /\ t \notin load.old => load.snap[t] = OnServer(t)
          /\ \A w \in InFlight(t) :
                /\ InFlight(t) = {w} /\ ServerFits(req[w], t)
                /\ req[w].for \in {"nobody", "other"} => req[w].for = "nobody" /\ At(w, "create", "commit")
                /\ load.pc # "none" => At(w, "create", "commit") \/ req[w].for = "sweep"
    /\ t \notin unsettled /\ load.pc # "archiving" =>
          /\ InFlight(t) = {} => board[t] = OnServer(t)
          /\ \A w \in InFlight(t) : CardFits(req[w], t)

SettledFits == \A t \in Tasks : SettledFor(t)

BoardInv == RowsInv /\ KnownFits /\ PurposesFit /\ RefreshFits /\ SettledFits

\* Once its requests are answered a card is in the column of its task: a move
\* the server refused is taken back, one it made is kept, a deleted card is
\* gone, and a refresh brings every task back to what the server has.  Only
\* requests that met each other, an answer that was lost, another member's
\* change and a failed archiving can leave it wrong until the next refresh.
SettledBoardAgrees ==
    load.pc = "none" =>
        \A t \in Tasks \ unsettled : InFlight(t) = {} => board[t] = OnServer(t)

\* completed_at says whether a task is done, except where two sessions wrote
\* the same task at once: each decides on the status it had loaded.
CompletedMatchesStatus == \A t \in Tasks \ raced : completed[t] <=> status[t] = "done"

\* One opening of the dialog makes at most one task, however often its form
\* is sent and however its connections break, deleted tasks included.
OneTaskPerOpening ==
    \A t, u \in Tasks : madeIn[t] = madeIn[u] /\ madeIn[t] # 0 => t = u

\* A creation that was confirmed made a task of its own: the answer is never
\* the row of an earlier opening whose key was used again.
ConfirmedIsMade == \A d \in confirmed : \E t \in Tasks : madeIn[t] = d
=============================================================================
