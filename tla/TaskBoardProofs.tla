--------------------------- MODULE TaskBoardProofs ---------------------------
(***************************************************************************)
(* What no interleaving of drags, dialogs, refreshes, lost answers and     *)
(* other members' changes breaks, for every instance of TaskBoard.         *)
(***************************************************************************)
EXTENDS TaskBoard, TLAPS

\* What the page and the history variables are, whatever the rows and requests.
PageOK ==
    /\ sent \in 0 .. MaxRequests
    /\ page \in {"loading", "error", "board"}
    /\ board \in [Tasks -> Columns \union {"absent"}]
    /\ load \in [pc : {"none", "sent", "back", "archiving"}, snap : [Tasks -> Columns \union {"absent"}],
                 old : SUBSET Tasks, quiet : BOOLEAN]
    /\ dialog \in [open : BOOLEAN, task : Tasks \union {NoTask}, key : Openings]
    /\ submitting \in Workers \union {NoWorker}
    /\ opened \in Openings
    /\ confirmed \subseteq Openings
    /\ raced \subseteq Tasks
    /\ unsettled \subseteq Tasks
    /\ dialog.open /\ dialog.task = NoTask => dialog.key = opened /\ opened # 0

\* What RequestsFit asks of one request.
Fits(r) ==
    /\ r.op = "none" => r.pc = "none"
    /\ r.op \in {"update", "delete"} => r.task \in Tasks /\ r.pc \in {"load", "commit", "back"}
    /\ r.op = "create" =>
           /\ r.pc \in {"lookup", "flush", "commit", "back"}
           /\ r.key = r.in
           /\ r.in # 0

LEMMA PageIsOK ==
    ASSUME RowsInv
    PROVE  PageOK
BY DEF RowsInv, TypeOK, KeysFit, PageOK

\* What a request may hold, field by field.
LEMMA RequestFields ==
    ASSUME NEW r \in Requests
    PROVE  /\ r.op \in {"none", "create", "update", "delete"}
           /\ r.pc \in {"none", "lookup", "flush", "load", "commit", "back"}
           /\ r.task \in Tasks \union {NoTask} /\ r.to \in Columns
           /\ r.seen \in Columns \union {"absent"}
           /\ r.key \in Openings /\ r.in \in Openings
           /\ r.for \in {"nobody", "drag", "menu", "dialog", "delete", "sweep", "other"}
           /\ r.was \in Columns \union {"absent"} /\ r.ok \in BOOLEAN
BY DEF Requests

LEMMA IdleType == Idle \in Requests /\ Fits(Idle) /\ Idle.op = "none" /\ Idle.pc = "none"
BY BoardAssumption DEF Idle, Requests, Columns, Openings, Fits

(***************************************************************************)
(* Steps that write no row                                                 *)
(***************************************************************************)

\* The page alone.
LEMMA PageSafe ==
    ASSUME RowsInv, UNCHANGED <<rowVars, req, raced>>, PageOK'
    PROVE  RowsInv'
BY DEF RowsInv, TypeOK, KeysFit, PageOK, RequestsFit, FlushesApart, WritersKnow, At, Writing, HasKey, rowVars

\* One request moves on.  One that is about to commit must know what it needs.
LEMMA SessionSafe ==
    ASSUME RowsInv, NEW w \in Workers, NEW r \in Requests,
           req' = [req EXCEPT ![w] = r],
           UNCHANGED rowVars, raced \subseteq raced', PageOK',
           Fits(r),
           r.op = "create" /\ r.pc = "back" /\ r.ok => \E t \in Tasks : madeIn[t] = r.in,
           r.op = "create" /\ r.pc = "commit" =>
              /\ r.task \in Tasks /\ status[r.task] = "absent"
              /\ \A t \in Tasks : ~HasKey(t, r.key)
              /\ \A v \in Workers \ {w} :
                    At(v, "create", "commit") => req[v].task # r.task /\ req[v].key # r.key,
           r.op = "update" /\ r.pc = "commit" =>
              /\ status[r.task] # "absent" /\ r.seen # "absent"
              /\ r.task \notin raced' =>
                    r.seen = status[r.task] /\ \A v \in Workers \ {w} : ~Writing(v, r.task)
    PROVE  RowsInv'
<1>1. req'[w] = r /\ \A v \in Workers \ {w} : req'[v] = req[v]
  BY DEF RowsInv, TypeOK
<1>2. TypeOK' /\ KeysFit'
  BY DEF RowsInv, TypeOK, KeysFit, PageOK, rowVars
<1>3. RequestsFit'
  BY <1>1 DEF RowsInv, RequestsFit, Fits, At, rowVars
<1>4. FlushesApart'
  BY <1>1 DEF RowsInv, FlushesApart, At, HasKey, rowVars
<1>5. WritersKnow'
  BY <1>1 DEF RowsInv, WritersKnow, Writing, rowVars
<1> QED BY <1>2, <1>3, <1>4, <1>5 DEF RowsInv

\* A request is sent.
LEMMA SendSafe ==
    ASSUME RowsInv, NEW w \in Workers, NEW r \in Requests, Send(w, r),
           Fits(r), r.pc \in {"load", "lookup"},
           UNCHANGED <<rowVars, page, opened, confirmed, raced>>,
           board' \in [Tasks -> Columns \union {"absent"}],
           submitting' \in Workers \union {NoWorker}, dialog' = dialog
    PROVE  RowsInv'
<1>1. sent' \in 0 .. MaxRequests /\ unsettled' \subseteq Tasks
  BY BoardAssumption, RequestFields DEF Send, RowsInv, TypeOK
<1>2. load' \in [pc : {"none", "sent", "back", "archiving"}, snap : [Tasks -> Columns \union {"absent"}],
                 old : SUBSET Tasks, quiet : BOOLEAN]
  BY DEF Send, RowsInv, TypeOK
<1>3. PageOK'
  BY <1>1, <1>2, PageIsOK DEF PageOK
<1> QED BY <1>3, SessionSafe DEF Send

\* Requests for an update and a deletion, as they are sent.
LEMMA UpdateType ==
    ASSUME NEW t \in Tasks, NEW to \in Columns,
           NEW who \in {"drag", "menu", "dialog", "sweep", "other"}
    PROVE  /\ Update(t, to, who) \in Requests /\ Fits(Update(t, to, who))
           /\ Update(t, to, who).pc = "load" /\ Update(t, to, who).op = "update"
BY IdleType DEF Update, Idle, Requests, Fits

LEMMA DeleteType ==
    ASSUME NEW t \in Tasks, NEW who \in {"delete", "other"}
    PROVE  /\ Delete(t, who) \in Requests /\ Fits(Delete(t, who)) /\ Delete(t, who).pc = "load"
BY IdleType DEF Delete, Idle, Requests, Fits

\* An answer that nobody waits for ends the request, any other goes back.
LEMMA AnswerStep ==
    ASSUME RowsInv, NEW w \in Workers, req[w].op # "none",
           NEW ok \in BOOLEAN, NEW t \in Tasks \union {NoTask}, NEW to \in Columns,
           Answer(w, ok, t, to),
           req[w].op \in {"update", "delete"} => t \in Tasks
    PROVE  \E r \in Requests :
              /\ req' = [req EXCEPT ![w] = r]
              /\ Fits(r) /\ r.pc \in {"none", "back"}
              /\ r.op # "none" => r.op = req[w].op /\ r.in = req[w].in /\ r.ok = ok
<1> DEFINE back == [req[w] EXCEPT !.pc = "back", !.ok = ok, !.task = t, !.to = to, !.seen = "absent"]
<1>1. req[w] \in Requests /\ Fits(req[w])
  BY DEF RowsInv, TypeOK, RequestsFit, Fits
<1>2. CASE Unheard(w)
  <2>1. req' = [req EXCEPT ![w] = Idle]
    BY <1>2 DEF Answer
  <2> QED BY <2>1, IdleType
<1>3. CASE ~Unheard(w)
  <2>1. req' = [req EXCEPT ![w] = back]
    BY <1>3 DEF Answer, RowsInv, TypeOK
  <2>2. /\ back \in Requests /\ back.op = req[w].op /\ back.pc = "back" /\ back.ok = ok
        /\ back.task = t /\ back.in = req[w].in /\ back.key = req[w].key
    BY <1>1 DEF Requests
  <2> HIDE DEF back
  <2>3. Fits(back)
    BY <1>1, <2>2, RequestFields DEF Fits
  <2> QED BY <2>1, <2>2, <2>3
<1> QED BY <1>2, <1>3

LEMMA AnswerSafe ==
    ASSUME RowsInv, NEW w \in Workers, req[w].op # "none",
           NEW ok \in BOOLEAN, NEW t \in Tasks \union {NoTask}, NEW to \in Columns,
           Answer(w, ok, t, to),
           req[w].op \in {"update", "delete"} => t \in Tasks,
           req[w].op = "create" /\ ok => \E u \in Tasks : madeIn[u] = req[w].in,
           UNCHANGED rowVars, raced' = raced, PageOK'
    PROVE  RowsInv'
<1>1. PICK r \in Requests :
          /\ req' = [req EXCEPT ![w] = r]
          /\ Fits(r) /\ r.pc \in {"none", "back"}
          /\ r.op # "none" => r.op = req[w].op /\ r.in = req[w].in /\ r.ok = ok
  BY AnswerStep
<1> QED BY <1>1, SessionSafe

\* A handler that wrote nothing answers that it failed.
LEMMA RefusalSafe ==
    ASSUME RowsInv, NEW w \in Workers, req[w].op # "none", Reply(w, FALSE),
           UNCHANGED <<rowVars, sent, raced, Server>>
    PROVE  RowsInv'
<1>1. req[w] \in Requests /\ Fits(req[w])
  BY DEF RowsInv, TypeOK, RequestsFit, Fits
<1>2. PageOK'
  BY PageIsOK DEF PageOK, Server, pageVars
<1>3. req[w].task \in Tasks \union {NoTask} /\ req[w].to \in Columns
      /\ (req[w].op \in {"update", "delete"} => req[w].task \in Tasks)
  BY <1>1, RequestFields DEF Fits
<1>4. Answer(w, FALSE, req[w].task, req[w].to)
  BY DEF Reply
<1> QED BY <1>2, <1>3, <1>4, AnswerSafe DEF Server

(***************************************************************************)
(* The page                                                                *)
(***************************************************************************)
LEMMA HandleDragEndSafe ==
    ASSUME RowsInv, NEW w \in Workers, NEW t \in Tasks, NEW to \in Targets, HandleDragEnd(w, t, to)
    PROVE  RowsInv'
<1> DEFINE r == [Update(t, to, "drag") EXCEPT !.was = board[t]]
<1>1. to \in Columns
  BY BoardAssumption DEF Columns
<1>2. Update(t, to, "drag") \in Requests /\ board[t] \in Columns \union {"absent"}
  BY <1>1, UpdateType DEF RowsInv, TypeOK
<1>3. r \in Requests /\ Fits(r) /\ r.pc = "load"
  BY <1>1, <1>2, UpdateType DEF Requests, Fits
<1>4. board' \in [Tasks -> Columns \union {"absent"}]
  BY <1>1 DEF HandleDragEnd, RowsInv, TypeOK
<1>5. Send(w, r) /\ submitting' \in Workers \union {NoWorker} /\ dialog' = dialog
      /\ UNCHANGED <<rowVars, page, opened, confirmed, raced>>
  BY DEF HandleDragEnd, RowsInv, TypeOK
<1> HIDE DEF r
<1> QED BY <1>3, <1>4, <1>5, SendSafe

LEMMA HandleStatusChangeSafe ==
    ASSUME RowsInv, NEW w \in Workers, NEW t \in Tasks, NEW to \in Targets, HandleStatusChange(w, t, to)
    PROVE  RowsInv'
<1>1. to \in Columns
  BY BoardAssumption DEF Columns
<1> QED BY <1>1, UpdateType, SendSafe DEF HandleStatusChange, RowsInv, TypeOK

LEMMA HandleDeleteSafe ==
    ASSUME RowsInv, NEW w \in Workers, NEW t \in Tasks, HandleDelete(w, t)
    PROVE  RowsInv'
BY DeleteType, SendSafe DEF HandleDelete, RowsInv, TypeOK

LEMMA OtherMemberSafe ==
    ASSUME RowsInv, NEW w \in Workers, NEW t \in Tasks, OtherMember(w, t)
    PROVE  RowsInv'
<1>1. \A to \in Targets : to \in Columns
  BY BoardAssumption DEF Columns
<1>2. CASE \E to \in Targets : Send(w, Update(t, to, "other"))
  BY <1>1, <1>2, UpdateType, SendSafe DEF OtherMember, RowsInv, TypeOK
<1>3. CASE Send(w, Delete(t, "other"))
  BY <1>3, DeleteType, SendSafe DEF OtherMember, RowsInv, TypeOK
<1> QED BY <1>2, <1>3 DEF OtherMember

\* The key of an opening is its number.
LEMMA DialogSafe ==
    ASSUME RowsInv, OpenCreate \/ CloseDialog \/ \E t \in Tasks : OpenEdit(t)
    PROVE  RowsInv'
<1>1. PageOK
  BY PageIsOK
<1>2. CASE OpenCreate
  <2>1. opened' = opened + 1 /\ opened' \in Openings /\ opened' # 0
    BY <1>1, <1>2, BoardAssumption DEF OpenCreate, PageOK, Openings
  <2>2. dialog' = [open |-> TRUE, task |-> NoTask, key |-> opened']
    BY <1>2 DEF OpenCreate, Closed
  <2>3. dialog' \in [open : BOOLEAN, task : Tasks \union {NoTask}, key : Openings] /\ dialog'.key = opened'
    BY <2>1, <2>2
  <2>4. PageOK'
    BY <1>1, <1>2, <2>1, <2>3 DEF OpenCreate, PageOK
  <2> QED BY <1>2, <2>4, PageSafe DEF OpenCreate
<1>3. CASE CloseDialog
  <2>1. dialog' = [open |-> FALSE, task |-> NoTask, key |-> 0] /\ 0 \in Openings
    BY <1>3, BoardAssumption DEF CloseDialog, Closed, Openings
  <2>2. PageOK'
    BY <1>1, <1>3, <2>1 DEF CloseDialog, PageOK
  <2> QED BY <1>3, <2>2, PageSafe DEF CloseDialog
<1>4. CASE \E t \in Tasks : OpenEdit(t)
  <2>1. PICK t \in Tasks : OpenEdit(t)
    BY <1>4
  <2>2. dialog' = [open |-> TRUE, task |-> t, key |-> 0]
    BY <2>1 DEF OpenEdit, Closed
  <2>3. 0 \in Openings /\ t # NoTask
    BY BoardAssumption DEF Openings
  <2>4. dialog' \in [open : BOOLEAN, task : Tasks \union {NoTask}, key : Openings] /\ dialog'.task # NoTask
    BY <2>2, <2>3
  <2>5. PageOK'
    BY <1>1, <2>1, <2>4 DEF OpenEdit, PageOK
  <2> QED BY <2>1, <2>5, PageSafe DEF OpenEdit
<1> QED BY <1>2, <1>3, <1>4

LEMMA SubmitCreateSafe ==
    ASSUME RowsInv, NEW w \in Workers, SubmitCreate(w)
    PROVE  RowsInv'
<1> DEFINE r == [Idle EXCEPT !.op = "create", !.pc = "lookup", !.key = dialog.key,
                             !.in = opened, !.for = "dialog"]
<1>1. dialog.key = opened /\ opened # 0 /\ opened \in Openings
  BY DEF SubmitCreate, RowsInv, KeysFit, TypeOK
<1>2. r \in Requests /\ Fits(r) /\ r.pc = "lookup"
  BY <1>1, IdleType DEF Idle, Requests, Fits
<1>3. Send(w, r) /\ submitting' \in Workers \union {NoWorker} /\ dialog' = dialog
      /\ board' \in [Tasks -> Columns \union {"absent"}]
      /\ UNCHANGED <<rowVars, page, opened, confirmed, raced>>
  BY DEF SubmitCreate, RowsInv, TypeOK
<1> HIDE DEF r
<1> QED BY <1>2, <1>3, SendSafe

LEMMA SubmitEditSafe ==
    ASSUME RowsInv, NEW w \in Workers, NEW to \in Targets, SubmitEdit(w, to)
    PROVE  RowsInv'
<1>1. to \in Columns /\ dialog.task \in Tasks
  BY BoardAssumption DEF SubmitEdit, RowsInv, TypeOK, Columns
<1> QED BY <1>1, UpdateType, SendSafe DEF SubmitEdit, RowsInv, TypeOK

(***************************************************************************)
(* loadBoard                                                               *)
(***************************************************************************)
LEMMA OnServerType ==
    ASSUME RowsInv, NEW t \in Tasks
    PROVE  OnServer(t) \in Columns \union {"absent"}
BY DEF OnServer, RowsInv, TypeOK

LEMMA LoadSafe ==
    ASSUME RowsInv, Refresh \/ TryAgain \/ LoadRead \/ LoadBack \/ LoadFails
    PROVE  RowsInv'
<1>1. PageOK
  BY PageIsOK
<1>2. NoLoad \in [pc : {"none", "sent", "back", "archiving"}, snap : [Tasks -> Columns \union {"absent"}],
                  old : SUBSET Tasks, quiet : BOOLEAN]
  BY DEF NoLoad
<1>3. ASSUME NEW then \in {"loading", "board"}, Reload(then)
      PROVE  RowsInv'
  <2>1. load' \in [pc : {"none", "sent", "back", "archiving"}, snap : [Tasks -> Columns \union {"absent"}],
                   old : SUBSET Tasks, quiet : BOOLEAN]
    BY <1>3 DEF Reload, NoLoad, Quiet
  <2>2. PageOK'
    BY <1>1, <1>3, <2>1 DEF Reload, PageOK
  <2> QED BY <1>3, <2>2, PageSafe DEF Reload
<1>4. CASE LoadRead
  <2>1. load' \in [pc : {"none", "sent", "back", "archiving"}, snap : [Tasks -> Columns \union {"absent"}],
                   old : SUBSET Tasks, quiet : BOOLEAN]
    BY <1>1, <1>4, OnServerType DEF LoadRead, PageOK
  <2>2. PageOK'
    BY <1>1, <1>4, <2>1 DEF LoadRead, PageOK
  <2> QED BY <1>4, <2>2, PageSafe DEF LoadRead
<1>5. CASE LoadBack
  <2>1. PageOK'
    BY <1>1, <1>2, <1>5 DEF LoadBack, Show, PageOK
  <2> QED BY <1>5, <2>1, PageSafe DEF LoadBack
<1>6. CASE LoadFails
  <2>1. PageOK'
    BY <1>1, <1>2, <1>6 DEF LoadFails, PageOK
  <2> QED BY <1>6, <2>1, PageSafe DEF LoadFails
<1> QED BY <1>3, <1>4, <1>5, <1>6 DEF Refresh, TryAgain

LEMMA LoadArchiveSafe ==
    ASSUME RowsInv, NEW w \in Workers, NEW t \in Tasks, LoadArchive(w, t)
    PROVE  RowsInv'
<1>1. /\ Update(t, "archived", "sweep") \in Requests /\ Fits(Update(t, "archived", "sweep"))
      /\ Update(t, "archived", "sweep").pc = "load"
  BY UpdateType DEF Columns
<1>2. load' \in [pc : {"none", "sent", "back", "archiving"}, snap : [Tasks -> Columns \union {"absent"}],
                 old : SUBSET Tasks, quiet : BOOLEAN]
  BY DEF LoadArchive, RowsInv, TypeOK
<1>3. PageOK'
  BY <1>2, PageIsOK DEF LoadArchive, PageOK
<1> QED BY <1>1, <1>3, SessionSafe DEF LoadArchive

(***************************************************************************)
(* The server                                                              *)
(***************************************************************************)
LEMMA ServerFailsSafe ==
    ASSUME RowsInv, NEW w \in Workers, ServerFails(w)
    PROVE  RowsInv'
<1>1. req[w].op # "none"
  BY DEF ServerFails, RowsInv, RequestsFit
<1> QED BY <1>1, RefusalSafe DEF ServerFails

LEMMA CreateLookupSafe ==
    ASSUME RowsInv, NEW w \in Workers, CreateLookup(w)
    PROVE  RowsInv'
<1>1. req[w] \in Requests /\ Fits(req[w]) /\ req[w].op = "create"
  BY DEF CreateLookup, At, RowsInv, TypeOK, RequestsFit, Fits
<1>2. CASE \E t \in Tasks :
             /\ HasKey(t, req[w].key)
             /\ Answer(w, TRUE, t, status[t])
             /\ unsettled' = IF load.pc # "none" \/ InFlight(t) # {} \/ t \in deleted
                             THEN unsettled \union {t} ELSE unsettled
  <2>1. PICK t \in Tasks :
             /\ HasKey(t, req[w].key)
             /\ Answer(w, TRUE, t, status[t])
             /\ unsettled' \in {unsettled, unsettled \union {t}}
    BY <1>2
  <2>2. status[t] \in Columns /\ madeIn[t] = req[w].in
    BY <1>1, <2>1 DEF HasKey, Fits, RowsInv, TypeOK, KeysFit
  <2>3. PageOK'
    BY <2>1, PageIsOK DEF CreateLookup, PageOK, pageVars
  <2> QED BY <1>1, <2>1, <2>2, <2>3, AnswerSafe DEF CreateLookup
<1>3. CASE req' = [req EXCEPT ![w].pc = "flush"] /\ UNCHANGED unsettled
  <2> DEFINE r == [req[w] EXCEPT !.pc = "flush"]
  <2>1. req' = [req EXCEPT ![w] = r]
    BY <1>3 DEF RowsInv, TypeOK
  <2>2. r \in Requests /\ Fits(r) /\ r.pc = "flush"
    BY <1>1 DEF Requests, Fits
  <2>3. PageOK'
    BY <1>3, PageIsOK DEF CreateLookup, PageOK, pageVars
  <2> HIDE DEF r
  <2> QED BY <2>1, <2>2, <2>3, SessionSafe DEF CreateLookup
<1> QED BY <1>2, <1>3 DEF CreateLookup

\* The row is flushed under a primary key and an idempotency key of its own.
LEMMA CreateFlushSafe ==
    ASSUME RowsInv, NEW w \in Workers, CreateFlush(w)
    PROVE  RowsInv'
<1>1. req[w] \in Requests /\ Fits(req[w]) /\ req[w].op = "create"
  BY DEF CreateFlush, At, RowsInv, TypeOK, RequestsFit, Fits
<1>2. CASE Reply(w, FALSE)
  BY <1>1, <1>2, RefusalSafe DEF CreateFlush
<1>3. CASE /\ \A t \in Tasks : ~HasKey(t, req[w].key)
           /\ \E t \in Tasks :
                /\ status[t] = "absent" /\ ~Flushed(t)
                /\ req' = [req EXCEPT ![w].pc = "commit", ![w].task = t]
  <2>1. PICK t \in Tasks :
                /\ status[t] = "absent" /\ ~Flushed(t)
                /\ req' = [req EXCEPT ![w].pc = "commit", ![w].task = t]
    BY <1>3
  <2> DEFINE r == [req[w] EXCEPT !.pc = "commit", !.task = t]
  <2>2. req' = [req EXCEPT ![w] = r]
    BY <2>1 DEF RowsInv, TypeOK
  <2>3. /\ r \in Requests /\ Fits(r) /\ r.pc = "commit" /\ r.op = "create" /\ r.task = t
        /\ r.key = req[w].key
    BY <1>1 DEF Requests, Fits
  <2>4. PageOK'
    BY PageIsOK DEF CreateFlush, PageOK, Server, pageVars
  <2> HIDE DEF r
  <2>5. \A v \in Workers \ {w} :
           At(v, "create", "commit") => req[v].task # r.task /\ req[v].key # r.key
    BY <2>1, <2>3 DEF CreateFlush, Flushed
  <2> QED BY <1>3, <2>1, <2>2, <2>3, <2>4, <2>5, SessionSafe DEF CreateFlush
<1> QED BY <1>2, <1>3 DEF CreateFlush

\* What a commit of a new row finds: an empty row, and no row with its key.
LEMMA CreateCommitFinds ==
    ASSUME RowsInv, NEW w \in Workers, CreateCommit(w)
    PROVE  /\ req[w] \in Requests /\ Fits(req[w]) /\ req[w].op = "create"
           /\ req[w].key = req[w].in /\ req[w].in # 0 /\ req[w].in \in Openings
           /\ req[w].task \in Tasks /\ status[req[w].task] = "absent"
           /\ madeIn[req[w].task] = 0
           /\ \A t \in Tasks : ~HasKey(t, req[w].key)
           /\ \A v \in Workers \ {w} :
                 At(v, "create", "commit") => req[v].task # req[w].task /\ req[v].key # req[w].key
<1>1. req[w] \in Requests /\ Fits(req[w]) /\ At(w, "create", "commit")
  BY DEF CreateCommit, At, RowsInv, TypeOK, RequestsFit, Fits
<1> QED BY <1>1, RequestFields DEF At, Fits, RowsInv, FlushesApart, KeysFit

LEMMA CreateCommitSafe ==
    ASSUME RowsInv, NEW w \in Workers, CreateCommit(w)
    PROVE  RowsInv'
<1> DEFINE t == req[w].task
<1>1. /\ req[w] \in Requests /\ Fits(req[w]) /\ req[w].op = "create"
      /\ req[w].key = req[w].in /\ req[w].in # 0 /\ req[w].in \in Openings
      /\ t \in Tasks /\ status[t] = "absent" /\ madeIn[t] = 0
      /\ \A v \in Workers \ {w} :
            At(v, "create", "commit") => req[v].task # t /\ req[v].key # req[w].key
  BY CreateCommitFinds
<1>2. PICK r \in Requests :
          /\ req' = [req EXCEPT ![w] = r]
          /\ Fits(r) /\ r.pc \in {"none", "back"}
          /\ r.op # "none" => r.op = req[w].op /\ r.in = req[w].in /\ r.ok = TRUE
  <2>1. req[w].task \in Tasks /\ req[w].to \in Columns /\ Answer(w, TRUE, req[w].task, req[w].to)
    BY <1>1, RequestFields DEF CreateCommit, Reply
  <2> QED BY <1>1, <2>1, AnswerStep
<1>3. req'[w] = r /\ \A v \in Workers \ {w} : req'[v] = req[v]
  BY <1>2 DEF RowsInv, TypeOK
<1>4. /\ status' = [status EXCEPT ![t] = "todo"]
      /\ key' = [key EXCEPT ![t] = req[w].in]
      /\ madeIn' = [madeIn EXCEPT ![t] = req[w].in]
      /\ unsettled' \in {unsettled, unsettled \union {t}}
      /\ UNCHANGED <<sent, completed, deleted, raced>>
      /\ UNCHANGED <<page, board, load, dialog, submitting, opened, confirmed>>
  BY <1>1 DEF CreateCommit, pageVars
<1> HIDE DEF t
<1>5. status'[t] = "todo" /\ key'[t] = req[w].in /\ madeIn'[t] = req[w].in
  BY <1>1, <1>4 DEF RowsInv, TypeOK
<1>6. \A u \in Tasks \ {t} : status'[u] = status[u] /\ key'[u] = key[u] /\ madeIn'[u] = madeIn[u]
  BY <1>1, <1>4 DEF RowsInv, TypeOK
<1>7. TypeOK'
  <2>1. status' \in [Tasks -> Columns \union {"absent"}]
    BY <1>4 DEF RowsInv, TypeOK, Columns
  <2>2. req' \in [Workers -> Requests]
    BY <1>2 DEF RowsInv, TypeOK
  <2> QED BY <1>1, <1>4, <2>1, <2>2 DEF RowsInv, TypeOK
<1>8. KeysFit'
  BY <1>4, <1>5, <1>6 DEF RowsInv, KeysFit
<1>9. RequestsFit'
  <2>1. ASSUME NEW v \in Workers, At(v, "create", "back")', req'[v].ok
        PROVE  \E u \in Tasks : madeIn'[u] = req'[v].in
    <3>1. CASE v = w
      BY <1>1, <1>2, <1>3, <1>5, <2>1, <3>1 DEF At
    <3>2. CASE v # w
      <4>1. PICK u \in Tasks : madeIn[u] = req[v].in
        BY <1>3, <2>1, <3>2 DEF RowsInv, RequestsFit, At
      <4>2. req[v].in # 0
        BY <1>3, <2>1, <3>2 DEF RowsInv, RequestsFit, At
      <4>3. u # t
        BY <1>1, <4>1, <4>2
      <4>4. madeIn'[u] = req'[v].in
        BY <1>3, <1>6, <3>2, <4>1, <4>3
      <4> QED BY <4>4
    <3> QED BY <3>1, <3>2
  <2> QED BY <1>2, <1>3, <2>1 DEF RowsInv, RequestsFit, Fits
<1>10. FlushesApart'
  <2>1. ASSUME NEW v \in Workers, At(v, "create", "commit")'
        PROVE  v # w /\ At(v, "create", "commit") /\ req'[v] = req[v]
    BY <1>2, <1>3, <2>1 DEF At
  <2>2. ASSUME NEW v \in Workers, At(v, "create", "commit")', NEW u \in Tasks
        PROVE  ~HasKey(u, req[v].key)'
    BY <1>1, <1>3, <1>5, <1>6, <2>1, <2>2 DEF HasKey, RowsInv, FlushesApart
  <2>3. ASSUME NEW v \in Workers, At(v, "create", "commit")'
        PROVE  req[v].task \in Tasks /\ status'[req[v].task] = "absent"
    BY <1>1, <1>6, <2>1, <2>3 DEF RowsInv, FlushesApart
  <2> QED BY <2>1, <2>2, <2>3 DEF RowsInv, FlushesApart
<1>11. WritersKnow'
  <2>1. \A v \in Workers, u \in Tasks : Writing(v, u)' => Writing(v, u) /\ v # w /\ u # t
    BY <1>1, <1>2, <1>3 DEF Writing, RowsInv, WritersKnow
  <2> QED BY <1>3, <1>4, <1>6, <2>1 DEF RowsInv, WritersKnow
<1> QED BY <1>7, <1>8, <1>9, <1>10, <1>11 DEF RowsInv

LEMMA UpdateLoadSafe ==
    ASSUME RowsInv, NEW w \in Workers, UpdateLoad(w)
    PROVE  RowsInv'
<1> DEFINE t == req[w].task
<1>1. req[w] \in Requests /\ req[w].op = "update" /\ t \in Tasks
  BY DEF UpdateLoad, At, RowsInv, TypeOK, RequestsFit
<1>2. CASE /\ Live(t)
           /\ req' = [req EXCEPT ![w].pc = "commit", ![w].seen = status[t]]
           /\ raced' = IF \E v \in Workers : Writing(v, t) THEN raced \union {t} ELSE raced
  <2> DEFINE r == [req[w] EXCEPT !.pc = "commit", !.seen = status[t]]
  <2>1. req' = [req EXCEPT ![w] = r]
    BY <1>2 DEF RowsInv, TypeOK
  <2>2. status[t] \in Columns \union {"absent"} /\ status[t] # "absent"
    BY <1>1, <1>2 DEF Live, RowsInv, TypeOK
  <2>3. /\ r \in Requests /\ r.pc = "commit" /\ r.op = "update" /\ r.task = t
        /\ r.seen = status[t]
    BY <1>1, <2>2 DEF Requests
  <2>4. PageOK'
    BY <1>1, <1>2, PageIsOK DEF UpdateLoad, PageOK, Server, pageVars
  <2> HIDE DEF r, t
  <2>5. Fits(r)
    BY <1>1, <2>3 DEF Fits
  <2>6. t \notin raced' => \A v \in Workers \ {w} : ~Writing(v, t)
    BY <1>2
  <2>7. raced \subseteq raced' /\ UNCHANGED rowVars
    BY <1>2 DEF UpdateLoad
  <2> QED BY <2>1, <2>2, <2>3, <2>4, <2>5, <2>6, <2>7, SessionSafe
<1>3. CASE Reply(w, FALSE) /\ UNCHANGED raced
  BY <1>1, <1>3, RefusalSafe DEF UpdateLoad
<1> QED BY <1>2, <1>3 DEF UpdateLoad

\* What a commit of an update finds: a row, of the status it knows if it is
\* the only one to write it.
LEMMA UpdateCommitFinds ==
    ASSUME RowsInv, NEW w \in Workers, UpdateCommit(w)
    PROVE  /\ req[w] \in Requests /\ req[w].op = "update" /\ Writing(w, req[w].task)
           /\ req[w].task \in Tasks /\ req[w].to \in Columns
           /\ status[req[w].task] \in Columns
           /\ req[w].task \notin raced =>
                 /\ req[w].seen = status[req[w].task]
                 /\ \A v \in Workers : Writing(v, req[w].task) => v = w
<1>1. req[w] \in Requests /\ Writing(w, req[w].task) /\ req[w].task \in Tasks
  BY DEF UpdateCommit, At, Writing, RowsInv, TypeOK, RequestsFit
<1> QED BY <1>1, RequestFields DEF Writing, RowsInv, TypeOK, WritersKnow

LEMMA UpdateCommitSafe ==
    ASSUME RowsInv, NEW w \in Workers, UpdateCommit(w)
    PROVE  RowsInv'
<1>0. PICK t \in Tasks : t = req[w].task
  BY UpdateCommitFinds
<1>1. /\ req[w].op = "update" /\ Writing(w, t)
      /\ t \in Tasks /\ req[w].to \in Columns /\ status[t] \in Columns
      /\ t \notin raced => \A v \in Workers : Writing(v, t) => v = w
  BY <1>0, UpdateCommitFinds
<1>2. /\ status' \in {status, [status EXCEPT ![t] = req[w].to]}
      /\ completed' = [completed EXCEPT ![t] = CompletedAfter(req[w].seen, req[w].to, @)]
      /\ Answer(w, TRUE, t, status'[t])
      /\ UNCHANGED <<sent, deleted, key, madeIn, raced>>
      /\ UNCHANGED <<page, board, load, dialog, submitting, opened, confirmed, unsettled>>
  BY <1>0 DEF UpdateCommit, Server, pageVars
<1>3. status' \in [Tasks -> Columns \union {"absent"}] /\ status'[t] \in Columns
  BY <1>1, <1>2 DEF RowsInv, TypeOK
<1>4. \A u \in Tasks \ {t} : status'[u] = status[u]
  BY <1>1, <1>2 DEF RowsInv, TypeOK
<1>5. status[t] # "absent" /\ status'[t] # "absent"
  BY <1>1, <1>3 DEF Columns
<1>6. PICK r \in Requests :
          /\ req' = [req EXCEPT ![w] = r]
          /\ Fits(r) /\ r.pc \in {"none", "back"}
          /\ r.op # "none" => r.op = req[w].op /\ r.in = req[w].in /\ r.ok = TRUE
  BY <1>1, <1>2, <1>3, AnswerStep
<1>7. req'[w] = r /\ \A v \in Workers \ {w} : req'[v] = req[v]
  BY <1>6 DEF RowsInv, TypeOK
<1>8. TypeOK'
  <2>1. completed' \in [Tasks -> BOOLEAN]
    <3>1. CompletedAfter(req[w].seen, req[w].to, completed[t]) \in BOOLEAN
      BY <1>1 DEF CompletedAfter, RowsInv, TypeOK
    <3>2. completed' = [completed EXCEPT ![t] = CompletedAfter(req[w].seen, req[w].to, completed[t])]
      BY <1>1, <1>2 DEF RowsInv, TypeOK
    <3> QED BY <3>1, <3>2 DEF RowsInv, TypeOK
  <2>2. req' \in [Workers -> Requests]
    BY <1>6 DEF RowsInv, TypeOK
  <2> QED BY <1>2, <1>3, <2>1, <2>2 DEF RowsInv, TypeOK
<1>9. KeysFit' /\ RequestsFit'
  <2>1. KeysFit'
    BY <1>2, <1>4, <1>5 DEF RowsInv, KeysFit
  <2>2. RequestsFit'
    BY <1>1, <1>2, <1>6, <1>7 DEF RowsInv, RequestsFit, Fits, At
  <2> QED BY <2>1, <2>2
<1>10. FlushesApart'
  <2>1. \A v \in Workers : At(v, "create", "commit")' =>
           v # w /\ At(v, "create", "commit") /\ req'[v] = req[v]
    BY <1>6, <1>7 DEF At
  <2>2. \A u \in Tasks : \A k : HasKey(u, k)' <=> HasKey(u, k)
    BY <1>2, <1>4, <1>5 DEF HasKey
  <2>3. \A u \in Tasks : status'[u] = "absent" <=> status[u] = "absent"
    BY <1>4, <1>5
  <2> QED BY <2>1, <2>2, <2>3 DEF RowsInv, FlushesApart
<1>11. WritersKnow'
  <2>1. \A v \in Workers, u \in Tasks : Writing(v, u)' => Writing(v, u) /\ v # w
    BY <1>6, <1>7 DEF Writing
  <2>2. \A v \in Workers : Writing(v, t)' => t \in raced'
    BY <1>1, <1>2, <2>1
  <2>3. \A v \in Workers, u \in Tasks : Writing(v, u)' =>
           status'[u] # "absent" /\ req'[v].seen # "absent"
    BY <1>4, <1>5, <1>7, <2>1 DEF RowsInv, WritersKnow
  <2>4. \A v \in Workers, u \in Tasks : Writing(v, u)' /\ u \notin raced' =>
           req'[v].seen = status'[u] /\ \A x \in Workers : Writing(x, u)' => x = v
    BY <1>2, <1>4, <1>7, <2>1, <2>2 DEF RowsInv, WritersKnow
  <2> QED BY <2>3, <2>4 DEF WritersKnow
<1> QED BY <1>8, <1>9, <1>10, <1>11 DEF RowsInv

LEMMA DeleteLoadSafe ==
    ASSUME RowsInv, NEW w \in Workers, DeleteLoad(w)
    PROVE  RowsInv'
<1>1. req[w] \in Requests /\ req[w].op = "delete" /\ req[w].task \in Tasks
  BY DEF DeleteLoad, At, RowsInv, TypeOK, RequestsFit
<1>2. CASE Reply(w, FALSE)
  BY <1>1, <1>2, RefusalSafe DEF DeleteLoad
<1>3. CASE req' = [req EXCEPT ![w].pc = "commit"]
  <2> DEFINE r == [req[w] EXCEPT !.pc = "commit"]
  <2>1. req' = [req EXCEPT ![w] = r]
    BY <1>3 DEF RowsInv, TypeOK
  <2>2. r \in Requests /\ Fits(r) /\ r.op = "delete"
    BY <1>1 DEF Requests, Fits
  <2>3. PageOK'
    BY PageIsOK DEF DeleteLoad, PageOK, Server, pageVars
  <2> HIDE DEF r
  <2> QED BY <2>1, <2>2, <2>3, SessionSafe DEF DeleteLoad
<1> QED BY <1>2, <1>3 DEF DeleteLoad

\* A deletion is a mark on the row, and no invariant is about the mark.
LEMMA DeleteCommitSafe ==
    ASSUME RowsInv, NEW w \in Workers, DeleteCommit(w)
    PROVE  RowsInv'
<1>1. /\ req[w] \in Requests /\ req[w].op = "delete" /\ req[w].task \in Tasks
      /\ req[w].to \in Columns
  BY RequestFields DEF DeleteCommit, At, RowsInv, TypeOK, RequestsFit
<1>2. PICK r \in Requests :
          /\ req' = [req EXCEPT ![w] = r]
          /\ Fits(r) /\ r.pc \in {"none", "back"}
          /\ r.op # "none" => r.op = req[w].op /\ r.in = req[w].in /\ r.ok = TRUE
  BY <1>1, AnswerStep DEF DeleteCommit, Reply
<1>3. req'[w] = r /\ \A v \in Workers \ {w} : req'[v] = req[v]
  BY <1>2 DEF RowsInv, TypeOK
<1>4. TypeOK' /\ KeysFit'
  BY <1>1, <1>2 DEF DeleteCommit, Server, pageVars, RowsInv, TypeOK, KeysFit
<1>5. RequestsFit' /\ FlushesApart' /\ WritersKnow'
  <2>1. RequestsFit'
    BY <1>2, <1>3 DEF DeleteCommit, RowsInv, RequestsFit, Fits, At
  <2>2. FlushesApart'
    BY <1>2, <1>3 DEF DeleteCommit, RowsInv, FlushesApart, At, HasKey
  <2>3. WritersKnow'
    BY <1>2, <1>3 DEF DeleteCommit, RowsInv, WritersKnow, Writing
  <2> QED BY <2>1, <2>2, <2>3
<1> QED BY <1>4, <1>5 DEF RowsInv

(***************************************************************************)
(* The answers                                                             *)
(***************************************************************************)
LEMMA OnBoardType ==
    ASSUME RowsInv, NEW t, NEW column \in Columns \union {"absent"}
    PROVE  OnBoard(t, column) \in [Tasks -> Columns \union {"absent"}]
BY DEF OnBoard, RowsInv, TypeOK

LEMMA DialogClosed == Closed \in [open : BOOLEAN, task : Tasks \union {NoTask}, key : Openings] /\ ~Closed.open
<1>1. 0 \in Openings
  BY BoardAssumption DEF Openings
<1> QED BY <1>1 DEF Closed

LEMMA FailPage ==
    ASSUME RowsInv, NEW w \in Workers, Fail(req[w])
    PROVE  /\ board' \in [Tasks -> Columns \union {"absent"}]
           /\ dialog' = dialog /\ confirmed' = confirmed
<1>1. req[w].was \in Columns \union {"absent"}
  BY RequestFields DEF RowsInv, TypeOK
<1> QED BY <1>1, OnBoardType DEF Fail, RowsInv, TypeOK

LEMMA SucceedPage ==
    ASSUME RowsInv, NEW w \in Workers, Succeed(req[w])
    PROVE  /\ board' \in [Tasks -> Columns \union {"absent"}]
           /\ dialog' \in {dialog, Closed} /\ confirmed' \subseteq Openings
<1>1. req[w].to \in Columns \union {"absent"} /\ req[w].in \in Openings
  BY RequestFields DEF RowsInv, TypeOK
<1>2. board' \in {OnBoard(req[w].task, req[w].to), [board EXCEPT ![req[w].task] = req[w].to],
                  [board EXCEPT ![req[w].task] = "absent"], board}
  BY DEF Succeed
<1>3. board' \in [Tasks -> Columns \union {"absent"}]
  BY <1>1, <1>2, OnBoardType DEF RowsInv, TypeOK
<1> QED BY <1>1, <1>3 DEF Succeed, RowsInv, TypeOK

LEMMA DeliverSafe ==
    ASSUME RowsInv, NEW w \in Workers, Deliver(w)
    PROVE  RowsInv'
<1>1. /\ board' \in [Tasks -> Columns \union {"absent"}]
      /\ dialog' \in {dialog, Closed} /\ confirmed' \subseteq Openings
  BY FailPage, SucceedPage DEF Deliver, RowsInv, TypeOK
<1>2. submitting' \in Workers \union {NoWorker}
  BY DEF Deliver, Settle, RowsInv, TypeOK
<1>3. PageOK'
  BY <1>1, <1>2, DialogClosed, PageIsOK DEF Deliver, PageOK
<1> QED BY <1>3, IdleType, SessionSafe DEF Deliver

LEMMA DeliverSweepSafe ==
    ASSUME RowsInv, NEW w \in Workers, DeliverSweep(w)
    PROVE  RowsInv'
<1>1. WithArchived \in [Tasks -> Columns \union {"absent"}] /\ load.old \subseteq Tasks
  BY DEF WithArchived, Columns, RowsInv, TypeOK
<1>2. NoLoad \in [pc : {"none", "sent", "back", "archiving"}, snap : [Tasks -> Columns \union {"absent"}],
                  old : SUBSET Tasks, quiet : BOOLEAN]
  BY DEF NoLoad
<1>3. PageOK'
  BY <1>1, <1>2, PageIsOK DEF DeliverSweep, Show, PageOK
<1> QED BY <1>3, IdleType, SessionSafe DEF DeliverSweep

\* A handler whose connection broke goes on as it was, for nobody.
LEMMA GoesOnSafe ==
    ASSUME RowsInv, NEW w \in Workers, NEW r \in Requests, req' = [req EXCEPT ![w] = r],
           r.op = req[w].op /\ r.pc = req[w].pc /\ r.task = req[w].task /\ r.to = req[w].to,
           r.seen = req[w].seen /\ r.key = req[w].key /\ r.in = req[w].in /\ r.ok = req[w].ok,
           UNCHANGED <<rowVars, raced>>, PageOK'
    PROVE  RowsInv'
<1>1. Fits(r)
  BY DEF Fits, RowsInv, RequestsFit
<1>2. r.op = "create" /\ r.pc = "back" /\ r.ok => \E t \in Tasks : madeIn[t] = r.in
  BY DEF RowsInv, RequestsFit, At
<1>3. r.op = "create" /\ r.pc = "commit" =>
         /\ r.task \in Tasks /\ status[r.task] = "absent"
         /\ \A t \in Tasks : ~HasKey(t, r.key)
         /\ \A v \in Workers \ {w} :
               At(v, "create", "commit") => req[v].task # r.task /\ req[v].key # r.key
  BY DEF RowsInv, FlushesApart, At
<1>4. r.op = "update" /\ r.pc = "commit" =>
         /\ status[r.task] # "absent" /\ r.seen # "absent"
         /\ r.task \notin raced' =>
               r.seen = status[r.task] /\ \A v \in Workers \ {w} : ~Writing(v, r.task)
  BY <1>1 DEF RowsInv, WritersKnow, Writing, Fits
<1> QED BY <1>1, <1>2, <1>3, <1>4, SessionSafe

LEMMA LoseConnectionSafe ==
    ASSUME RowsInv, NEW w \in Workers, LoseConnection(w)
    PROVE  RowsInv'
<1>1. req[w] \in Requests /\ Fits(req[w])
  BY DEF RowsInv, TypeOK, RequestsFit, Fits
<1>2. PageOK'
  <2>1. board' \in [Tasks -> Columns \union {"absent"}] /\ dialog' = dialog /\ confirmed' = confirmed
    BY FailPage DEF LoseConnection
  <2>2. submitting' \in Workers \union {NoWorker}
    BY DEF LoseConnection, Settle, RowsInv, TypeOK
  <2>3. unsettled' \subseteq Tasks
    BY <1>1, RequestFields DEF LoseConnection, RowsInv, TypeOK
  <2> QED BY <2>1, <2>2, <2>3, PageIsOK DEF LoseConnection, PageOK
<1>3. CASE req' = [req EXCEPT ![w] = Idle]
  BY <1>2, <1>3, IdleType, SessionSafe DEF LoseConnection
<1>4. CASE req' = [req EXCEPT ![w] = [req[w] EXCEPT !.for = "nobody", !.was = "absent"]]
  <2> DEFINE r == [req[w] EXCEPT !.for = "nobody", !.was = "absent"]
  <2>1. /\ r \in Requests
        /\ r.op = req[w].op /\ r.pc = req[w].pc /\ r.task = req[w].task /\ r.to = req[w].to
        /\ r.seen = req[w].seen /\ r.key = req[w].key /\ r.in = req[w].in /\ r.ok = req[w].ok
    BY <1>1 DEF Requests
  <2>2. req' = [req EXCEPT ![w] = r]
    BY <1>4
  <2> HIDE DEF r
  <2> QED BY <1>2, <2>1, <2>2, GoesOnSafe DEF LoseConnection
<1> QED BY <1>3, <1>4 DEF LoseConnection, RowsInv, TypeOK

LEMMA LoseSweepSafe ==
    ASSUME RowsInv, NEW w \in Workers, LoseSweep(w)
    PROVE  RowsInv'
<1>1. PageOK'
  <2>1. WithArchived \in [Tasks -> Columns \union {"absent"}] /\ load.old \subseteq Tasks
    BY DEF WithArchived, Columns, RowsInv, TypeOK
  <2>2. NoLoad \in [pc : {"none", "sent", "back", "archiving"}, snap : [Tasks -> Columns \union {"absent"}],
                    old : SUBSET Tasks, quiet : BOOLEAN]
    BY DEF NoLoad
  <2> QED BY <2>1, <2>2, PageIsOK DEF LoseSweep, Show, PageOK
<1>2. CASE req' = [req EXCEPT ![w] = Idle]
  BY <1>1, <1>2, IdleType, SessionSafe DEF LoseSweep
<1>3. CASE req' = [req EXCEPT ![w].for = "nobody"]
  <2> DEFINE r == [req[w] EXCEPT !.for = "nobody"]
  <2>1. /\ r \in Requests
        /\ r.op = req[w].op /\ r.pc = req[w].pc /\ r.task = req[w].task /\ r.to = req[w].to
        /\ r.seen = req[w].seen /\ r.key = req[w].key /\ r.in = req[w].in /\ r.ok = req[w].ok
    BY DEF Requests, RowsInv, TypeOK
  <2>2. req' = [req EXCEPT ![w] = r]
    BY <1>3
  <2> HIDE DEF r
  <2> QED BY <1>1, <2>1, <2>2, GoesOnSafe DEF LoseSweep
<1> QED BY <1>2, <1>3 DEF LoseSweep

(***************************************************************************)
(* The theorems about the rows                                             *)
(***************************************************************************)
LEMMA RowsInit == Init => RowsInv
<1> SUFFICES ASSUME Init PROVE RowsInv
  OBVIOUS
<1>1. 0 \in Openings /\ 0 \in 0 .. MaxRequests /\ "absent" \in Columns \union {"absent"} /\ "todo" \in Columns
  BY BoardAssumption DEF Openings, Columns
<1>2. load \in [pc : {"none", "sent", "back", "archiving"}, snap : [Tasks -> Columns \union {"absent"}],
                old : SUBSET Tasks, quiet : BOOLEAN]
  BY DEF Init, NoLoad
<1>3. TypeOK
  BY <1>1, <1>2, IdleType, DialogClosed, BoardAssumption DEF Init, TypeOK
<1>4. \A w \in Workers : req[w].op = "none" /\ req[w].pc = "none"
  BY IdleType DEF Init
<1>5. RequestsFit /\ FlushesApart /\ WritersKnow
  BY <1>4 DEF RequestsFit, FlushesApart, WritersKnow, At, Writing
<1>6. KeysFit
  BY DialogClosed DEF Init, KeysFit
<1> QED BY <1>3, <1>5, <1>6 DEF RowsInv

LEMMA RowsStep == RowsInv /\ [Next]_vars => RowsInv'
<1> SUFFICES ASSUME RowsInv, [Next]_vars PROVE RowsInv'
  OBVIOUS
<1>1. CASE UNCHANGED vars
  BY <1>1, PageIsOK, PageSafe DEF vars, pageVars, PageOK
<1>2. ASSUME NEW w \in Workers, NEW t \in Tasks, NEW to \in Targets,
             HandleDragEnd(w, t, to) \/ HandleStatusChange(w, t, to)
      PROVE  RowsInv'
  BY <1>2, HandleDragEndSafe, HandleStatusChangeSafe
<1>3. ASSUME NEW w \in Workers, NEW t \in Tasks, HandleDelete(w, t) \/ OtherMember(w, t) \/ LoadArchive(w, t)
      PROVE  RowsInv'
  BY <1>3, HandleDeleteSafe, OtherMemberSafe, LoadArchiveSafe
<1>4. CASE OpenCreate \/ CloseDialog \/ \E t \in Tasks : OpenEdit(t)
  BY <1>4, DialogSafe
<1>5. ASSUME NEW w \in Workers, SubmitCreate(w)
      PROVE  RowsInv'
  BY <1>5, SubmitCreateSafe
<1>6. ASSUME NEW w \in Workers, NEW to \in Targets, SubmitEdit(w, to)
      PROVE  RowsInv'
  BY <1>6, SubmitEditSafe
<1>7. CASE Refresh \/ TryAgain \/ LoadRead \/ LoadBack \/ LoadFails
  BY <1>7, LoadSafe
<1>8. ASSUME NEW w \in Workers, Serve(w) \/ ServerFails(w) \/ LoseConnection(w) \/ LoseSweep(w)
      PROVE  RowsInv'
  BY <1>8, CreateLookupSafe, CreateFlushSafe, CreateCommitSafe, UpdateLoadSafe, UpdateCommitSafe,
     DeleteLoadSafe, DeleteCommitSafe, DeliverSafe, DeliverSweepSafe, ServerFailsSafe,
     LoseConnectionSafe, LoseSweepSafe DEF Serve
<1> QED BY <1>1, <1>2, <1>3, <1>4, <1>5, <1>6, <1>7, <1>8 DEF Next

LEMMA RowsAlways == Spec => []RowsInv
<1>1. Init => RowsInv
  BY RowsInit
<1>2. RowsInv /\ [Next]_vars => RowsInv'
  BY RowsStep
<1> QED BY <1>1, <1>2, PTL DEF Spec

\* Only two steps change a status, a completion or a key, and only an answer
\* to a create, or a connection that breaks, touches what was confirmed.
LEMMA StepKinds ==
    ASSUME RowsInv, [Next]_vars
    PROVE  \/ \E w \in Workers : CreateCommit(w)
           \/ \E w \in Workers : UpdateCommit(w)
           \/ /\ UNCHANGED <<status, completed, key, madeIn>>
              /\ raced \subseteq raced'
              /\ confirmed' \subseteq confirmed \union {d \in Openings \ {0} : \E t \in Tasks : madeIn[t] = d}
<1> DEFINE OnlyReads ==
              /\ UNCHANGED <<status, completed, key, madeIn>>
              /\ raced \subseteq raced'
              /\ confirmed' \subseteq confirmed \union {d \in Openings \ {0} : \E t \in Tasks : madeIn[t] = d}
<1>1. ASSUME NEW w \in Workers, Deliver(w)
      PROVE  OnlyReads
  <2>1. req[w].pc = "back" /\ req[w].in \in Openings
    BY <1>1, RequestFields DEF Deliver, RowsInv, TypeOK
  <2>2. CASE req[w].ok /\ Succeed(req[w])
    BY <1>1, <2>1, <2>2 DEF Deliver, Succeed, RowsInv, RequestsFit, At, rowVars
  <2>3. CASE Fail(req[w])
    BY <1>1, <2>3 DEF Deliver, Fail, rowVars
  <2> QED BY <1>1, <2>2, <2>3 DEF Deliver
<1>2. ASSUME UNCHANGED vars
      PROVE  OnlyReads
  BY <1>2 DEF vars, rowVars, pageVars
<1>3. ASSUME NEW w \in Workers, NEW t \in Tasks, NEW to \in Targets,
             HandleDragEnd(w, t, to) \/ HandleStatusChange(w, t, to)
      PROVE  OnlyReads
  BY <1>3 DEF HandleDragEnd, HandleStatusChange, rowVars
<1>4. ASSUME NEW w \in Workers, NEW t \in Tasks,
             HandleDelete(w, t) \/ OtherMember(w, t) \/ LoadArchive(w, t)
      PROVE  OnlyReads
  BY <1>4 DEF HandleDelete, OtherMember, LoadArchive, rowVars
<1>5. ASSUME \/ OpenCreate \/ CloseDialog \/ \E t \in Tasks : OpenEdit(t)
             \/ Refresh \/ TryAgain \/ LoadRead \/ LoadBack \/ LoadFails
      PROVE  OnlyReads
  BY <1>5 DEF OpenCreate, CloseDialog, OpenEdit, Refresh, TryAgain, Reload, LoadRead, LoadBack,
              LoadFails, rowVars
<1>6. ASSUME NEW w \in Workers,
             CreateLookup(w) \/ CreateFlush(w) \/ UpdateLoad(w) \/ DeleteLoad(w) \/ DeleteCommit(w) \/ ServerFails(w)
      PROVE  OnlyReads
  BY <1>6 DEF CreateLookup, CreateFlush, UpdateLoad, DeleteLoad, DeleteCommit, ServerFails, Server, pageVars, rowVars
<1>7. ASSUME NEW w \in Workers, DeliverSweep(w) \/ LoseConnection(w) \/ LoseSweep(w) \/ SubmitCreate(w)
      PROVE  OnlyReads
  BY <1>7 DEF DeliverSweep, LoseConnection, LoseSweep, Show, Fail, SubmitCreate, rowVars
<1>8. ASSUME NEW w \in Workers, NEW to \in Targets, SubmitEdit(w, to)
      PROVE  OnlyReads
  BY <1>8 DEF SubmitEdit, rowVars
<1>9. (\E w \in Workers : CreateCommit(w) \/ UpdateCommit(w)) \/ OnlyReads
  <2> SUFFICES ASSUME \A w \in Workers : ~CreateCommit(w) /\ ~UpdateCommit(w)
               PROVE  OnlyReads
    OBVIOUS
  <2> HIDE DEF OnlyReads
  <2> QED BY <1>1, <1>2, <1>3, <1>4, <1>5, <1>6, <1>7, <1>8 DEF Next, Serve
<1> QED BY <1>9

\* completed_at agrees with the status wherever no two sessions met.
THEOREM CompletionIsKept == Spec => []CompletedMatchesStatus
<1>1. Init => CompletedMatchesStatus
  BY DEF Init, CompletedMatchesStatus
<1>2. RowsInv /\ CompletedMatchesStatus /\ [Next]_vars => CompletedMatchesStatus'
  <2> SUFFICES ASSUME RowsInv, CompletedMatchesStatus, [Next]_vars PROVE CompletedMatchesStatus'
    OBVIOUS
  <2>1. ASSUME NEW w \in Workers, CreateCommit(w)
        PROVE  CompletedMatchesStatus'
    BY <2>1, CreateCommitFinds DEF CreateCommit, CompletedMatchesStatus, RowsInv, TypeOK
  <2>2. ASSUME NEW w \in Workers, UpdateCommit(w)
        PROVE  CompletedMatchesStatus'
    <3>1. PICK t \in Tasks : t = req[w].task
      BY <2>2, UpdateCommitFinds
    <3>2. t \notin raced => req[w].seen = status[t]
      BY <2>2, <3>1, UpdateCommitFinds
    <3>3. /\ status' = IF req[w].to = req[w].seen THEN status ELSE [status EXCEPT ![t] = req[w].to]
          /\ completed' = [completed EXCEPT ![t] = CompletedAfter(req[w].seen, req[w].to, completed[t])]
          /\ raced' = raced
      BY <2>2, <3>1 DEF UpdateCommit, RowsInv, TypeOK
    <3>4. t \notin raced => status'[t] = req[w].to
      BY <3>2, <3>3 DEF RowsInv, TypeOK
    <3>5. t \notin raced => (CompletedAfter(req[w].seen, req[w].to, completed[t]) <=> req[w].to = "done")
      BY <3>2 DEF CompletedAfter, CompletedMatchesStatus
    <3>6. \A u \in Tasks \ {t} : status'[u] = status[u] /\ completed'[u] = completed[u]
      BY <3>3 DEF RowsInv, TypeOK
    <3> QED BY <3>3, <3>4, <3>5, <3>6 DEF CompletedMatchesStatus, RowsInv, TypeOK
  <2>3. CASE UNCHANGED <<status, completed>> /\ raced \subseteq raced'
    BY <2>3 DEF CompletedMatchesStatus
  <2> QED BY <2>1, <2>2, <2>3, StepKinds
<1> QED BY <1>1, <1>2, RowsAlways, PTL DEF Spec

\* However often the form of one opening is sent, one task comes of it.
THEOREM OpeningsMakeOneTask == Spec => []OneTaskPerOpening
<1>1. Init => OneTaskPerOpening
  BY DEF Init, OneTaskPerOpening
<1>2. RowsInv /\ OneTaskPerOpening /\ [Next]_vars => OneTaskPerOpening'
  <2> SUFFICES ASSUME RowsInv, OneTaskPerOpening, [Next]_vars PROVE OneTaskPerOpening'
    OBVIOUS
  <2>1. ASSUME NEW w \in Workers, CreateCommit(w)
        PROVE  OneTaskPerOpening'
    <3>1. /\ req[w].task \in Tasks /\ req[w].key = req[w].in /\ req[w].in # 0
          /\ \A t \in Tasks : ~HasKey(t, req[w].key)
      BY <2>1, CreateCommitFinds
    <3>2. madeIn' = [madeIn EXCEPT ![req[w].task] = req[w].in]
      BY <2>1 DEF CreateCommit
    <3>3. \A u \in Tasks : madeIn[u] # req[w].in
      BY <3>1 DEF HasKey, RowsInv, KeysFit
    <3> QED BY <3>1, <3>2, <3>3 DEF OneTaskPerOpening, RowsInv, TypeOK
  <2>2. ASSUME NEW w \in Workers, UpdateCommit(w)
        PROVE  OneTaskPerOpening'
    BY <2>2 DEF UpdateCommit, OneTaskPerOpening
  <2> QED BY <2>1, <2>2, StepKinds DEF OneTaskPerOpening
<1> QED BY <1>1, <1>2, RowsAlways, PTL DEF Spec

\* What the dialog was told it created was created from that dialog.
THEOREM ConfirmedTasksExist == Spec => []ConfirmedIsMade
<1> DEFINE Made == ConfirmedIsMade /\ 0 \notin confirmed
<1>1. Init => Made
  BY DEF Init, ConfirmedIsMade
<1>2. RowsInv /\ Made /\ [Next]_vars => Made'
  <2> SUFFICES ASSUME RowsInv, Made, [Next]_vars PROVE Made'
    OBVIOUS
  <2>1. ASSUME NEW w \in Workers, CreateCommit(w)
        PROVE  Made'
    <3>1. req[w].task \in Tasks /\ madeIn[req[w].task] = 0
      BY <2>1, CreateCommitFinds
    <3>2. confirmed' = confirmed /\ madeIn' = [madeIn EXCEPT ![req[w].task] = req[w].in]
      BY <2>1 DEF CreateCommit, pageVars
    <3>3. \A d \in confirmed : d # 0 /\ \E t \in Tasks : madeIn[t] = d
      BY DEF ConfirmedIsMade
    <3>4. \A d \in confirmed : \E t \in Tasks : madeIn'[t] = d
      BY <3>1, <3>2, <3>3 DEF RowsInv, TypeOK
    <3> QED BY <3>2, <3>4 DEF ConfirmedIsMade
  <2>2. ASSUME NEW w \in Workers, UpdateCommit(w)
        PROVE  Made'
    BY <2>2 DEF UpdateCommit, Server, pageVars, ConfirmedIsMade
  <2> QED BY <2>1, <2>2, StepKinds DEF ConfirmedIsMade
<1> QED BY <1>1, <1>2, RowsAlways, PTL DEF Spec

(***************************************************************************)
(* What the page shows: the steps of one request                           *)
(***************************************************************************)
LEMMA RowTypes ==
    ASSUME RowsInv
    PROVE  /\ req \in [Workers -> Requests] /\ status \in [Tasks -> Columns \union {"absent"}]
           /\ board \in [Tasks -> Columns \union {"absent"}] /\ deleted \subseteq Tasks
           /\ unsettled \subseteq Tasks /\ NoTask \notin Tasks /\ "absent" \notin Columns
           /\ load.pc \in {"none", "sent", "back", "archiving"} /\ load.quiet \in BOOLEAN
           /\ load.old \subseteq Tasks /\ load.snap \in [Tasks -> Columns \union {"absent"}]
BY BoardAssumption DEF RowsInv, TypeOK, Columns

LEMMA OneRequest ==
    ASSUME RowsInv, NEW w \in Workers, NEW r, req' = [req EXCEPT ![w] = r]
    PROVE  req'[w] = r /\ \A v \in Workers : v # w => req'[v] = req[v]
BY RowTypes

\* The refresh in flight is where it was, and no quieter.
LoadStays ==
    /\ load'.pc = load.pc /\ load'.snap = load.snap /\ load'.old = load.old
    /\ load'.quiet => load.quiet

\* A task that is none of a request's business stays as settled as it was.
LEMMA OthersSettled ==
    ASSUME BoardInv, NEW w \in Workers, NEW r, req' = [req EXCEPT ![w] = r], LoadStays,
           NEW t \in Tasks, req[w].task # t, r.task # t,
           board'[t] = board[t], status'[t] = status[t], t \in deleted' <=> t \in deleted,
           t \in unsettled => t \in unsettled'
    PROVE  SettledFor(t)'
<1>1. req'[w] = r /\ \A v \in Workers : v # w => req'[v] = req[v]
  BY OneRequest DEF BoardInv
<1>2. \A v \in Workers : req'[v].task = t <=> req[v].task = t
  BY <1>1
<1>3. InFlight(t)' = InFlight(t)
  BY <1>2 DEF InFlight
<1>4. \A v \in InFlight(t) : v \in Workers /\ v # w /\ req'[v] = req[v]
  BY <1>1 DEF InFlight
<1>5. OnServer(t)' = OnServer(t) /\ (Live(t)' <=> Live(t))
  BY DEF OnServer, Live
<1>6. (Followed(t)' => Followed(t)) /\ (t \notin unsettled' => t \notin unsettled)
  BY DEF Followed, LoadStays
<1>7. \A v \in InFlight(t) :
         /\ ServerFits(req[v], t) => ServerFits(req[v], t)'
         /\ CardFits(req[v], t) => CardFits(req[v], t)'
  BY <1>4, <1>5 DEF ServerFits, CardFits
<1>8. SettledFor(t)
  BY DEF BoardInv, SettledFits
<1> QED BY <1>3, <1>4, <1>5, <1>6, <1>7, <1>8 DEF SettledFor, LoadStays, At

\* A step is about one task: the other rows and cards are left alone, and no
\* row, known task or unsettled task is forgotten.
OnlyTask(t) ==
    /\ LoadStays /\ page' = page /\ unsettled \subseteq unsettled'
    /\ \A u \in Tasks : u # t =>
          board'[u] = board[u] /\ status'[u] = status[u] /\ (u \in deleted' <=> u \in deleted)
    /\ \A u \in Tasks : status[u] # "absent" => status'[u] # "absent"
    /\ dialog'.task \in {dialog.task, NoTask}

\* A request moves on as it was, or for nobody, or ends, or is sent.
MovesOn(w, r) ==
    /\ PurposeFits(r)
    /\ r.op = "none" \/ ~load'.quiet \/ (req[w].op # "none" /\ r.for = req[w].for)
    /\ r.for = "sweep" => req[w].for = "sweep" /\ r.task = req[w].task

\* The row is there for whoever knows it.
RowKnown(r, t) ==
    /\ board'[t] # "absent" \/ t \in deleted' => status'[t] # "absent"
    /\ r.task = t /\ ~(r.op = "create" /\ r.pc = "commit") => status'[t] # "absent"

\* A step of one request, which may write the row and the card of its task:
\* what is left to show is that its task is as settled as it was.
LEMMA RequestStep ==
    ASSUME BoardInv, RowsInv', NEW w \in Workers, NEW r, req' = [req EXCEPT ![w] = r],
           MovesOn(w, r), NEW t, OnlyTask(t), req[w].task \in {t, NoTask}, r.task \in {t, NoTask},
           t \in Tasks => RowKnown(r, t) /\ SettledFor(t)'
    PROVE  BoardInv'
<1>1. req'[w] = r /\ \A v \in Workers : v # w => req'[v] = req[v]
  BY OneRequest DEF BoardInv
<1>2. KnownFits'
  <2>1. ASSUME NEW u \in Tasks,
               \/ board'[u] # "absent" \/ load'.snap[u] # "absent" \/ u \in load'.old
               \/ u \in deleted' \/ dialog'.task = u
        PROVE  status'[u] # "absent"
    BY <2>1, RowTypes DEF BoardInv, KnownFits, OnlyTask, LoadStays, RowKnown
  <2>2. ASSUME NEW v \in Workers, req'[v].task \in Tasks, ~At(v, "create", "commit")'
        PROVE  status'[req'[v].task] # "absent"
    BY <1>1, <2>2, RowTypes DEF BoardInv, KnownFits, At, OnlyTask, RowKnown
  <2> QED BY <2>1, <2>2 DEF KnownFits
<1>3. PurposesFit'
  BY <1>1 DEF BoardInv, PurposesFit, MovesOn
<1>4. RefreshFits'
  BY <1>1 DEF BoardInv, RefreshFits, OnlyTask, LoadStays, MovesOn
<1>5. ASSUME NEW u \in Tasks
      PROVE  SettledFor(u)'
  <2>1. CASE u = t
    BY <2>1
  <2>2. CASE u # t
    <3>1. req[w].task # u /\ r.task # u
      BY <2>2, RowTypes DEF BoardInv
    <3>2. /\ board'[u] = board[u] /\ status'[u] = status[u] /\ (u \in deleted' <=> u \in deleted)
          /\ LoadStays /\ (u \in unsettled => u \in unsettled')
      BY <2>2 DEF OnlyTask
    <3> QED BY <3>1, <3>2, OthersSettled
  <2> QED BY <2>1, <2>2
<1> QED BY <1>2, <1>3, <1>4, <1>5 DEF BoardInv, SettledFits

\* What a task is settled with after a step of the one request it may have.
LEMMA TaskStep ==
    ASSUME RowsInv, NEW w \in Workers, NEW r, req' = [req EXCEPT ![w] = r], NEW t \in Tasks,
           Followed(t)' =>
              /\ \A v \in Workers : v # w => req[v].task # t
              /\ load'.pc \in {"back", "archiving"} /\ t \notin load'.old => load'.snap[t] = OnServer(t)'
              /\ r.task = t =>
                    /\ r.op = "update" /\ r.pc = "commit" => Live(t)' /\ r.seen = status'[t]
                    /\ r.for = "sweep" => r.to = "archived"
                    /\ r.pc = "back" /\ r.ok => OnServer(t)' = IF r.op = "delete" THEN "absent" ELSE r.to
                    /\ r.for \in {"nobody", "other"} => r.for = "nobody" /\ r.op = "create" /\ r.pc = "commit"
                    /\ load'.pc # "none" => (r.op = "create" /\ r.pc = "commit") \/ r.for = "sweep",
           t \notin unsettled' /\ load'.pc # "archiving" =>
              /\ r.task # t => board'[t] = OnServer(t)'
              /\ r.task = t =>
                    /\ r.for = "drag" => board'[t] = r.to
                    /\ r.pc = "back" /\ r.ok => r.op # "update" \/ board'[t] # "absent"
                    /\ r.pc # "back" \/ ~r.ok => OnServer(t)' = IF r.for = "drag" THEN r.was ELSE board'[t]
    PROVE  SettledFor(t)'
<1>1. req'[w] = r /\ \A v \in Workers : v # w => req'[v] = req[v]
  BY OneRequest
<1>2. t \notin unsettled' => Followed(t)'
  BY DEF Followed
<1>3. Followed(t)' => InFlight(t)' = IF r.task = t THEN {w} ELSE {}
  BY <1>1 DEF InFlight
<1>4. Followed(t)' =>
         /\ load'.pc \in {"back", "archiving"} /\ t \notin load'.old => load'.snap[t] = OnServer(t)'
         /\ \A v \in InFlight(t)' :
               /\ InFlight(t)' = {v} /\ ServerFits(req[v], t)'
               /\ req'[v].for \in {"nobody", "other"} => req'[v].for = "nobody" /\ At(v, "create", "commit")'
               /\ load'.pc # "none" => At(v, "create", "commit")' \/ req'[v].for = "sweep"
  BY <1>1, <1>3 DEF ServerFits, At
<1>5. t \notin unsettled' /\ load'.pc # "archiving" =>
         /\ InFlight(t)' = {} => board'[t] = OnServer(t)'
         /\ \A v \in InFlight(t)' : CardFits(req[v], t)'
  BY <1>1, <1>2, <1>3 DEF CardFits
<1> QED BY <1>4, <1>5 DEF SettledFor

\* A request for a task that is followed is the only one.
LEMMA RequestAlone ==
    ASSUME BoardInv, NEW w \in Workers, NEW t \in Tasks, req[w].task = t, Followed(t)
    PROVE  /\ \A v \in Workers : v # w => req[v].task # t
           /\ load.pc \in {"back", "archiving"} /\ t \notin load.old => load.snap[t] = OnServer(t)
           /\ ServerFits(req[w], t)
           /\ req[w].for \in {"nobody", "other"} => req[w].for = "nobody" /\ At(w, "create", "commit")
           /\ load.pc # "none" => At(w, "create", "commit") \/ req[w].for = "sweep"
           /\ t \notin unsettled /\ load.pc # "archiving" => CardFits(req[w], t)
<1>1. w \in InFlight(t) /\ SettledFor(t)
  BY DEF InFlight, BoardInv, SettledFits
<1>2. InFlight(t) = {w}
  BY <1>1 DEF SettledFor
<1>3. \A v \in Workers : v # w => req[v].task # t
  BY <1>2 DEF InFlight
<1> QED BY <1>1, <1>3 DEF SettledFor

\* A refresh that met no request is not in flight with one.
LEMMA NotQuiet ==
    ASSUME BoardInv, NEW w \in Workers, req[w].op # "none", req[w].for # "sweep"
    PROVE  ~load.quiet
BY DEF BoardInv, RefreshFits

(***************************************************************************)
(* What the page shows: the requests it sends                              *)
(***************************************************************************)

\* A request is sent: a task that stays settled had none, and the card is
\* where its task is, or where it was dropped.
LEMMA SendFits ==
    ASSUME BoardInv, RowsInv', NEW w \in Workers, NEW r, Send(w, r),
           UNCHANGED <<rowVars, page, dialog>>, PurposeFits(r),
           r.op # "none", r.pc \in {"load", "lookup"}, r.ok = FALSE,
           r.for \in {"drag", "menu", "dialog", "delete", "other"},
           r.task \in Tasks \union {NoTask}, r.task \in Tasks => status[r.task] # "absent",
           board' = IF r.for = "drag" THEN [board EXCEPT ![r.task] = r.to] ELSE board,
           r.for = "drag" => r.was = board[r.task]
    PROVE  BoardInv'
<1>0. PICK t : t = r.task
  OBVIOUS
<1>1. /\ req' = [req EXCEPT ![w] = r] /\ req[w].op = "none" /\ req[w].task = NoTask
      /\ unsettled \subseteq unsettled'
  BY DEF Send, BoardInv, PurposesFit, PurposeFits
<1>2. LoadStays /\ ~load'.quiet /\ (t \in Tasks /\ t \notin unsettled' => load.pc = "none")
  BY <1>0, RowTypes DEF Send, LoadStays, BoardInv, RowsInv, TypeOK
<1>3. \A u \in Tasks : u # t => board'[u] = board[u]
  BY <1>0, RowTypes DEF BoardInv
<1>4. ASSUME t \in Tasks
      PROVE  SettledFor(t)'
  <2>1. t \notin unsettled' =>
           /\ t \notin unsettled /\ r.for # "other" /\ load.pc = "none" /\ InFlight(t) = {}
           /\ board[t] = OnServer(t)
    BY <1>0, <1>1, <1>4, RowTypes DEF Send, BoardInv, SettledFits, SettledFor
  <2>2. (Followed(t)' => t \notin unsettled') /\ OnServer(t)' = OnServer(t) /\ load'.pc = load.pc
    BY <1>2 DEF Followed, OnServer, Live, rowVars, LoadStays
  <2>3. t \notin unsettled' => \A v \in Workers : req[v].task # t
    BY <2>1 DEF InFlight
  <2>4. r.for = "drag" => board'[t] = r.to
    BY <1>0, <1>4, RowTypes DEF BoardInv
  <2> QED BY <1>0, <1>1, <1>4, <2>1, <2>2, <2>3, <2>4, TaskStep DEF BoardInv
<1>5. UNCHANGED <<status, deleted, page, dialog>> /\ (t \in Tasks => status'[t] # "absent")
  BY <1>0 DEF rowVars
<1>6. OnlyTask(t)
  BY <1>1, <1>2, <1>3, <1>5 DEF OnlyTask
<1>7. MovesOn(w, r)
  BY <1>2 DEF MovesOn
<1>8. t \in Tasks => RowKnown(r, t) /\ SettledFor(t)'
  BY <1>4, <1>5 DEF RowKnown
<1>9. req[w].task \in {t, NoTask} /\ r.task \in {t, NoTask}
  BY <1>0, <1>1
<1> QED BY <1>1, <1>6, <1>7, <1>8, <1>9, RequestStep

LEMMA DragFits ==
    ASSUME BoardInv, RowsInv', NEW w \in Workers, NEW t \in Tasks, NEW to \in Targets, HandleDragEnd(w, t, to)
    PROVE  BoardInv'
<1>1. PICK r : r = [Update(t, to, "drag") EXCEPT !.was = board[t]]
  OBVIOUS
<1>2. /\ r.op = "update" /\ r.pc = "load" /\ r.task = t /\ r.for = "drag" /\ r.ok = FALSE
      /\ r.to = to /\ r.was = board[t]
  BY <1>1 DEF Update, Idle
<1>3. Send(w, r) /\ UNCHANGED <<rowVars, page, dialog>> /\ board' = [board EXCEPT ![t] = to] /\ status[t] # "absent"
  BY <1>1 DEF HandleDragEnd, BoardInv, KnownFits
<1> QED BY <1>2, <1>3, SendFits DEF PurposeFits

LEMMA MenuFits ==
    ASSUME BoardInv, RowsInv', NEW w \in Workers, NEW t \in Tasks, NEW to \in Targets,
           HandleStatusChange(w, t, to)
    PROVE  BoardInv'
<1>1. PICK r : r = Update(t, to, "menu")
  OBVIOUS
<1>2. r.op = "update" /\ r.pc = "load" /\ r.task = t /\ r.for = "menu" /\ r.ok = FALSE
  BY <1>1 DEF Update, Idle
<1>3. Send(w, r) /\ UNCHANGED <<rowVars, page, dialog, board>> /\ status[t] # "absent"
  BY <1>1 DEF HandleStatusChange, BoardInv, KnownFits
<1> QED BY <1>2, <1>3, SendFits DEF PurposeFits

LEMMA HandleDeleteFits ==
    ASSUME BoardInv, RowsInv', NEW w \in Workers, NEW t \in Tasks, HandleDelete(w, t)
    PROVE  BoardInv'
<1>1. PICK r : r = Delete(t, "delete")
  OBVIOUS
<1>2. r.op = "delete" /\ r.pc = "load" /\ r.task = t /\ r.for = "delete" /\ r.ok = FALSE
  BY <1>1 DEF Delete, Idle
<1>3. Send(w, r) /\ UNCHANGED <<rowVars, page, dialog, board>> /\ status[t] # "absent"
  BY <1>1 DEF HandleDelete, BoardInv, KnownFits
<1> QED BY <1>2, <1>3, SendFits DEF PurposeFits

LEMMA OtherMemberFits ==
    ASSUME BoardInv, RowsInv', NEW w \in Workers, NEW t \in Tasks, OtherMember(w, t)
    PROVE  BoardInv'
<1>1. PICK r : Send(w, r) /\ ((\E to \in Targets : r = Update(t, to, "other")) \/ r = Delete(t, "other"))
  BY DEF OtherMember
<1>2. r.op \in {"update", "delete"} /\ r.pc = "load" /\ r.task = t /\ r.for = "other" /\ r.ok = FALSE
  BY <1>1 DEF Update, Delete, Idle
<1>3. UNCHANGED <<rowVars, page, dialog, board>> /\ status[t] # "absent"
  BY DEF OtherMember, Live
<1> QED BY <1>1, <1>2, <1>3, SendFits DEF PurposeFits

LEMMA SubmitCreateFits ==
    ASSUME BoardInv, RowsInv', NEW w \in Workers, SubmitCreate(w)
    PROVE  BoardInv'
<1>1. PICK r : r = [Idle EXCEPT !.op = "create", !.pc = "lookup", !.key = dialog.key,
                                !.in = opened, !.for = "dialog"]
  OBVIOUS
<1>2. /\ r.op = "create" /\ r.pc = "lookup" /\ r.task = NoTask /\ r.for = "dialog" /\ r.ok = FALSE
      /\ r.to = "todo"
  BY <1>1 DEF Idle
<1>3. Send(w, r) /\ UNCHANGED <<rowVars, page, dialog, board>>
  BY <1>1 DEF SubmitCreate
<1> QED BY <1>2, <1>3, SendFits, RowTypes DEF PurposeFits, BoardInv

LEMMA SubmitEditFits ==
    ASSUME BoardInv, RowsInv', NEW w \in Workers, NEW to \in Targets, SubmitEdit(w, to)
    PROVE  BoardInv'
<1>1. PICK r : r = Update(dialog.task, to, "dialog")
  OBVIOUS
<1>2. r.op = "update" /\ r.pc = "load" /\ r.task = dialog.task /\ r.for = "dialog" /\ r.ok = FALSE
  BY <1>1 DEF Update, Idle
<1>3. dialog.task \in Tasks /\ status[dialog.task] # "absent"
  BY DEF SubmitEdit, BoardInv, RowsInv, TypeOK, KnownFits
<1>4. Send(w, r) /\ UNCHANGED <<rowVars, page, dialog, board>>
  BY <1>1 DEF SubmitEdit
<1> QED BY <1>2, <1>3, <1>4, SendFits DEF PurposeFits

\* The dialog knows the task it edits from the board.
LEMMA DialogFits ==
    ASSUME BoardInv, RowsInv', OpenCreate \/ CloseDialog \/ \E t \in Tasks : OpenEdit(t)
    PROVE  BoardInv'
<1>1. UNCHANGED <<status, deleted, req, page, board, load, unsettled>>
  BY DEF OpenCreate, CloseDialog, OpenEdit, rowVars
<1>2. dialog'.task = NoTask \/ \E t \in Tasks : dialog'.task = t /\ board[t] # "absent"
  <2>1. ASSUME NEW t \in Tasks, OpenEdit(t)
        PROVE  dialog'.task = t /\ board[t] # "absent"
    BY <2>1 DEF OpenEdit, Closed
  <2>2. CASE OpenCreate \/ CloseDialog
    <3>1. dialog' \in {[open |-> TRUE, task |-> NoTask, key |-> opened'], Closed}
      BY <2>2 DEF OpenCreate, CloseDialog, Closed
    <3> QED BY <3>1 DEF Closed
  <2> QED BY <2>1, <2>2
<1>3. KnownFits'
  BY <1>1, <1>2, RowTypes DEF BoardInv, KnownFits, At
<1>4. PurposesFit' /\ RefreshFits'
  BY <1>1 DEF BoardInv, PurposesFit, RefreshFits
<1>5. SettledFits'
  BY <1>1 DEF BoardInv, SettledFits, SettledFor, Followed, InFlight, ServerFits, CardFits, OnServer, Live, At
<1> QED BY <1>3, <1>4, <1>5 DEF BoardInv

(***************************************************************************)
(* What the page shows: the refresh                                        *)
(***************************************************************************)

\* What a refresh cannot be doing yet: nothing is swept but while archiving.
LEMMA SweepsWait ==
    ASSUME BoardInv, load.pc # "archiving", NEW w \in Workers
    PROVE  req[w].for # "sweep"
BY DEF BoardInv, RefreshFits

\* While a refresh is in flight, the only request of a task that is followed,
\* the sweep apart, is a creation; the card is not there before the row is.
LEMMA OnlyCreates ==
    ASSUME BoardInv, load.pc # "none", NEW w \in Workers, NEW t \in Tasks,
           req[w].task = t, Followed(t), req[w].for # "sweep"
    PROVE  At(w, "create", "commit") /\ OnServer(t) = "absent" /\ req[w].for # "drag"
<1>1. At(w, "create", "commit")
  BY RequestAlone
<1>2. status[t] = "absent"
  BY <1>1 DEF BoardInv, RowsInv, FlushesApart
<1>3. req[w].for # "drag"
  BY <1>1 DEF At, BoardInv, PurposesFit, PurposeFits
<1> QED BY <1>1, <1>2, <1>3 DEF OnServer, Live

\* A refresh starts: it settles what no request is in flight for.
LEMMA ReloadFits ==
    ASSUME BoardInv, RowsInv', NEW then \in {"loading", "board"}, load.pc = "none", Reload(then)
    PROVE  BoardInv'
<1>1. /\ load'.pc = "sent" /\ load'.snap = [t \in Tasks |-> "absent"] /\ load'.old = {}
      /\ load'.quiet = Quiet
      /\ unsettled' = unsettled \union {t \in Tasks : InFlight(t) # {}} /\ page' = then
      /\ UNCHANGED <<status, deleted, req, board, dialog>>
  BY DEF Reload, NoLoad, rowVars
<1>2. KnownFits'
  BY <1>1, RowTypes DEF BoardInv, KnownFits, At
<1>3. PurposesFit'
  BY <1>1 DEF BoardInv, PurposesFit
<1>4. RefreshFits'
  BY <1>1, SweepsWait DEF RefreshFits, Quiet
<1>5. ASSUME NEW t \in Tasks
      PROVE  SettledFor(t)'
  <2>1. t \notin unsettled' => t \notin unsettled /\ InFlight(t) = {}
    BY <1>1
  <2>2. load'.quiet => InFlight(t) = {}
    <3>1. load'.quiet => \A w \in Workers : req[w].op = "none"
      BY <1>1 DEF Quiet
    <3>2. \A w \in Workers : req[w].op = "none" => req[w].task # t
      BY RowTypes DEF BoardInv, PurposesFit, PurposeFits
    <3> QED BY <3>1, <3>2 DEF InFlight
  <2>3. InFlight(t)' = InFlight(t) /\ OnServer(t)' = OnServer(t)
    BY <1>1 DEF InFlight, OnServer, Live
  <2>4. t \notin unsettled' => board'[t] = OnServer(t)'
    BY <1>1, <2>1, <2>3 DEF BoardInv, SettledFits, SettledFor
  <2> QED BY <1>1, <2>1, <2>2, <2>3, <2>4 DEF SettledFor, Followed
<1> QED BY <1>2, <1>3, <1>4, <1>5 DEF BoardInv, SettledFits

\* The list is read: it is what the server has.
LEMMA LoadReadFits ==
    ASSUME BoardInv, RowsInv', LoadRead
    PROVE  BoardInv'
<1>1. /\ load.pc = "sent" /\ load'.pc = "back" /\ load'.snap = [t \in Tasks |-> OnServer(t)]
      /\ load'.old = load.old /\ load'.quiet = load.quiet
      /\ UNCHANGED <<status, deleted, req, page, board, dialog, unsettled>>
  BY DEF LoadRead, rowVars, BoardInv, RowsInv, TypeOK
<1>2. KnownFits'
  BY <1>1 DEF BoardInv, KnownFits, At, OnServer, Live
<1>3. PurposesFit'
  BY <1>1 DEF BoardInv, PurposesFit
<1>4. RefreshFits'
  BY <1>1, SweepsWait DEF BoardInv, RefreshFits
<1>5. ASSUME NEW t \in Tasks
      PROVE  SettledFor(t)'
  <2>1. InFlight(t)' = InFlight(t) /\ OnServer(t)' = OnServer(t) /\ (Live(t)' <=> Live(t))
    BY <1>1 DEF InFlight, OnServer, Live
  <2>2. SettledFor(t) /\ (Followed(t)' <=> Followed(t))
    BY <1>1 DEF BoardInv, SettledFits, Followed
  <2>3. \A v \in InFlight(t) :
           /\ ServerFits(req[v], t) => ServerFits(req[v], t)'
           /\ CardFits(req[v], t) => CardFits(req[v], t)'
    BY <1>1, <2>1 DEF ServerFits, CardFits
  <2>4. load'.snap[t] = OnServer(t)
    BY <1>1
  <2> QED BY <1>1, <2>1, <2>2, <2>3, <2>4 DEF SettledFor, At
<1> QED BY <1>2, <1>3, <1>4, <1>5 DEF BoardInv, SettledFits

\* The update of a refresh whose connection broke goes on for nobody.
Abandoned(v) ==
    /\ req[v].op = "update" /\ req[v].task \in unsettled'
    /\ req'[v] = [req[v] EXCEPT !.for = "nobody"]

LEMMA AbandonedFields ==
    ASSUME RowsInv, NEW v \in Workers, Abandoned(v)
    PROVE  /\ req'[v].op = "update" /\ req'[v].pc = req[v].pc /\ req'[v].task = req[v].task
           /\ req'[v].for = "nobody" /\ req[v].task \in unsettled'
BY DEF Abandoned, RowsInv, TypeOK, Requests

\* A refresh ends with what it read, and whoever is settled then was followed.
LEMMA LoadEnds ==
    ASSUME BoardInv, RowsInv', load' = NoLoad, UNCHANGED <<status, deleted, dialog>>,
           \A v \in Workers :
              req'[v] = Idle \/ (req'[v] = req[v] /\ req[v].for # "sweep") \/ Abandoned(v),
           load.pc # "none",
           \A t \in Tasks : board'[t] # "absent" => status[t] # "absent",
           \A t \in Tasks : t \notin unsettled' =>
              Followed(t) /\ board'[t] = OnServer(t)
    PROVE  BoardInv'
<1>0. Idle.op = "none" /\ Idle.task = NoTask /\ Idle.for = "nobody" /\ NoTask \notin Tasks
  BY BoardAssumption DEF Idle
<1>1. /\ load'.pc = "none" /\ load'.snap = [t \in Tasks |-> "absent"] /\ load'.old = {}
      /\ load'.quiet = FALSE
  BY DEF NoLoad
<1>2. \A v \in Workers :
         \/ req'[v] = Idle \/ req'[v] = req[v]
         \/ /\ req'[v].op = "update" /\ req'[v].pc = req[v].pc /\ req'[v].task = req[v].task
            /\ req'[v].for = "nobody" /\ req[v].op = "update" /\ req[v].task \in unsettled'
  BY AbandonedFields DEF Abandoned, BoardInv
<1>3. KnownFits'
  BY <1>0, <1>1, <1>2 DEF BoardInv, KnownFits, At
<1>4. PurposesFit'
  BY <1>0, <1>2 DEF BoardInv, PurposesFit, PurposeFits
<1>5. \A v \in Workers : req'[v].for # "sweep"
  BY <1>0, AbandonedFields DEF BoardInv
<1>6. RefreshFits'
  BY <1>1, <1>5 DEF RefreshFits
<1>7. ASSUME NEW t \in Tasks
      PROVE  SettledFor(t)'
  <2>1. OnServer(t)' = OnServer(t) /\ (Followed(t)' <=> t \notin unsettled')
    BY <1>1 DEF OnServer, Live, Followed
  <2>2. ASSUME NEW v \in InFlight(t)', Followed(t)'
        PROVE  /\ InFlight(t)' = {v} /\ At(v, "create", "commit") /\ req'[v] = req[v]
               /\ req[v].for # "drag" /\ OnServer(t) = "absent"
               /\ req[v].for \in {"nobody", "other"} => req[v].for = "nobody"
    <3>1. v \in Workers /\ req'[v] = req[v] /\ req[v].task = t
      BY <1>0, <1>2, <2>1, <2>2 DEF InFlight
    <3>2. /\ At(v, "create", "commit") /\ OnServer(t) = "absent" /\ req[v].for # "drag"
          /\ \A x \in Workers : x # v => req[x].task # t
          /\ req[v].for \in {"nobody", "other"} => req[v].for = "nobody"
      BY <1>5, <2>1, <2>2, <3>1, OnlyCreates, RequestAlone
    <3>3. InFlight(t)' = {v}
      BY <1>0, <1>2, <2>1, <2>2, <3>2 DEF InFlight
    <3> QED BY <3>1, <3>2, <3>3
  <2>3. t \notin unsettled' => board'[t] = OnServer(t)'
    BY <2>1
  <2>4. ASSUME NEW v \in InFlight(t)', Followed(t)'
        PROVE  ServerFits(req[v], t)' /\ CardFits(req[v], t)' /\ At(v, "create", "commit")'
    <3>1. req'[v].op = "create" /\ req'[v].pc = "commit" /\ req'[v].for # "sweep" /\ req'[v].for # "drag"
      BY <1>5, <2>2, <2>4 DEF At, InFlight
    <3> QED BY <2>1, <2>3, <2>4, <3>1 DEF ServerFits, CardFits, At
  <2> QED BY <1>1, <2>1, <2>2, <2>3, <2>4 DEF SettledFor
<1> QED BY <1>3, <1>4, <1>6, <1>7 DEF BoardInv, SettledFits

LEMMA LoadBackFits ==
    ASSUME BoardInv, RowsInv', LoadBack
    PROVE  BoardInv'
<1>1. /\ load.pc = "back" /\ load.old = {} /\ load' = NoLoad /\ board' = load.snap
      /\ (load.quiet \/ unsettled' = unsettled)
      /\ UNCHANGED <<status, deleted, dialog, req>>
  BY DEF LoadBack, Show, rowVars, BoardInv, RefreshFits
<1>2. \A v \in Workers : req'[v] = req[v] /\ req[v].for # "sweep"
  BY <1>1, SweepsWait
<1>3. ASSUME NEW t \in Tasks, t \notin unsettled'
      PROVE  Followed(t) /\ board'[t] = OnServer(t)
  <2>1. Followed(t)
    BY <1>1, <1>3 DEF Followed
  <2> QED BY <1>1, <2>1 DEF BoardInv, SettledFits, SettledFor
<1>4. \A t \in Tasks : board'[t] # "absent" => status[t] # "absent"
  BY <1>1 DEF BoardInv, KnownFits
<1> QED BY <1>1, <1>2, <1>3, <1>4, LoadEnds

\* A refresh that failed leaves the board as it was.
LEMMA LoadFailsFits ==
    ASSUME BoardInv, RowsInv', LoadFails
    PROVE  BoardInv'
<1>1. /\ load.pc \in {"sent", "back"} /\ load' = NoLoad
      /\ UNCHANGED <<status, deleted, dialog, req, board, unsettled>>
  BY DEF LoadFails, rowVars
<1>2. \A v \in Workers : req'[v] = req[v] /\ req[v].for # "sweep"
  BY <1>1, SweepsWait
<1>3. ASSUME NEW t \in Tasks, t \notin unsettled'
      PROVE  Followed(t) /\ board'[t] = OnServer(t)
  <2>1. Followed(t) /\ t \notin unsettled
    BY <1>1, <1>3 DEF Followed
  <2>2. CASE InFlight(t) = {}
    BY <1>1, <2>1, <2>2 DEF BoardInv, SettledFits, SettledFor
  <2>3. CASE InFlight(t) # {}
    <3>1. PICK v \in Workers : req[v].task = t
      BY <2>3 DEF InFlight
    <3>2. At(v, "create", "commit") /\ req[v].for # "drag"
      BY <1>1, <1>2, <2>1, <3>1, OnlyCreates
    <3>3. CardFits(req[v], t)
      BY <1>1, <2>1, <3>1, RequestAlone
    <3> QED BY <1>1, <2>1, <3>2, <3>3 DEF CardFits, At
  <2> QED BY <2>2, <2>3
<1>4. \A t \in Tasks : board'[t] # "absent" => status[t] # "absent"
  BY <1>1 DEF BoardInv, KnownFits
<1> QED BY <1>1, <1>2, <1>3, <1>4, LoadEnds

\* The board after archiving shows what the server has, unless the update
\* failed: then the task is unsettled.
LEMMA DeliverSweepFits ==
    ASSUME BoardInv, RowsInv', NEW w \in Workers, DeliverSweep(w)
    PROVE  BoardInv'
<1>1. /\ req[w].pc = "back" /\ req[w].for = "sweep" /\ load' = NoLoad /\ board' = WithArchived
      /\ unsettled' = IF load.quiet THEN (IF req[w].ok THEN {} ELSE load.old)
                      ELSE unsettled \union (IF req[w].ok THEN {} ELSE load.old)
      /\ req' = [req EXCEPT ![w] = Idle]
      /\ UNCHANGED <<status, deleted, dialog>>
  BY DEF DeliverSweep, Show, rowVars
<1>2. load.pc = "archiving" /\ load.old = {req[w].task} /\ req[w].task \in Tasks
  BY <1>1, RowTypes DEF BoardInv, RefreshFits
<1>3. \A v \in Workers : req'[v] = Idle \/ (req'[v] = req[v] /\ req[v].for # "sweep")
  BY <1>1, RowTypes DEF BoardInv, RefreshFits
<1>4. ASSUME NEW t \in Tasks, t \notin unsettled'
      PROVE  Followed(t) /\ board'[t] = OnServer(t)
  <2>1. Followed(t) /\ (t = req[w].task => req[w].ok)
    BY <1>1, <1>2, <1>4 DEF Followed
  <2>2. CASE t = req[w].task
    <3>1. OnServer(t) = "archived"
      <4>1. ServerFits(req[w], t) /\ req[w].op = "update"
        BY <1>1, <2>1, <2>2, RequestAlone, RowTypes, RequestFields DEF BoardInv, PurposesFit, PurposeFits
      <4> QED BY <1>1, <2>1, <2>2, <4>1 DEF ServerFits
    <3> QED BY <1>1, <1>2, <2>1, <2>2, <3>1 DEF WithArchived
  <2>3. CASE t # req[w].task
    BY <1>1, <1>2, <2>1, <2>3 DEF WithArchived, BoardInv, SettledFits, SettledFor
  <2> QED BY <2>2, <2>3
<1>5. \A t \in Tasks : board'[t] # "absent" => status[t] # "absent"
  BY <1>1 DEF WithArchived, BoardInv, KnownFits
<1> QED BY <1>1, <1>2, <1>3, <1>4, <1>5, LoadEnds

\* The same when the update is lost: its task is unsettled, whatever becomes
\* of it.
LEMMA LoseSweepFits ==
    ASSUME BoardInv, RowsInv', NEW w \in Workers, LoseSweep(w)
    PROVE  BoardInv'
<1>1. /\ req[w].for = "sweep" /\ load' = NoLoad /\ board' = WithArchived
      /\ unsettled' = IF load.quiet THEN load.old ELSE unsettled \union load.old
      /\ UNCHANGED <<status, deleted, dialog>>
  BY DEF LoseSweep, Show, rowVars
<1>2. load.pc = "archiving" /\ load.old = {req[w].task} /\ req[w].task \in Tasks /\ req[w].op = "update"
  BY <1>1, RowTypes, RequestFields DEF BoardInv, RefreshFits, PurposesFit, PurposeFits
<1>3. req'[w] = Idle \/ Abandoned(w)
  BY <1>1, <1>2, RowTypes DEF LoseSweep, Abandoned, BoardInv
<1>4. \A v \in Workers : v # w => req'[v] = req[v] /\ req[v].for # "sweep"
  BY <1>1, RowTypes DEF LoseSweep, BoardInv, RefreshFits
<1>5. ASSUME NEW t \in Tasks, t \notin unsettled'
      PROVE  Followed(t) /\ board'[t] = OnServer(t)
  <2>1. Followed(t) /\ t \notin load.old
    BY <1>1, <1>5 DEF Followed
  <2> QED BY <1>1, <1>2, <2>1 DEF WithArchived, BoardInv, SettledFits, SettledFor
<1>6. \A t \in Tasks : board'[t] # "absent" => status[t] # "absent"
  BY <1>1 DEF WithArchived, BoardInv, KnownFits
<1>7. \A v \in Workers :
         req'[v] = Idle \/ (req'[v] = req[v] /\ req[v].for # "sweep") \/ Abandoned(v)
  BY <1>3, <1>4
<1> QED BY <1>1, <1>2, <1>5, <1>6, <1>7, LoadEnds

\* A task of the list is archived: the sweep is its only request, or it is
\* unsettled.
LEMMA LoadArchiveFits ==
    ASSUME BoardInv, RowsInv', NEW w \in Workers, NEW t \in Tasks, LoadArchive(w, t)
    PROVE  BoardInv'
<1>1. PICK r : r = Update(t, "archived", "sweep")
  OBVIOUS
<1>2. /\ r.op = "update" /\ r.pc = "load" /\ r.task = t /\ r.for = "sweep" /\ r.to = "archived"
      /\ r.ok = FALSE
  BY <1>1 DEF Update, Idle
<1>3. /\ load.pc = "back" /\ load.snap[t] = "done" /\ req[w].op = "none" /\ req[w].task = NoTask
      /\ load'.pc = "archiving" /\ load'.snap = load.snap /\ load'.old = {t} /\ load.old = {}
      /\ req' = [req EXCEPT ![w] = r]
      /\ unsettled' = IF InFlight(t) # {} THEN unsettled \union {t} ELSE unsettled
      /\ UNCHANGED <<status, deleted, page, board, dialog>>
  BY <1>1 DEF LoadArchive, rowVars, BoardInv, RowsInv, TypeOK, PurposesFit, PurposeFits, RefreshFits
<1>4. load'.quiet => load.quiet /\ InFlight(t) = {}
  BY DEF LoadArchive, BoardInv, RowsInv, TypeOK
<1>5. req'[w] = r /\ \A v \in Workers : v # w => req'[v] = req[v]
  BY <1>3, OneRequest DEF BoardInv
<1>6. \A v \in Workers : req[v].for # "sweep"
  BY <1>3, SweepsWait
<1>7. KnownFits'
  BY <1>2, <1>3, <1>5 DEF BoardInv, KnownFits, At
<1>8. PurposesFit'
  BY <1>2, <1>5 DEF BoardInv, PurposesFit, PurposeFits
<1>9. RefreshFits'
  BY <1>2, <1>3, <1>4, <1>5, <1>6 DEF BoardInv, RefreshFits
<1>10. ASSUME NEW u \in Tasks
       PROVE  SettledFor(u)'
  <2>1. OnServer(u)' = OnServer(u) /\ (Live(u)' <=> Live(u))
    BY <1>3 DEF OnServer, Live
  <2>2. Followed(u)' => Followed(u) /\ (u = t => InFlight(t) = {})
    BY <1>3, <1>4 DEF Followed
  <2>3. CASE u = t
    <3>1. Followed(t)' => \A v \in Workers : v # w => req[v].task # t
      BY <2>2, <2>3 DEF InFlight
    <3>2. RowsInv /\ load'.pc = "archiving" /\ t \in load'.old /\ r.for = "sweep" /\ r.pc = "load"
          /\ r.to = "archived"
      BY <1>2, <1>3 DEF BoardInv
    <3>3. SettledFor(t)'
      BY <1>3, <3>1, <3>2, TaskStep
    <3> QED BY <2>3, <3>3
  <2>4. CASE u # t
    <3>1. InFlight(u)' = InFlight(u) /\ \A v \in InFlight(u) : req'[v] = req[v] /\ v \in Workers
      BY <1>2, <1>3, <1>5, <2>4, RowTypes DEF InFlight, BoardInv
    <3>2. \A v \in InFlight(u) : ServerFits(req[v], u) => ServerFits(req[v], u)'
      BY <2>1, <3>1, <1>3 DEF ServerFits
    <3> QED BY <1>3, <2>1, <2>2, <2>4, <3>1, <3>2 DEF BoardInv, SettledFits, SettledFor, At
  <2> QED BY <2>3, <2>4
<1> QED BY <1>7, <1>8, <1>9, <1>10 DEF BoardInv, SettledFits

LEMMA LoadFits ==
    ASSUME BoardInv, RowsInv', Refresh \/ TryAgain \/ LoadRead \/ LoadBack \/ LoadFails
    PROVE  BoardInv'
<1>1. CASE Refresh
  BY <1>1, ReloadFits DEF Refresh
<1>2. CASE TryAgain
  BY <1>2, ReloadFits DEF TryAgain, BoardInv, RefreshFits
<1> QED BY <1>1, <1>2, LoadReadFits, LoadBackFits, LoadFailsFits

(***************************************************************************)
(* What the page shows: the server                                         *)
(***************************************************************************)

\* The request an answer leaves: none, or the same one, back with the answer.
Leaves(w, r, ok, t, to) ==
    /\ req' = [req EXCEPT ![w] = r]
    /\ Unheard(w) => r.op = "none" /\ r.task = NoTask /\ r.for = "nobody" /\ r.pc = "none"
    /\ ~Unheard(w) =>
          /\ r.op = req[w].op /\ r.for = req[w].for /\ r.was = req[w].was
          /\ r.pc = "back" /\ (r.ok <=> ok) /\ r.task = t /\ r.to = to

LEMMA AnswerLeaves ==
    ASSUME RowsInv, NEW w \in Workers, NEW ok \in BOOLEAN, NEW t, NEW to, Answer(w, ok, t, to)
    PROVE  \E r : Leaves(w, r, ok, t, to)
<1>1. CASE Unheard(w)
  <2>1. PICK r : r = Idle
    OBVIOUS
  <2> QED BY <1>1, <2>1 DEF Answer, Idle, Leaves
<1>2. CASE ~Unheard(w)
  <2>1. PICK r : r = [req[w] EXCEPT !.pc = "back", !.ok = ok, !.task = t, !.to = to, !.seen = "absent"]
    OBVIOUS
  <2>2. req[w] \in Requests
    BY RowTypes
  <2>3. /\ r.op = req[w].op /\ r.for = req[w].for /\ r.was = req[w].was
        /\ r.pc = "back" /\ r.ok = ok /\ r.task = t /\ r.to = to
    BY <2>1, <2>2 DEF Requests
  <2>4. req' = [req EXCEPT ![w] = r]
    BY <1>2, <2>1, RowTypes DEF Answer
  <2> QED BY <1>2, <2>3, <2>4 DEF Leaves
<1> QED BY <1>1, <1>2

\* A step of a request that writes nothing: it knows its row, or is refused,
\* and whoever waits for it will find the card where it should be.
LEMMA AdvanceFits ==
    ASSUME BoardInv, RowsInv', NEW w \in Workers, NEW r, req' = [req EXCEPT ![w] = r],
           UNCHANGED <<status, deleted, Server>>, PurposeFits(r),
           req[w].op # "none", req[w].pc # "back", ~At(w, "create", "commit"),
           \/ r.op = "none" /\ Unheard(w)
           \/ /\ r.op = req[w].op /\ r.for = req[w].for /\ r.was = req[w].was /\ r.to = req[w].to
              /\ r.task = req[w].task
              /\ ~(r.op = "create" /\ r.pc = "commit") /\ ~(r.pc = "back" /\ r.ok)
              /\ r.op = "update" /\ r.pc = "commit" => Live(r.task) /\ r.seen = status[r.task]
    PROVE  BoardInv'
<1>0. PICK t : t = req[w].task
  OBVIOUS
<1>1. r.task \in {t, NoTask} /\ req[w].task \in {t, NoTask}
  BY <1>0 DEF PurposeFits
<1>2. UNCHANGED <<page, board, load, dialog, unsettled>>
  BY DEF Server, pageVars
<1>3. OnlyTask(t)
  BY <1>2 DEF OnlyTask, LoadStays
<1>4. MovesOn(w, r)
  BY DEF MovesOn, PurposeFits
<1>5. ASSUME t \in Tasks
      PROVE  RowKnown(r, t) /\ SettledFor(t)'
  <2>1. status[t] # "absent"
    BY <1>0, <1>5 DEF BoardInv, KnownFits
  <2>2. RowKnown(r, t)
    BY <1>2, <2>1 DEF RowKnown
  <2>3. OnServer(t)' = OnServer(t) /\ (Live(t)' <=> Live(t)) /\ (Followed(t)' <=> Followed(t))
    BY <1>2 DEF OnServer, Live, Followed
  <2>4. ASSUME Followed(t)
        PROVE  /\ \A v \in Workers : v # w => req[v].task # t
               /\ load.pc \in {"back", "archiving"} /\ t \notin load.old => load.snap[t] = OnServer(t)
               /\ ServerFits(req[w], t) /\ ~Unheard(w)
               /\ load.pc # "none" => req[w].for = "sweep"
               /\ t \notin unsettled /\ load.pc # "archiving" => CardFits(req[w], t)
    BY <1>0, <1>5, <2>4, RequestAlone DEF Unheard
  <2>5. Followed(t) => r.task = t /\ r.for = req[w].for /\ r.was = req[w].was /\ r.to = req[w].to
    BY <1>0, <2>4
  <2>6. Followed(t)' =>
           /\ \A v \in Workers : v # w => req[v].task # t
           /\ load'.pc \in {"back", "archiving"} /\ t \notin load'.old => load'.snap[t] = OnServer(t)'
           /\ r.task = t =>
                 /\ r.op = "update" /\ r.pc = "commit" => Live(t)' /\ r.seen = status'[t]
                 /\ r.for = "sweep" => r.to = "archived"
                 /\ r.pc = "back" /\ r.ok => OnServer(t)' = IF r.op = "delete" THEN "absent" ELSE r.to
                 /\ r.for \in {"nobody", "other"} => r.for = "nobody" /\ r.op = "create" /\ r.pc = "commit"
                 /\ load'.pc # "none" => (r.op = "create" /\ r.pc = "commit") \/ r.for = "sweep"
    BY <1>0, <1>2, <2>3, <2>4, <2>5 DEF ServerFits, Unheard
  <2>7. t \notin unsettled' /\ load'.pc # "archiving" =>
           /\ r.task # t => board'[t] = OnServer(t)'
           /\ r.task = t =>
                 /\ r.for = "drag" => board'[t] = r.to
                 /\ r.pc = "back" /\ r.ok => r.op # "update" \/ board'[t] # "absent"
                 /\ r.pc # "back" \/ ~r.ok => OnServer(t)' = IF r.for = "drag" THEN r.was ELSE board'[t]
    <3>1. t \notin unsettled => Followed(t)
      BY DEF Followed
    <3> QED BY <1>2, <2>3, <2>4, <2>5, <3>1 DEF CardFits, Unheard
  <2>8. SettledFor(t)'
    BY <1>5, <2>6, <2>7, TaskStep DEF BoardInv
  <2> QED BY <2>2, <2>8
<1> QED BY <1>1, <1>3, <1>4, <1>5, RequestStep

\* A handler that wrote nothing answers that it failed.
LEMMA RefusalFits ==
    ASSUME BoardInv, RowsInv', NEW w \in Workers, Reply(w, FALSE), UNCHANGED <<status, deleted, Server>>,
           req[w].op # "none", req[w].pc # "back", ~At(w, "create", "commit")
    PROVE  BoardInv'
<1>1. PICK r : Leaves(w, r, FALSE, req[w].task, req[w].to)
  BY AnswerLeaves DEF Reply, BoardInv
<1>2. PurposeFits(req[w]) /\ Fits(req[w])
  BY DEF BoardInv, PurposesFit, RowsInv, RequestsFit, Fits
<1>3. PurposeFits(r)
  BY <1>1, <1>2 DEF PurposeFits, Fits, At, Leaves
<1> QED BY <1>1, <1>3, AdvanceFits DEF Leaves

LEMMA ServerFailsFits ==
    ASSUME BoardInv, RowsInv', NEW w \in Workers, ServerFails(w)
    PROVE  BoardInv'
<1>1. req[w].op # "none" /\ req[w].pc # "back" /\ ~At(w, "create", "commit")
  BY DEF ServerFails, At, BoardInv, RowsInv, RequestsFit
<1>2. UNCHANGED <<status, deleted, Server>> /\ Reply(w, FALSE)
  BY DEF ServerFails, rowVars
<1> QED BY <1>1, <1>2, RefusalFits

LEMMA UpdateLoadFits ==
    ASSUME BoardInv, RowsInv', NEW w \in Workers, UpdateLoad(w)
    PROVE  BoardInv'
<1>1. req[w] \in Requests /\ req[w].op = "update" /\ req[w].pc = "load" /\ PurposeFits(req[w])
  BY RowTypes DEF UpdateLoad, At, BoardInv, PurposesFit
<1>2. UNCHANGED <<status, deleted, Server>>
  BY DEF UpdateLoad, rowVars
<1>3. CASE Live(req[w].task) /\ req' = [req EXCEPT ![w].pc = "commit", ![w].seen = status[req[w].task]]
  <2>1. PICK r : r = [req[w] EXCEPT !.pc = "commit", !.seen = status[req[w].task]]
    OBVIOUS
  <2>2. /\ r.op = "update" /\ r.for = req[w].for /\ r.was = req[w].was /\ r.to = req[w].to
        /\ r.task = req[w].task /\ r.pc = "commit" /\ r.seen = status[r.task]
    BY <1>1, <2>1 DEF Requests
  <2>3. req' = [req EXCEPT ![w] = r]
    BY <1>3, <2>1, RowTypes DEF BoardInv
  <2>4. PurposeFits(r)
    BY <1>1, <2>2 DEF PurposeFits
  <2> QED BY <1>1, <1>2, <1>3, <2>2, <2>3, <2>4, AdvanceFits DEF At
<1>4. CASE Reply(w, FALSE)
  BY <1>1, <1>2, <1>4, RefusalFits DEF At
<1> QED BY <1>3, <1>4 DEF UpdateLoad

LEMMA DeleteLoadFits ==
    ASSUME BoardInv, RowsInv', NEW w \in Workers, DeleteLoad(w)
    PROVE  BoardInv'
<1>1. req[w] \in Requests /\ req[w].op = "delete" /\ req[w].pc = "load" /\ PurposeFits(req[w])
  BY RowTypes DEF DeleteLoad, At, BoardInv, PurposesFit
<1>2. UNCHANGED <<status, deleted, Server>>
  BY DEF DeleteLoad, rowVars
<1>3. CASE req' = [req EXCEPT ![w].pc = "commit"]
  <2>1. PICK r : r = [req[w] EXCEPT !.pc = "commit"]
    OBVIOUS
  <2>2. /\ r.op = "delete" /\ r.for = req[w].for /\ r.was = req[w].was /\ r.to = req[w].to
        /\ r.task = req[w].task /\ r.pc = "commit"
    BY <1>1, <2>1 DEF Requests
  <2>3. req' = [req EXCEPT ![w] = r]
    BY <1>3, <2>1, RowTypes DEF BoardInv
  <2>4. PurposeFits(r)
    BY <1>1, <2>2 DEF PurposeFits
  <2> QED BY <1>1, <1>2, <2>2, <2>3, <2>4, AdvanceFits DEF At
<1>4. CASE Reply(w, FALSE)
  BY <1>1, <1>2, <1>4, RefusalFits DEF At
<1> QED BY <1>3, <1>4 DEF DeleteLoad

\* The key is looked up: what is found is answered, and the task it is of is
\* settled only if nothing else is going on with it.
LEMMA CreateLookupFits ==
    ASSUME BoardInv, RowsInv', NEW w \in Workers, CreateLookup(w)
    PROVE  BoardInv'
<1>1. /\ req[w] \in Requests /\ req[w].op = "create" /\ req[w].pc = "lookup" /\ PurposeFits(req[w])
      /\ req[w].task = NoTask /\ req[w].for \in {"dialog", "nobody"} /\ req[w].to = "todo"
  BY RowTypes DEF CreateLookup, At, BoardInv, PurposesFit, PurposeFits
<1>2. UNCHANGED <<status, deleted, page, board, load, dialog>> /\ ~load.quiet
  BY <1>1, NotQuiet DEF CreateLookup, rowVars, pageVars
<1>3. ASSUME NEW t \in Tasks, HasKey(t, req[w].key), Answer(w, TRUE, t, status[t]),
             unsettled' = IF load.pc # "none" \/ InFlight(t) # {} \/ t \in deleted
                          THEN unsettled \union {t} ELSE unsettled
      PROVE  BoardInv'
  <2>1. PICK r : Leaves(w, r, TRUE, t, status[t])
    BY <1>3, AnswerLeaves DEF BoardInv
  <2>2. OnlyTask(t)
    BY <1>2, <1>3 DEF OnlyTask, LoadStays
  <2>3. MovesOn(w, r)
    BY <1>1, <2>1 DEF MovesOn, PurposeFits, Leaves, Unheard
  <2>4. RowKnown(r, t)
    BY <1>2, <1>3 DEF RowKnown, HasKey
  <2>5. t \notin unsettled' =>
           /\ t \notin unsettled /\ load.pc = "none" /\ InFlight(t) = {} /\ t \notin deleted
           /\ board[t] = OnServer(t) /\ OnServer(t) = status[t]
    BY <1>3 DEF BoardInv, SettledFits, SettledFor, OnServer, Live, HasKey
  <2>6. OnServer(t)' = OnServer(t) /\ (Followed(t)' => t \notin unsettled')
    BY <1>2 DEF OnServer, Live, Followed
  <2>7. t \notin unsettled' => \A v \in Workers : req[v].task # t
    BY <2>5 DEF InFlight
  <2>8. r.task = t => r.op = "create" /\ r.for = "dialog" /\ r.pc = "back" /\ r.ok /\ r.to = status[t]
    BY <1>1, <2>1, RowTypes DEF Leaves, Unheard, BoardInv
  <2>9. req' = [req EXCEPT ![w] = r] /\ r.task \in {t, NoTask}
    BY <2>1 DEF Leaves
  <2>10. SettledFor(t)'
    BY <1>2, <2>5, <2>6, <2>7, <2>8, <2>9, TaskStep DEF BoardInv
  <2> QED BY <1>1, <2>2, <2>3, <2>4, <2>9, <2>10, RequestStep
<1>4. CASE req' = [req EXCEPT ![w].pc = "flush"] /\ UNCHANGED unsettled
  <2>1. PICK r : r = [req[w] EXCEPT !.pc = "flush"]
    OBVIOUS
  <2>2. /\ r.op = "create" /\ r.for = req[w].for /\ r.was = req[w].was /\ r.to = req[w].to
        /\ r.task = req[w].task /\ r.pc = "flush"
    BY <1>1, <2>1 DEF Requests
  <2>3. req' = [req EXCEPT ![w] = r] /\ UNCHANGED <<status, deleted, Server>>
    BY <1>2, <1>4, <2>1, RowTypes DEF BoardInv, CreateLookup, Server
  <2>4. PurposeFits(r)
    BY <1>1, <2>2 DEF PurposeFits
  <2> QED BY <1>1, <2>2, <2>3, <2>4, AdvanceFits DEF At
<1> QED BY <1>3, <1>4 DEF CreateLookup

\* A row is flushed: nobody else can know the task yet.
LEMMA CreateFlushFits ==
    ASSUME BoardInv, RowsInv', NEW w \in Workers, CreateFlush(w)
    PROVE  BoardInv'
<1>1. /\ req[w] \in Requests /\ req[w].op = "create" /\ req[w].pc = "flush" /\ PurposeFits(req[w])
      /\ req[w].task = NoTask /\ req[w].for \in {"dialog", "nobody"} /\ req[w].to = "todo"
  BY RowTypes DEF CreateFlush, At, BoardInv, PurposesFit, PurposeFits
<1>2. UNCHANGED <<status, deleted, Server>> /\ UNCHANGED <<page, board, load, dialog, unsettled>> /\ ~load.quiet
  BY <1>1, NotQuiet DEF CreateFlush, Server, rowVars, pageVars
<1>3. CASE Reply(w, FALSE)
  BY <1>1, <1>2, <1>3, RefusalFits DEF At
<1>4. ASSUME NEW t \in Tasks, status[t] = "absent", ~Flushed(t),
             req' = [req EXCEPT ![w].pc = "commit", ![w].task = t]
      PROVE  BoardInv'
  <2>1. PICK r : r = [req[w] EXCEPT !.pc = "commit", !.task = t]
    OBVIOUS
  <2>2. /\ r.op = "create" /\ r.for = req[w].for /\ r.to = req[w].to
        /\ r.task = t /\ r.pc = "commit"
    BY <1>1, <2>1 DEF Requests
  <2>3. req' = [req EXCEPT ![w] = r]
    BY <1>4, <2>1, RowTypes DEF BoardInv
  <2>4. OnlyTask(t)
    BY <1>2 DEF OnlyTask, LoadStays
  <2>5. MovesOn(w, r)
    BY <1>1, <2>2 DEF MovesOn, PurposeFits
  <2>6. \A v \in Workers : req[v].task # t
    BY <1>4 DEF Flushed, BoardInv, KnownFits
  <2>7. OnServer(t)' = OnServer(t) /\ (Followed(t)' <=> Followed(t))
    BY <1>2 DEF OnServer, Live, Followed
  <2>8. /\ Followed(t) /\ load.pc \in {"back", "archiving"} /\ t \notin load.old => load.snap[t] = OnServer(t)
        /\ t \notin unsettled /\ load.pc # "archiving" => board[t] = OnServer(t)
    BY <2>6 DEF BoardInv, SettledFits, SettledFor, InFlight
  <2>9. SettledFor(t)'
    BY <1>1, <1>2, <2>2, <2>3, <2>6, <2>7, <2>8, TaskStep DEF BoardInv
  <2>10. RowKnown(r, t)
    BY <1>2, <1>4, <2>2 DEF RowKnown, BoardInv, KnownFits
  <2> QED BY <1>1, <2>2, <2>3, <2>4, <2>5, <2>9, <2>10, RequestStep
<1> QED BY <1>3, <1>4 DEF CreateFlush

\* A row is made: the dialog is told so, and shows it, unless it no longer
\* listens or a refresh is in flight.
LEMMA CreateCommitFits ==
    ASSUME BoardInv, RowsInv', NEW w \in Workers, CreateCommit(w)
    PROVE  BoardInv'
<1>0. PICK t : t = req[w].task
  OBVIOUS
<1>1. /\ req[w] \in Requests /\ req[w].op = "create" /\ req[w].pc = "commit" /\ PurposeFits(req[w])
      /\ t \in Tasks /\ status[t] = "absent" /\ req[w].for \in {"dialog", "nobody"} /\ req[w].to = "todo"
      /\ t \notin deleted
  BY <1>0, RowTypes, CreateCommitFinds DEF CreateCommit, At, BoardInv, PurposesFit, PurposeFits, KnownFits
<1>2. /\ status' = [status EXCEPT ![t] = "todo"]
      /\ unsettled' = IF req[w].for = "nobody" \/ load.pc # "none" THEN unsettled \union {t} ELSE unsettled
      /\ UNCHANGED <<deleted, page, board, load, dialog>> /\ ~load.quiet
  BY <1>0, <1>1, NotQuiet DEF CreateCommit, pageVars
<1>3. PICK r : Leaves(w, r, TRUE, t, "todo")
  <2>1. Answer(w, TRUE, t, "todo")
    BY <1>0, <1>1 DEF CreateCommit, Reply
  <2> QED BY <2>1, AnswerLeaves DEF BoardInv
<1>4. status'[t] = "todo" /\ \A u \in Tasks : u # t => status'[u] = status[u]
  BY <1>1, <1>2, RowTypes DEF BoardInv
<1>5. OnlyTask(t)
  BY <1>1, <1>2, <1>4 DEF OnlyTask, LoadStays
<1>6. MovesOn(w, r)
  BY <1>1, <1>3 DEF MovesOn, PurposeFits, Leaves, Unheard
<1>7. RowKnown(r, t)
  BY <1>4 DEF RowKnown
<1>8. OnServer(t)' = "todo" /\ (Followed(t)' => t \notin unsettled')
  BY <1>1, <1>2, <1>4 DEF OnServer, Live, Followed
<1>9. t \notin unsettled' =>
         /\ req[w].for = "dialog" /\ load.pc = "none"
         /\ \A v \in Workers : v # w => req[v].task # t
  BY <1>0, <1>1, <1>2, RequestAlone DEF Followed
<1>10. /\ r.task = t => r.op = "create" /\ r.pc = "back" /\ r.ok /\ r.to = "todo" /\ r.for = req[w].for
       /\ req[w].for = "dialog" => r.task = t
       /\ r.task \in {t, NoTask} /\ req' = [req EXCEPT ![w] = r]
  BY <1>1, <1>3, RowTypes DEF Leaves, Unheard, BoardInv
<1>11. SettledFor(t)'
  BY <1>1, <1>2, <1>8, <1>9, <1>10, TaskStep DEF BoardInv
<1> QED BY <1>0, <1>5, <1>6, <1>7, <1>10, <1>11, RequestStep

\* An update that is followed knows what it writes over, and is answered for.
LEMMA UpdateCommitFits ==
    ASSUME BoardInv, RowsInv', NEW w \in Workers, UpdateCommit(w)
    PROVE  BoardInv'
<1>0. PICK t : t = req[w].task
  OBVIOUS
<1>1. /\ req[w] \in Requests /\ req[w].op = "update" /\ req[w].pc = "commit" /\ PurposeFits(req[w])
      /\ t \in Tasks /\ status[t] \in Columns /\ req[w].to \in Columns
  BY <1>0, RowTypes, UpdateCommitFinds DEF UpdateCommit, At, BoardInv, PurposesFit
<1>2. /\ status' = IF req[w].to = req[w].seen THEN status ELSE [status EXCEPT ![t] = req[w].to]
      /\ UNCHANGED <<deleted, page, board, load, dialog, unsettled>>
      /\ Answer(w, TRUE, t, status'[t])
  BY <1>0 DEF UpdateCommit, Server, pageVars
<1>3. status'[t] # "absent" /\ \A u \in Tasks : u # t => status'[u] = status[u]
  BY <1>1, <1>2, RowTypes DEF BoardInv, Columns
<1>4. PICK to : to = status'[t]
  OBVIOUS
<1>5. PICK r : Leaves(w, r, TRUE, t, to)
  BY <1>2, <1>4, AnswerLeaves DEF BoardInv
<1>6. OnlyTask(t)
  BY <1>1, <1>2, <1>3 DEF OnlyTask, LoadStays
<1>7. MovesOn(w, r)
  BY <1>0, <1>1, <1>5 DEF MovesOn, PurposeFits, Leaves, Unheard
<1>8. RowKnown(r, t)
  BY <1>3 DEF RowKnown
<1>9. (Followed(t)' <=> Followed(t)) /\ (t \notin unsettled => Followed(t))
  BY <1>2 DEF Followed
<1>10. ASSUME Followed(t)
       PROVE  /\ \A v \in Workers : v # w => req[v].task # t
              /\ load.pc \in {"back", "archiving"} => t \in load.old
              /\ load.pc # "none" => req[w].for = "sweep"
              /\ OnServer(t)' = req[w].to /\ to = req[w].to /\ req[w].for \notin {"nobody", "other"}
              /\ OnServer(t) # "absent"
              /\ t \notin unsettled /\ load.pc # "archiving" => CardFits(req[w], t)
  <2>1. /\ \A v \in Workers : v # w => req[v].task # t
        /\ Live(t) /\ req[w].seen = status[t] /\ req[w].for \notin {"nobody", "other"}
        /\ load.pc # "none" => req[w].for = "sweep"
        /\ t \notin unsettled /\ load.pc # "archiving" => CardFits(req[w], t)
    BY <1>0, <1>1, <1>10, RequestAlone DEF ServerFits, At
  <2>2. req[w].for = "sweep" => t \in load.old
    BY <1>0 DEF BoardInv, RefreshFits
  <2>3. status'[t] = req[w].to
    BY <1>1, <1>2, <2>1, RowTypes DEF BoardInv
  <2>4. OnServer(t)' = req[w].to /\ OnServer(t) # "absent"
    BY <1>2, <1>3, <2>1, <2>3 DEF OnServer, Live
  <2> QED BY <1>4, <2>1, <2>2, <2>3, <2>4
<1>11. /\ r.task = t =>
             /\ r.op = "update" /\ r.pc = "back" /\ r.ok /\ r.to = to /\ r.for = req[w].for
       /\ req[w].for \notin {"nobody", "other"} => r.task = t
       /\ r.task \in {t, NoTask} /\ req' = [req EXCEPT ![w] = r]
  BY <1>1, <1>5, RowTypes DEF Leaves, Unheard, BoardInv
<1>12. req[w].for = "sweep" => req[w].to = "archived"
  BY <1>1 DEF PurposeFits
<1>13. t \notin unsettled /\ load.pc # "archiving" =>
          board[t] # "absent" /\ (req[w].for = "drag" => board[t] = req[w].to)
  BY <1>1, <1>9, <1>10 DEF CardFits, Columns
<1>14. SettledFor(t)'
  <2>1. Followed(t)' =>
           /\ \A v \in Workers : v # w => req[v].task # t
           /\ load'.pc \in {"back", "archiving"} /\ t \notin load'.old => load'.snap[t] = OnServer(t)'
           /\ r.task = t /\ r.op = "update" /\ r.pc = "back" /\ r.for = req[w].for /\ r.to = req[w].to
           /\ OnServer(t)' = r.to /\ r.for \notin {"nobody", "other"}
           /\ load'.pc # "none" => r.for = "sweep"
    BY <1>2, <1>9, <1>10, <1>11
  <2>2. t \notin unsettled' /\ load'.pc # "archiving" =>
           /\ r.task = t /\ r.pc = "back" /\ r.ok
           /\ board'[t] # "absent" /\ (r.for = "drag" => board'[t] = r.to)
    BY <1>2, <1>9, <1>10, <1>11, <1>13
  <2> QED BY <1>1, <1>11, <1>12, <2>1, <2>2, TaskStep DEF BoardInv
<1> QED BY <1>0, <1>6, <1>7, <1>8, <1>11, <1>14, RequestStep

\* A task is deleted, and whoever asked for it is told.
LEMMA DeleteCommitFits ==
    ASSUME BoardInv, RowsInv', NEW w \in Workers, DeleteCommit(w)
    PROVE  BoardInv'
<1>0. PICK t : t = req[w].task
  OBVIOUS
<1>1. /\ req[w] \in Requests /\ req[w].op = "delete" /\ req[w].pc = "commit" /\ PurposeFits(req[w])
      /\ t \in Tasks /\ status[t] # "absent"
  BY <1>0, RowTypes DEF DeleteCommit, At, BoardInv, PurposesFit, RowsInv, RequestsFit, KnownFits
<1>2. /\ deleted' = deleted \union {t}
      /\ UNCHANGED <<status, page, board, load, dialog, unsettled>> /\ ~load.quiet
  BY <1>0, <1>1, NotQuiet DEF DeleteCommit, Server, pageVars, PurposeFits
<1>3. PICK r : Leaves(w, r, TRUE, t, req[w].to)
  BY <1>0, AnswerLeaves DEF DeleteCommit, Reply, BoardInv
<1>4. OnlyTask(t)
  BY <1>2 DEF OnlyTask, LoadStays
<1>5. MovesOn(w, r)
  BY <1>1, <1>3 DEF MovesOn, PurposeFits, Leaves, Unheard
<1>6. RowKnown(r, t)
  BY <1>1, <1>2 DEF RowKnown
<1>7. OnServer(t)' = "absent" /\ (Followed(t)' <=> t \notin unsettled)
  BY <1>2 DEF OnServer, Live, Followed
<1>8. t \notin unsettled =>
         /\ \A v \in Workers : v # w => req[v].task # t
         /\ load.pc = "none" /\ req[w].for \notin {"nobody", "other"}
  BY <1>0, <1>1, RequestAlone DEF Followed, At, PurposeFits
<1>9. /\ r.task = t => r.op = "delete" /\ r.pc = "back" /\ r.ok /\ r.for = req[w].for
      /\ req[w].for \notin {"nobody", "other"} => r.task = t
      /\ r.task \in {t, NoTask} /\ req' = [req EXCEPT ![w] = r]
  BY <1>1, <1>3, RowTypes DEF Leaves, Unheard, BoardInv
<1>10. req[w].for \notin {"drag", "sweep"}
  BY <1>1 DEF PurposeFits
<1>11. SettledFor(t)'
  BY <1>1, <1>2, <1>7, <1>8, <1>9, <1>10, TaskStep DEF BoardInv
<1> QED BY <1>0, <1>4, <1>5, <1>6, <1>9, <1>11, RequestStep

(***************************************************************************)
(* What the page shows: the answers                                        *)
(***************************************************************************)

\* The card a failure touches is the one it was dropped as.
LEMMA FailCard ==
    ASSUME RowsInv, NEW w \in Workers, Fail(req[w]), NEW t, t = req[w].task
    PROVE  /\ \A u \in Tasks : u # t => board'[u] = board[u]
           /\ t \in Tasks => board'[t] = IF req[w].for = "drag" /\ board[t] # "absent"
                                         THEN req[w].was ELSE board[t]
BY RowTypes DEF Fail, OnBoard

\* The card a success touches is where the server put the task.
LEMMA SucceedCard ==
    ASSUME RowsInv, NEW w \in Workers, Succeed(req[w]), NEW t, t = req[w].task
    PROVE  /\ \A u \in Tasks : u # t => board'[u] = board[u]
           /\ t \in Tasks /\ req[w].op = "update" /\ req[w].for \in {"drag", "menu", "dialog"} =>
                 board'[t] = IF board[t] # "absent" THEN req[w].to ELSE "absent"
           /\ t \in Tasks /\ req[w].op = "create" /\ req[w].for = "dialog" => board'[t] = req[w].to
           /\ t \in Tasks /\ req[w].op = "delete" /\ req[w].for = "delete" => board'[t] = "absent"
BY RowTypes DEF Succeed, OnBoard

LEMMA DeliverFits ==
    ASSUME BoardInv, RowsInv', NEW w \in Workers, Deliver(w)
    PROVE  BoardInv'
<1>0. PICK t : t = req[w].task
  OBVIOUS
<1>1. /\ req[w] \in Requests /\ req[w].pc = "back" /\ req[w].for # "sweep" /\ PurposeFits(req[w])
      /\ req[w].op # "none" /\ ~At(w, "create", "commit") /\ RowsInv
  BY RowTypes DEF Deliver, At, BoardInv, PurposesFit, RowsInv, RequestsFit
<1>2. /\ UNCHANGED <<status, deleted, page, load, unsettled>> /\ req' = [req EXCEPT ![w] = Idle]
      /\ ~load.quiet
  BY <1>1, NotQuiet DEF Deliver, rowVars
<1>3. (req[w].ok /\ Succeed(req[w])) \/ (~req[w].ok /\ Fail(req[w]))
  BY DEF Deliver
<1>4. PICK r : r = Idle
  OBVIOUS
<1>5. req' = [req EXCEPT ![w] = r] /\ r.op = "none" /\ r.task = NoTask /\ r.for = "nobody" /\ NoTask \notin Tasks
  BY <1>2, <1>4, BoardAssumption DEF Idle
<1>6. /\ \A u \in Tasks : u # t => board'[u] = board[u]
      /\ dialog'.task \in {dialog.task, NoTask}
  BY <1>0, <1>1, <1>3, FailCard, SucceedCard DEF Fail, Succeed, Closed
<1>7. OnlyTask(t)
  BY <1>2, <1>6 DEF OnlyTask, LoadStays
<1>8. MovesOn(w, r)
  BY <1>5 DEF MovesOn, PurposeFits
<1>9. ASSUME t \in Tasks
      PROVE  RowKnown(r, t) /\ SettledFor(t)'
  <2>1. RowKnown(r, t)
    BY <1>0, <1>1, <1>2, <1>9 DEF RowKnown, BoardInv, KnownFits
  <2>2. OnServer(t)' = OnServer(t) /\ (Followed(t)' <=> t \notin unsettled) /\ (t \notin unsettled => Followed(t))
    BY <1>2 DEF OnServer, Live, Followed
  <2>3. ASSUME t \notin unsettled
        PROVE  /\ \A v \in Workers : v # w => req[v].task # t
               /\ req[w].for \notin {"nobody", "other"} /\ load.pc = "none"
               /\ req[w].ok => OnServer(t) = IF req[w].op = "delete" THEN "absent" ELSE req[w].to
               /\ CardFits(req[w], t)
    BY <1>0, <1>1, <1>9, <2>2, <2>3, RequestAlone DEF ServerFits
  <2>4. ASSUME t \notin unsettled
        PROVE  board'[t] = OnServer(t)
    <3>1. req[w].to \in Columns /\ "absent" \notin Columns
      BY <1>1, RequestFields, RowTypes
    <3>2. CASE ~req[w].ok /\ Fail(req[w])
      <4>1. board'[t] = IF req[w].for = "drag" /\ board[t] # "absent" THEN req[w].was ELSE board[t]
        BY <1>0, <1>1, <1>9, <3>2, FailCard
      <4>2. /\ req[w].for = "drag" => board[t] = req[w].to
            /\ OnServer(t) = IF req[w].for = "drag" THEN req[w].was ELSE board[t]
        BY <2>3, <2>4, <3>2 DEF CardFits
      <4> QED BY <3>1, <4>1, <4>2
    <3>3. CASE req[w].ok /\ Succeed(req[w])
      <4>1. CASE req[w].op = "update"
        <5>1. req[w].for \in {"drag", "menu", "dialog"}
          BY <1>1, <2>3, <2>4, <4>1, RequestFields DEF PurposeFits
        <5>2. board[t] # "absent" /\ OnServer(t) = req[w].to
          BY <1>1, <2>3, <2>4, <3>3, <4>1 DEF CardFits
        <5>3. board'[t] = IF board[t] # "absent" THEN req[w].to ELSE "absent"
          BY <1>0, <1>1, <1>9, <3>3, <4>1, <5>1, SucceedCard
        <5> QED BY <5>2, <5>3
      <4>2. CASE req[w].op = "create"
        <5>1. req[w].for = "dialog"
          BY <1>1, <2>3, <2>4, <4>2 DEF PurposeFits
        <5>2. board'[t] = req[w].to
          BY <1>0, <1>1, <1>9, <3>3, <4>2, <5>1, SucceedCard
        <5> QED BY <2>3, <2>4, <3>3, <4>2, <5>2
      <4>3. CASE req[w].op = "delete"
        <5>1. req[w].for = "delete"
          BY <1>1, <2>3, <2>4, <4>3 DEF PurposeFits
        <5>2. board'[t] = "absent"
          BY <1>0, <1>1, <1>9, <3>3, <4>3, <5>1, SucceedCard
        <5> QED BY <2>3, <2>4, <3>3, <4>3, <5>2
      <4> QED BY <1>1, <4>1, <4>2, <4>3, RequestFields
    <3> QED BY <1>3, <3>2, <3>3
  <2>5. SettledFor(t)'
    <3>1. r.task # t
      BY <1>5, <1>9
    <3>2. /\ Followed(t)' => load'.pc = "none" /\ \A v \in Workers : v # w => req[v].task # t
          /\ t \notin unsettled' => board'[t] = OnServer(t)'
      BY <1>2, <2>2, <2>3, <2>4
    <3> QED BY <1>1, <1>5, <1>9, <3>1, <3>2, TaskStep
  <2> QED BY <2>1, <2>5
<1> QED BY <1>0, <1>5, <1>7, <1>8, <1>9, RequestStep

\* A request that never arrived is taken back; the task of one that did, or
\* may have, is unsettled.
LEMMA LoseConnectionFits ==
    ASSUME BoardInv, RowsInv', NEW w \in Workers, LoseConnection(w)
    PROVE  BoardInv'
<1>0. PICK t : t = req[w].task
  OBVIOUS
<1>1. /\ req[w] \in Requests /\ req[w].pc # "none" /\ req[w].for \in {"drag", "menu", "dialog", "delete"}
      /\ req[w].op # "none" /\ PurposeFits(req[w]) /\ RowsInv
  BY RowTypes DEF LoseConnection, BoardInv, PurposesFit, PurposeFits
<1>2. UNCHANGED <<status, deleted, page, load, dialog>> /\ ~load.quiet /\ Fail(req[w]) /\ unsettled \subseteq unsettled'
  BY <1>1, NotQuiet DEF LoseConnection, rowVars, Fail
<1>3. PICK r :
         /\ req' = [req EXCEPT ![w] = r]
         /\ \/ req[w].pc \in {"load", "lookup"} /\ r = Idle
            \/ /\ t \in Tasks => t \in unsettled'
               /\ r = Idle \/ r = [req[w] EXCEPT !.for = "nobody", !.was = "absent"]
  <2>1. CASE req[w].pc \in {"load", "lookup"} /\ req' = [req EXCEPT ![w] = Idle]
    BY <2>1
  <2>2. CASE /\ req' = [req EXCEPT ![w] = IF @.pc = "back" THEN Idle
                                          ELSE [@ EXCEPT !.for = "nobody", !.was = "absent"]]
             /\ unsettled' = IF req[w].task = NoTask THEN unsettled ELSE unsettled \union {req[w].task}
    <3>1. PICK r : r = IF req[w].pc = "back" THEN Idle ELSE [req[w] EXCEPT !.for = "nobody", !.was = "absent"]
      OBVIOUS
    <3>2. req' = [req EXCEPT ![w] = r]
      BY <1>1, <2>2, <3>1, RowTypes
    <3>3. t \in Tasks => t \in unsettled'
      BY <1>0, <1>1, <2>2, RowTypes
    <3> QED BY <3>1, <3>2, <3>3
  <2> QED BY <2>1, <2>2 DEF LoseConnection
<1>4. /\ r.op = "none" /\ r.task = NoTask /\ r.for = "nobody"
      \/ /\ r.op = req[w].op /\ r.pc = req[w].pc /\ r.task = t /\ r.to = req[w].to /\ r.ok = req[w].ok
         /\ r.for = "nobody" /\ (t \in Tasks => t \in unsettled')
  <2>1. CASE r = Idle
    BY <2>1 DEF Idle
  <2>2. CASE r = [req[w] EXCEPT !.for = "nobody", !.was = "absent"] /\ (t \in Tasks => t \in unsettled')
    BY <1>0, <1>1, <2>2 DEF Requests
  <2> QED BY <1>3, <2>1, <2>2
<1>5. /\ \A u \in Tasks : u # t => board'[u] = board[u]
      /\ t \in Tasks => board'[t] = IF req[w].for = "drag" /\ board[t] # "absent" THEN req[w].was ELSE board[t]
  BY <1>0, <1>1, <1>2, FailCard
<1>6. OnlyTask(t)
  BY <1>2, <1>5 DEF OnlyTask, LoadStays
<1>7. MovesOn(w, r)
  BY <1>0, <1>1, <1>2, <1>4 DEF MovesOn, PurposeFits
<1>8. ASSUME t \in Tasks
      PROVE  RowKnown(r, t) /\ SettledFor(t)'
  <2>1. RowKnown(r, t)
    BY <1>0, <1>1, <1>2, <1>4, <1>5, <1>8, RowTypes DEF RowKnown, BoardInv, KnownFits, At
  <2>2. OnServer(t)' = OnServer(t) /\ (Followed(t)' <=> t \notin unsettled')
    BY <1>2 DEF OnServer, Live, Followed
  <2>3. CASE t \in unsettled'
    <3>1. ~Followed(t)'
      BY <2>2, <2>3
    <3> QED BY <2>1, <2>3, <3>1 DEF SettledFor
  <2>4. CASE t \notin unsettled'
    <3>1. req[w].pc \in {"load", "lookup"} /\ r.task # t /\ t \notin unsettled
      BY <1>1, <1>2, <1>3, <1>8, <2>4, RowTypes DEF Idle
    <3>2. /\ \A v \in Workers : v # w => req[v].task # t
          /\ load.pc = "none" /\ CardFits(req[w], t)
      BY <1>0, <1>1, <1>8, <3>1, RequestAlone DEF Followed, At
    <3>3. board'[t] = OnServer(t)
      <4>1. req[w].to # "absent"
        BY <1>1, RequestFields, RowTypes
      <4> QED BY <1>5, <1>8, <3>1, <3>2, <4>1 DEF CardFits
    <3>4. req' = [req EXCEPT ![w] = r] /\ load'.pc = "none" /\ board'[t] = OnServer(t)'
      BY <1>2, <1>3, <2>2, <3>2, <3>3
    <3> QED BY <1>1, <1>8, <2>1, <3>1, <3>2, <3>4, TaskStep
  <2> QED BY <2>1, <2>3, <2>4
<1>9. req[w].task \in {t, NoTask} /\ r.task \in {t, NoTask}
  BY <1>0, <1>4
<1> QED BY <1>3, <1>6, <1>7, <1>8, <1>9, RequestStep

(***************************************************************************)
(* The theorems about the page                                             *)
(***************************************************************************)
LEMMA BoardInit == Init => BoardInv
<1> SUFFICES ASSUME Init PROVE BoardInv
  OBVIOUS
<1>1. RowsInv
  BY RowsInit
<1>2. \A w \in Workers : req[w] = Idle
  BY DEF Init
<1>3. Idle.op = "none" /\ Idle.task = NoTask /\ Idle.for = "nobody" /\ NoTask \notin Tasks
  BY BoardAssumption DEF Idle
<1>4. /\ load.pc = "sent" /\ load.snap = [t \in Tasks |-> "absent"] /\ load.old = {} /\ load.quiet = TRUE
      /\ dialog.task = NoTask
  BY DEF Init, NoLoad, Closed
<1>5. KnownFits
  BY <1>2, <1>3, <1>4 DEF Init, KnownFits
<1>6. PurposesFit /\ RefreshFits
  BY <1>2, <1>3, <1>4 DEF Init, PurposesFit, PurposeFits, RefreshFits
<1>7. ASSUME NEW t \in Tasks
      PROVE  SettledFor(t)
  <2>1. InFlight(t) = {}
    BY <1>2, <1>3 DEF InFlight
  <2>2. t \notin unsettled => board[t] = OnServer(t)
    BY DEF Init, OnServer, Live
  <2> QED BY <1>4, <2>1, <2>2 DEF SettledFor
<1> QED BY <1>1, <1>5, <1>6, <1>7 DEF BoardInv, SettledFits

LEMMA BoardStep == BoardInv /\ [Next]_vars => BoardInv'
<1> SUFFICES ASSUME BoardInv, [Next]_vars PROVE BoardInv'
  OBVIOUS
<1>0. RowsInv'
  BY RowsStep DEF BoardInv
<1>1. CASE UNCHANGED vars
  <2>1. UNCHANGED <<status, deleted, req, page, board, load, dialog, unsettled>>
    BY <1>1 DEF vars, rowVars, pageVars
  <2> QED BY <1>0, <2>1 DEF BoardInv, KnownFits, PurposesFit, RefreshFits, SettledFits, SettledFor,
                            Followed, InFlight, ServerFits, CardFits, OnServer, Live, At
<1>2. ASSUME NEW w \in Workers, NEW t \in Tasks, NEW to \in Targets,
             HandleDragEnd(w, t, to) \/ HandleStatusChange(w, t, to)
      PROVE  BoardInv'
  BY <1>0, <1>2, DragFits, MenuFits
<1>3. ASSUME NEW w \in Workers, NEW t \in Tasks, HandleDelete(w, t) \/ OtherMember(w, t) \/ LoadArchive(w, t)
      PROVE  BoardInv'
  BY <1>0, <1>3, HandleDeleteFits, OtherMemberFits, LoadArchiveFits
<1>4. CASE OpenCreate \/ CloseDialog \/ \E t \in Tasks : OpenEdit(t)
  BY <1>0, <1>4, DialogFits
<1>5. ASSUME NEW w \in Workers, SubmitCreate(w)
      PROVE  BoardInv'
  BY <1>0, <1>5, SubmitCreateFits
<1>6. ASSUME NEW w \in Workers, NEW to \in Targets, SubmitEdit(w, to)
      PROVE  BoardInv'
  BY <1>0, <1>6, SubmitEditFits
<1>7. CASE Refresh \/ TryAgain \/ LoadRead \/ LoadBack \/ LoadFails
  BY <1>0, <1>7, LoadFits
<1>8. ASSUME NEW w \in Workers, Serve(w) \/ ServerFails(w) \/ LoseConnection(w) \/ LoseSweep(w)
      PROVE  BoardInv'
  BY <1>0, <1>8, CreateLookupFits, CreateFlushFits, CreateCommitFits, UpdateLoadFits, UpdateCommitFits,
     DeleteLoadFits, DeleteCommitFits, DeliverFits, DeliverSweepFits, ServerFailsFits,
     LoseConnectionFits, LoseSweepFits DEF Serve
<1> QED BY <1>1, <1>2, <1>3, <1>4, <1>5, <1>6, <1>7, <1>8 DEF Next

\* Rows, requests, the refresh in flight and the board keep fitting together,
\* whatever is sent, answered, lost, refused or refreshed, and by whom.
THEOREM BoardIsSafe == Spec => []BoardInv
<1> QED BY BoardInit, BoardStep, PTL DEF Spec

\* Once the requests of a task are answered its card is in the column of its
\* row: a refused move of kanban-page.tsx is taken back, one that was made is
\* kept, a deleted card is gone, and a refresh that met no request restores
\* every card.
THEOREM CardsAgreeWithRows == Spec => []SettledBoardAgrees
<1>1. BoardInv => SettledBoardAgrees
  BY DEF BoardInv, SettledFits, SettledFor, SettledBoardAgrees
<1> QED BY <1>1, BoardIsSafe, PTL

=============================================================================
