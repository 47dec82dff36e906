-------------------------------- MODULE Team --------------------------------
(***************************************************************************)
(* The team of an organisation (auth_service.py): invitations, the links   *)
(* they send, the page that opens a link (accept-invite-page.tsx), and     *)
(* removal.  A person has one row in users for all organisations, with one *)
(* invite_token; the organisation a link is for is not stored with it but  *)
(* taken to be that of the newest membership.  A request loads what it     *)
(* needs and commits later; an invitation locks the row of its             *)
(* organisation in between, the others lock nothing.  The plan, and with   *)
(* it the number of seats, changes at any time.                            *)
(***************************************************************************)
EXTENDS Naturals, Sequences, FiniteSets

CONSTANTS
    Users,      \* people who are invited
    Orgs,       \* organisations; the founder of each sends its requests
    NoUser, NoOrg,
    Workers,    \* requests in flight
    Plans,      \* the max_seats that plans and flags give
    MaxLinks    \* bound: tokens made

ASSUME TeamAssumption ==
    /\ NoUser \notin Users /\ NoOrg \notin Orgs
    /\ Plans \subseteq Nat
    /\ MaxLinks \in Nat

VARIABLES
    maxSeats,   \* get_effective_plan: the seats of an organisation now
    account,    \* users: no row yet, or User.is_active
    invite,     \* User.invite_token, 0 for none
    rows,       \* memberships of a user, named by the link they were made with
    links,      \* every token made: for whom, by whom, and where it led
    page,       \* accept-invite-page.tsx in the browser of a user
    req,        \* per request: what it has loaded
    disturbed   \* history: users on whom requests met that the code leaves unordered

vars == <<maxSeats, account, invite, rows, links, page, req, disturbed>>

Ops == {"invite", "resend", "accept", "remove"}
Closed == [link |-> 0, row |-> 0, asks |-> FALSE]
Idle == [op |-> "idle", user |-> NoUser, org |-> NoOrg, found |-> "none", seats |-> 0,
         drops |-> FALSE, row |-> 0, page |-> Closed]

Init ==
    /\ maxSeats \in [Orgs -> Plans]
    /\ account = [u \in Users |-> "none"]
    /\ invite = [u \in Users |-> 0]
    /\ rows = [u \in Users |-> {}]
    /\ links = <<>>
    /\ page = [u \in Users |-> Closed]
    /\ req = [w \in Workers |-> Idle]
    /\ disturbed = {}

(***************************************************************************)
(* Memberships.  joined_at grows in the order of the links: both are       *)
(* written by the commit of an invitation.  The founder has a seat too.    *)
(***************************************************************************)
RowsIn(u, o) == {i \in rows[u] : links[i].org = o}
Members(o) == {i \in UNION {rows[u] : u \in Users} : links[i].org = o}
Seats(o) == 1 + Cardinality(Members(o))
Newest(u) == IF rows[u] = {} THEN {0} ELSE {i \in rows[u] : \A j \in rows[u] : j <= i}

\* History: removals against anything, and an acceptance against an invitation.
Disturbs(a, b) == "remove" \in {a, b} \/ {a, b} = {"accept", "invite"}
Start(w, r) ==
    /\ req[w] = Idle
    /\ req' = [req EXCEPT ![w] = r]
    /\ disturbed' = IF \E v \in Workers : req[v].user = r.user /\ Disturbs(req[v].op, r.op)
                    THEN disturbed \union {r.user} ELSE disturbed
Finish(w) == req' = [req EXCEPT ![w] = Idle]
NewLink(u, o, how) == links' = Append(links, [user |-> u, org |-> o, how |-> how, led |-> NoOrg])

\* get_db rolls back: the connection breaks, or the handler raises.
Abort(w) ==
    /\ req[w] # Idle
    /\ Finish(w)
    /\ UNCHANGED <<maxSeats, account, invite, rows, links, page, disturbed>>

\* A plan is bought or ends, a flag is set, or a trial runs out, which waits for
\* no lock.
PlanChanges(o, n) ==
    /\ n # maxSeats[o]
    /\ maxSeats' = [maxSeats EXCEPT ![o] = n]
    /\ UNCHANGED <<account, invite, rows, links, page, req, disturbed>>

(***************************************************************************)
(* invite: check_seat_limit holds the organisation's row until the commit. *)
(***************************************************************************)
OrgLocked(o) == \E v \in Workers : req[v].op = "invite" /\ req[v].org = o
Inviting(u, o) ==
    [Idle EXCEPT !.op = "invite", !.user = u, !.org = o, !.found = account[u], !.seats = maxSeats[o]]

\* Mutant: _get_org without for_update.
LoadInviteUnlocked(w, u, o) ==
    /\ Seats(o) < maxSeats[o]
    /\ RowsIn(u, o) = {}
    /\ Start(w, Inviting(u, o))
    /\ UNCHANGED <<maxSeats, account, invite, rows, links, page>>

LoadInvite(w, u, o) ==
    /\ ~OrgLocked(o)
    /\ Seats(o) < maxSeats[o]     \* else 402
    /\ RowsIn(u, o) = {}          \* else 409
    /\ Start(w, Inviting(u, o))
    /\ UNCHANGED <<maxSeats, account, invite, rows, links, page>>

\* Mutant: a user who was invited already keeps the token.
CommitInviteKeepsToken(w) ==
    LET u == req[w].user IN
    /\ req[w].op = "invite" /\ Len(links) < MaxLinks
    /\ IF req[w].found = "none" /\ account[u] # "none"
       THEN UNCHANGED <<account, invite, rows, links>>
       ELSE /\ account' = [account EXCEPT ![u] = IF @ = "none" THEN "inactive" ELSE @]
            /\ invite' = [invite EXCEPT ![u] = IF @ = 0 THEN Len(links) + 1 ELSE @]
            /\ rows' = [rows EXCEPT ![u] = @ \union {Len(links) + 1}]
            /\ NewLink(u, req[w].org, "invite")
    /\ Finish(w)
    /\ UNCHANGED <<maxSeats, page, disturbed>>

\* Of two that insert the same e-mail one meets the unique index and answers 500.
CommitInvite(w) ==
    LET u == req[w].user IN
    /\ req[w].op = "invite" /\ Len(links) < MaxLinks
    /\ IF req[w].found = "none" /\ account[u] # "none"
       THEN UNCHANGED <<account, invite, rows, links>>
       ELSE /\ account' = [account EXCEPT ![u] = IF @ = "none" THEN "inactive" ELSE @]
            /\ invite' = [invite EXCEPT ![u] = Len(links) + 1]
            /\ rows' = [rows EXCEPT ![u] = @ \union {Len(links) + 1}]
            /\ NewLink(u, req[w].org, "invite")
    /\ Finish(w)
    /\ UNCHANGED <<maxSeats, page, disturbed>>

(***************************************************************************)
(* resend_invite: a new token for a member who is not active yet.          *)
(***************************************************************************)
LoadResend(w, u, o) ==
    /\ RowsIn(u, o) # {} /\ account[u] = "inactive"      \* else 404
    /\ Start(w, [Idle EXCEPT !.op = "resend", !.user = u, !.org = o])
    /\ UNCHANGED <<maxSeats, account, invite, rows, links, page>>

CommitResend(w) ==
    /\ req[w].op = "resend" /\ Len(links) < MaxLinks
    /\ invite' = [invite EXCEPT ![req[w].user] = Len(links) + 1]
    /\ NewLink(req[w].user, req[w].org, "resend")
    /\ Finish(w)
    /\ UNCHANGED <<maxSeats, account, rows, page, disturbed>>

(***************************************************************************)
(* The page asks invite-check once; a token that is not the user's any     *)
(* more shows an error and no form.  It asks for a password only where     *)
(* invite-check said so.  A token that expired is refused and changes      *)
(* nothing, as one that nobody uses.  A reload or a second tab may submit  *)
(* while the first request is on its way.                                  *)
(***************************************************************************)
OpenPage(u) ==
    /\ invite[u] # 0
    /\ \E row \in Newest(u) :
        page' = [page EXCEPT ![u] = [link |-> invite[u], row |-> row, asks |-> account[u] = "inactive"]]
    /\ UNCHANGED <<maxSeats, account, invite, rows, links, req, disturbed>>

(***************************************************************************)
(* accept_invite: the user is loaded by the token; the flush writes what   *)
(* differs from that, then the newest membership is looked up; without one *)
(* it answers 400 and everything is rolled back.                           *)
(***************************************************************************)
LoadAccept(w, u) ==
    /\ page[u].link # 0 /\ invite[u] = page[u].link      \* else 404
    /\ account[u] = "active" \/ page[u].asks             \* else 422
    /\ Start(w, [Idle EXCEPT !.op = "accept", !.user = u, !.found = account[u], !.page = page[u]])
    /\ UNCHANGED <<maxSeats, account, invite, rows, links, page>>

Activated(w) == [account EXCEPT ![req[w].user] = IF req[w].found = "inactive" THEN "active" ELSE @]

\* What the flush and the commit write, for the membership that was found.
Join(w, row) ==
    LET u == req[w].user IN
    /\ account' = Activated(w)
    /\ invite' = [invite EXCEPT ![u] = 0]
    /\ links' = [links EXCEPT ![req[w].page.link].led = links[row].org]
    /\ page' = [page EXCEPT ![u] = Closed]

\* Mutant: the commit comes before the membership is looked up.
CommitAcceptEarly(w) ==
    /\ req[w].op = "accept"
    /\ \E row \in Newest(req[w].user) :
        IF row = 0
        THEN /\ account' = Activated(w)
             /\ invite' = [invite EXCEPT ![req[w].user] = 0]
             /\ UNCHANGED <<links, page>>
        ELSE Join(w, row)
    /\ Finish(w)
    /\ UNCHANGED <<maxSeats, rows, disturbed>>

\* Mutant: any membership of the user is taken.
CommitAcceptAny(w) ==
    /\ req[w].op = "accept"
    /\ \E row \in Newest(req[w].user) \union rows[req[w].user] :
        IF row = 0 THEN UNCHANGED <<account, invite, links, page>> ELSE Join(w, row)
    /\ Finish(w)
    /\ UNCHANGED <<maxSeats, rows, disturbed>>

CommitAccept(w) ==
    /\ req[w].op = "accept"
    /\ \E row \in Newest(req[w].user) :
        IF row = 0 THEN UNCHANGED <<account, invite, links, page>> ELSE Join(w, row)
    /\ Finish(w)
    /\ UNCHANGED <<maxSeats, rows, disturbed>>

(***************************************************************************)
(* remove_member: the account is deactivated if no other membership was    *)
(* seen; it is written only if it was loaded active.  The token stays.     *)
(***************************************************************************)
\* Mutant: the other organisations are not looked at.
LoadRemoveAlwaysDrops(w, u, o) ==
    \E i \in RowsIn(u, o) :
        /\ Start(w, [Idle EXCEPT !.op = "remove", !.user = u, !.org = o, !.row = i,
                                 !.drops = account[u] = "active"])
        /\ UNCHANGED <<maxSeats, account, invite, rows, links, page>>

LoadRemove(w, u, o) ==
    \E i \in RowsIn(u, o) :                              \* else 404
        /\ Start(w, [Idle EXCEPT !.op = "remove", !.user = u, !.org = o, !.row = i,
                                 !.drops = rows[u] = RowsIn(u, o) /\ account[u] = "active"])
        /\ UNCHANGED <<maxSeats, account, invite, rows, links, page>>

CommitRemove(w) ==
    LET u == req[w].user IN
    /\ req[w].op = "remove"
    /\ account' = [account EXCEPT ![u] = IF req[w].drops THEN "inactive" ELSE @]
    /\ rows' = [rows EXCEPT ![u] = @ \ {req[w].row}]
    /\ Finish(w)
    /\ UNCHANGED <<maxSeats, invite, links, page, disturbed>>

Next ==
    \/ \E w \in Workers, u \in Users, o \in Orgs :
        LoadInvite(w, u, o) \/ LoadResend(w, u, o) \/ LoadRemove(w, u, o)
    \/ \E w \in Workers, u \in Users : LoadAccept(w, u)
    \/ \E w \in Workers : CommitInvite(w) \/ CommitResend(w) \/ CommitAccept(w) \/ CommitRemove(w)
    \/ \E w \in Workers : Abort(w)
    \/ \E u \in Users : OpenPage(u)
    \/ \E o \in Orgs, n \in Plans : PlanChanges(o, n)

Spec == Init /\ [][Next]_vars

(***************************************************************************)
(* Properties.                                                             *)
(***************************************************************************)
LinkType == [user : Users, org : Orgs, how : {"invite", "resend"}, led : Orgs \union {NoOrg}]
PageType == [link : 0 .. MaxLinks, row : 0 .. MaxLinks, asks : BOOLEAN]
Requests == [op : Ops \union {"idle"}, user : Users \union {NoUser}, org : Orgs \union {NoOrg},
             found : {"none", "inactive", "active"}, seats : Nat, drops : BOOLEAN,
             row : 0 .. MaxLinks, page : PageType]

TypeOK ==
    /\ maxSeats \in [Orgs -> Plans]
    /\ account \in [Users -> {"none", "inactive", "active"}]
    /\ invite \in [Users -> 0 .. Len(links)]
    /\ rows \in [Users -> SUBSET (1 .. Len(links))]
    /\ Len(links) <= MaxLinks
    /\ links \in Seq(LinkType)
    /\ page \in [Users -> PageType]
    /\ req \in [Workers -> Requests]
    /\ disturbed \subseteq Users

\* Memberships come from invitations of that user; the token of a user is the
\* last one made for him, so a new one puts every older link out of use.
LinksFit ==
    \A u \in Users :
        /\ account[u] = "none" => invite[u] = 0 /\ rows[u] = {}
        /\ \A i \in rows[u] : links[i].user = u /\ links[i].how = "invite"
        /\ invite[u] # 0 => /\ links[invite[u]].user = u
                           /\ \A i \in invite[u] + 1 .. Len(links) : links[i].user # u

\* A page whose token is still good was opened on the newest membership.
PagesFit ==
    \A u \in Users :
        /\ page[u].link <= Len(links)
        /\ page[u].link # 0 => links[page[u].link].user = u
        /\ page[u].link # 0 /\ page[u].link = invite[u] => \A i \in rows[u] : i <= page[u].row

\* What every request knows of what it is about.
RequestsKnow ==
    \A w \in Workers :
        LET r == req[w] IN
        /\ r.op # "idle" => r.user \in Users
        /\ r.op \in {"invite", "resend", "remove"} => r.org \in Orgs
        /\ r.op \in {"resend", "accept", "remove"} => account[r.user] # "none"
        /\ r.op # "accept" => r.page = Closed
        /\ r.op = "accept" => r.page.link \in 1 .. Len(links) /\ links[r.page.link].user = r.user

\* Only one invitation of an organisation is past the lock, and it still has
\* its seat.
SeatsKept ==
    /\ \A v, w \in Workers :
        req[v].op = "invite" /\ req[w].op = "invite" /\ req[v].org = req[w].org => v = w
    /\ \A w \in Workers, u \in Users, o \in Orgs :
        req[w].op = "invite" /\ req[w].user = u /\ req[w].org = o
            => RowsIn(u, o) = {} /\ Seats(o) < req[w].seats

\* What a removal and an acceptance know of a user on whom no requests met that
\* the code leaves unordered.
AloneKnow ==
    \A w \in Workers :
        LET r == req[w]
            u == r.user
        IN  r.op \in {"accept", "remove"} /\ u \notin disturbed =>
            /\ \A v \in Workers \ {w} : req[v].user = u => ~Disturbs(req[v].op, r.op)
            /\ r.op = "remove" =>
                (r.drops <=> rows[u] \ {r.row} = {} /\ account[u] = "active")
            /\ r.op = "accept" =>
                /\ r.found # "none" /\ (r.found = "active" => account[u] = "active")
                /\ \A i \in rows[u] : i <= r.page.link /\ i <= r.page.row

\* Nobody is a member of an organisation twice.  No constraint of the table says
\* so; every lookup of a membership (scalar_one_or_none) relies on it.
MemberOnce == \A u \in Users, o \in Orgs : \A i, j \in RowsIn(u, o) : i = j

\* The inductive part: types, single memberships, and what links, pages and
\* requests still agree on.
TeamInv ==
    TypeOK /\ MemberOnce /\ LinksFit /\ PagesFit /\ RequestsKnow /\ SeatsKept /\ AloneKnow

\* Nobody is added to more members than an organisation had seats when its row
\* was locked, whoever is invited at once and whoever is removed, and whatever
\* becomes of its plan: the count and the insert are under one lock.  (Who is a
\* member when the plan shrinks stays one.)
SeatsAreLimited ==
    [][\A o \in Orgs :
        Seats(o)' > Seats(o) =>
            \E w \in Workers : /\ req[w].op = "invite" /\ req[w].org = o
                              /\ Seats(o)' <= req[w].seats]_vars

\* An active account belongs to some organisation: an invitation whose
\* membership was withdrawn activates nothing, and the last removal deactivates.
ActiveBelongs == \A u \in Users \ disturbed : account[u] = "active" => rows[u] # {}

\* Who is a member can get in: with the password of an active account, or with
\* a link that is still good, whatever was sent, accepted and removed before.
MemberCanEnter ==
    \A u \in Users \ disturbed : rows[u] # {} => account[u] = "active" \/ invite[u] # 0

\* Of the two ways in, an account and an invitation, every member has one and
\* nobody else has the first (accept_invite, remove_member, resend_invite).
EntryFitsMembership == ActiveBelongs /\ MemberCanEnter

\* The link of an invitation leads into the organisation that invited, as long
\* as that membership was not taken back.
InviteLeadsHome ==
    [][\A i \in 1 .. Len(links) :
        LET u == links[i].user IN
        links'[i].led # links[i].led /\ links[i].how = "invite" /\ i \in rows[u] /\ u \notin disturbed
            => links'[i].led = links[i].org]_vars

\* The organisation the page showed when it was opened is the one its button
\* leads into, however long the page was open and whoever invited since.
ShownIsJoined ==
    [][\A w \in Workers :
        LET u == req[w].user
            p == req[w].page
        IN  p.link # 0 /\ req'[w] = Idle /\ page'[u] = Closed /\ page[u] # Closed
                /\ p.row \in rows[u] /\ u \notin disturbed
                => links'[p.link].led = links[p.row].org]_vars
=============================================================================
