----------------------------- MODULE TeamProofs -----------------------------
(***************************************************************************)
(* What no order of invitations, links and removals breaks, for any number *)
(* of people, organisations, seats and requests in flight.                 *)
(***************************************************************************)
EXTENDS Team, FiniteSetTheorems, TLAPS

\* The invariant: the properties hold together with what requests know.
Inv == TeamInv /\ ActiveBelongs /\ MemberCanEnter

\* Links are added and learn where they led; nothing else of them changes.
LinksKept ==
    /\ Len(links) <= Len(links)'
    /\ \A i \in 1 .. Len(links) :
        links'[i].user = links[i].user /\ links'[i].org = links[i].org /\ links'[i].how = links[i].how

(***************************************************************************)
(* Members and seats                                                       *)
(***************************************************************************)

\* The members of an organisation can be counted.
LEMMA MembersFinite ==
    ASSUME TypeOK, NEW o
    PROVE  /\ Members(o) \subseteq 1 .. Len(links)
           /\ IsFiniteSet(Members(o))
           /\ Cardinality(Members(o)) \in Nat
<1>1. Members(o) \subseteq 1 .. Len(links)
  BY DEF Members, TypeOK
<1>2. Len(links) \in Nat
  BY DEF TypeOK
<1>3. IsFiniteSet(1 .. Len(links))
  BY <1>2, FS_Interval
<1> QED
  BY <1>1, <1>3, FS_Subset, FS_CardinalityType

\* When memberships go, no organisation has more of them.
LEMMA SeatsShrink ==
    ASSUME TypeOK, TypeOK', LinksKept, \A u \in Users : rows'[u] \subseteq rows[u]
    PROVE  /\ \A o : Seats(o) \in Nat /\ Seats(o)' \in Nat /\ Seats(o)' <= Seats(o)
           /\ \A u \in Users : \A o : RowsIn(u, o)' \subseteq RowsIn(u, o)
<1>1. \A o : Members(o)' \subseteq Members(o)
  BY DEF Members, LinksKept, TypeOK
<1>2. \A o : Cardinality(Members(o)') <= Cardinality(Members(o))
  BY <1>1, MembersFinite, FS_Subset
<1>3. TypeOK' => \A o : Cardinality(Members(o)') \in Nat
  <2>1. SUFFICES ASSUME NEW o PROVE Cardinality(Members(o)') \in Nat
    OBVIOUS
  <2>2. IsFiniteSet(Members(o)')
    BY <1>1, MembersFinite, FS_Subset
  <2> QED
    BY <2>2, FS_CardinalityType
<1>4. \A o : Seats(o) \in Nat /\ Seats(o)' \in Nat /\ Seats(o)' <= Seats(o)
  BY <1>2, <1>3, MembersFinite DEF Seats
<1>5. \A u \in Users : \A o : RowsIn(u, o)' \subseteq RowsIn(u, o)
  BY DEF RowsIn, LinksKept, TypeOK
<1> QED
  BY <1>4, <1>5

\* An invitation takes one seat of its own organisation and none of another.
LEMMA SeatsGrow ==
    ASSUME TypeOK, NEW u \in Users, NEW o \in Orgs,
           rows' = [rows EXCEPT ![u] = @ \union {Len(links) + 1}],
           NewLink(u, o, "invite")
    PROVE  /\ Seats(o) \in Nat /\ Seats(o)' \in Nat /\ Seats(o)' <= Seats(o) + 1
           /\ \A p : p # o => Seats(p)' = Seats(p)
           /\ RowsIn(u, o)' = RowsIn(u, o) \union {Len(links) + 1}
           /\ \A v \in Users : \A p : v # u \/ p # o => RowsIn(v, p)' = RowsIn(v, p)
<1> DEFINE n == Len(links) + 1
<1>1. /\ n \in Nat /\ n \notin 1 .. Len(links)
      /\ links'[n].org = o
      /\ \A i \in 1 .. Len(links) : links'[i] = links[i]
  BY DEF TypeOK, NewLink
<1>2. \A v \in Users : rows[v] \subseteq 1 .. Len(links)
  BY DEF TypeOK
<1>3. rows'[u] = rows[u] \union {n} /\ \A v \in Users : v # u => rows'[v] = rows[v]
  BY DEF TypeOK
<1> HIDE DEF n
<1>4. Members(o)' = Members(o) \union {n}
  BY <1>1, <1>2, <1>3 DEF Members
<1>5. \A p : p # o => Members(p)' = Members(p)
  BY <1>1, <1>2, <1>3 DEF Members
<1>6. Cardinality(Members(o) \union {n}) <= Cardinality(Members(o)) + 1
      /\ Cardinality(Members(o)) \in Nat /\ Cardinality(Members(o) \union {n}) \in Nat
  <2>1. IsFiniteSet(Members(o)) /\ Cardinality(Members(o)) \in Nat
    BY MembersFinite
  <2>2. Cardinality(Members(o) \union {n}) =
            IF n \in Members(o) THEN Cardinality(Members(o)) ELSE Cardinality(Members(o)) + 1
    BY <2>1, FS_AddElement
  <2> QED
    BY <2>1, <2>2
<1>7. Seats(o) \in Nat /\ Seats(o)' \in Nat /\ Seats(o)' <= Seats(o) + 1
  BY <1>4, <1>6 DEF Seats
<1>8. \A p : p # o => Seats(p)' = Seats(p)
  BY <1>5 DEF Seats
<1>9. RowsIn(u, o)' = RowsIn(u, o) \union {n}
  BY <1>1, <1>2, <1>3 DEF RowsIn
<1>10. \A v \in Users : \A p : v # u \/ p # o => RowsIn(v, p)' = RowsIn(v, p)
  BY <1>1, <1>2, <1>3 DEF RowsIn
<1> QED
  BY <1>7, <1>8, <1>9, <1>10 DEF n

(***************************************************************************)
(* Requests that begin                                                     *)
(***************************************************************************)

\* It does not matter which of two requests came first.
LEMMA DisturbsEither == \A a, b : Disturbs(a, b) <=> Disturbs(b, a)
BY DEF Disturbs

\* The state in the beginning.
LEMMA InitInv ==
    ASSUME TeamAssumption, Init
    PROVE  Inv
<1>1. links = <<>> /\ Len(links) = 0 /\ 1 .. Len(links) = {}
  BY DEF Init
<1>2. Idle \in Requests
  BY DEF Idle, Requests, Closed, PageType, TeamAssumption
<1>3. TypeOK
  BY <1>1, <1>2 DEF Init, TypeOK, TeamAssumption, Closed, PageType, LinkType
<1>4. LinksFit /\ PagesFit
  BY <1>1 DEF Init, LinksFit, PagesFit, Closed
<1>5. RequestsKnow /\ SeatsKept /\ AloneKnow
  BY DEF Init, RequestsKnow, SeatsKept, AloneKnow, Idle
<1>8. MemberOnce /\ ActiveBelongs /\ MemberCanEnter
  BY DEF MemberOnce, RowsIn, ActiveBelongs, MemberCanEnter, Init
<1> QED
  BY <1>3, <1>4, <1>5, <1>8 DEF Inv, TeamInv

\* What a request must have found for its Start to keep the invariant.
MayStart(r) ==
    /\ r \in Requests /\ r.op \in Ops /\ r.user \in Users
    /\ r.op # "accept" => r.org \in Orgs /\ r.page = Closed
    /\ r.op # "invite" => account[r.user] # "none"
    /\ r.op = "invite" => ~OrgLocked(r.org) /\ RowsIn(r.user, r.org) = {} /\ Seats(r.org) < r.seats
    /\ r.op = "remove" => (r.drops <=> rows[r.user] \ {r.row} = {} /\ account[r.user] = "active")
    /\ r.op = "accept" =>
        /\ r.page.link \in 1 .. Len(links) /\ links[r.page.link].user = r.user
        /\ r.found # "none" /\ (r.found = "active" => account[r.user] = "active")
        /\ \A i \in rows[r.user] : i <= r.page.link /\ i <= r.page.row

LEMMA StartSafe ==
    ASSUME Inv, NEW w \in Workers, NEW r, MayStart(r), Start(w, r),
           UNCHANGED <<maxSeats, account, invite, rows, links, page>>
    PROVE  Inv'
<1> DEFINE met == \E v \in Workers : req[v].user = r.user /\ Disturbs(req[v].op, r.op)
<1>1. /\ TypeOK /\ LinksFit /\ PagesFit /\ RequestsKnow /\ SeatsKept /\ AloneKnow
      /\ MemberOnce /\ ActiveBelongs /\ MemberCanEnter
  BY DEF Inv, TeamInv
<1>2. /\ req[w] = Idle /\ req' = [req EXCEPT ![w] = r]
      /\ req'[w] = r /\ \A v \in Workers : v # w => req'[v] = req[v]
  BY <1>1 DEF Start, TypeOK
<1>3. /\ disturbed \subseteq disturbed' /\ disturbed' \subseteq disturbed \union {r.user}
      /\ met => r.user \in disturbed'
  BY DEF Start
<1>4. TypeOK'
  BY <1>1, <1>2, <1>3 DEF TypeOK, MayStart
<1>5. LinksFit' /\ PagesFit'
  BY <1>1 DEF LinksFit, PagesFit
<1>6. /\ \A o : Seats(o)' = Seats(o)
      /\ \A u, o : RowsIn(u, o)' = RowsIn(u, o)
  BY DEF Seats, Members, RowsIn
<1>7. MemberOnce'
  BY <1>1, <1>6 DEF MemberOnce
<1>8. ActiveBelongs' /\ MemberCanEnter'
  BY <1>1, <1>3 DEF ActiveBelongs, MemberCanEnter
<1>9. RequestsKnow'
  BY <1>1, <1>2 DEF RequestsKnow, MayStart
<1>11. SeatsKept'
  <2>1. ASSUME NEW v \in Workers, NEW x \in Workers,
               req'[v].op = "invite", req'[x].op = "invite", req'[v].org = req'[x].org
        PROVE  v = x
    <3>1. CASE v # w /\ x # w
      BY <3>1, <2>1, <1>1, <1>2 DEF SeatsKept
    <3>2. CASE v = w \/ x = w
      BY <3>2, <2>1, <1>2 DEF MayStart, OrgLocked
    <3> QED
      BY <3>1, <3>2
  <2>2. ASSUME NEW v \in Workers, NEW u \in Users, NEW o \in Orgs,
               req'[v].op = "invite", req'[v].user = u, req'[v].org = o
        PROVE  RowsIn(u, o) = {} /\ Seats(o) < req'[v].seats
    <3>1. CASE v # w
      BY <3>1, <2>2, <1>1, <1>2 DEF SeatsKept
    <3>2. CASE v = w
      BY <3>2, <2>2, <1>2 DEF MayStart
    <3> QED
      BY <3>1, <3>2
  <2> QED
    BY <2>1, <2>2, <1>6 DEF SeatsKept
<1>10. AloneKnow'
  <2>1. SUFFICES ASSUME NEW v \in Workers, req'[v].op \in {"accept", "remove"},
                        req'[v].user \notin disturbed'
        PROVE  /\ \A x \in Workers \ {v} :
                    req'[x].user = req'[v].user => ~Disturbs(req'[x].op, req'[v].op)
               /\ req'[v].op = "remove" =>
                    (req'[v].drops <=> rows[req'[v].user] \ {req'[v].row} = {}
                                       /\ account[req'[v].user] = "active")
               /\ req'[v].op = "accept" =>
                    /\ req'[v].found # "none"
                    /\ (req'[v].found = "active" => account[req'[v].user] = "active")
                    /\ \A i \in rows[req'[v].user] : i <= req'[v].page.link /\ i <= req'[v].page.row
    BY DEF AloneKnow
  <2>2. CASE v = w
    <3>1. ~met
      BY <2>1, <2>2, <1>2, <1>3
    <3>2. \A x \in Workers \ {v} :
              req'[x].user = req'[v].user => ~Disturbs(req'[x].op, req'[v].op)
      BY <3>1, <2>2, <1>2
    <3> QED
      BY <3>2, <2>2, <1>2 DEF MayStart
  <2>3. CASE v # w
    <3>1. req'[v] = req[v] /\ req[v].user \notin disturbed
      BY <2>1, <2>3, <1>2, <1>3
    <3>2. \A x \in Workers \ {v} : x # w =>
              (req'[x].user = req'[v].user => ~Disturbs(req'[x].op, req'[v].op))
      BY <3>1, <2>1, <2>3, <1>1, <1>2 DEF AloneKnow
    <3>3. req'[w].user = req'[v].user => ~Disturbs(req'[w].op, req'[v].op)
      BY <2>1, <3>1, <1>2, <1>3, DisturbsEither
    <3> QED
      BY <3>1, <3>2, <3>3, <2>1, <1>1 DEF AloneKnow
  <2> QED
    BY <2>2, <2>3
<1> QED
  BY <1>4, <1>5, <1>7, <1>8, <1>9, <1>10, <1>11 DEF Inv, TeamInv

\* A request that holds nothing is well typed.
LEMMA IdleType == Idle \in Requests
BY TeamAssumption DEF Idle, Requests, Closed, PageType, TeamAssumption

LEMMA LoadInviteSafe ==
    ASSUME Inv, NEW w \in Workers, NEW u \in Users, NEW o \in Orgs, LoadInvite(w, u, o)
    PROVE  Inv'
<1>1. TypeOK
  BY DEF Inv, TeamInv
<1>2. Inviting(u, o) \in Requests
  <2>1. maxSeats[o] \in Nat
    BY <1>1, TeamAssumption DEF TypeOK, TeamAssumption
  <2> QED
    BY <1>1, <2>1, IdleType DEF Inviting, Idle, Requests, Ops, TypeOK
<1>3. MayStart(Inviting(u, o))
  BY <1>2 DEF MayStart, Inviting, Idle, Ops, LoadInvite
<1> QED
  BY <1>3, StartSafe DEF LoadInvite

LEMMA LoadResendSafe ==
    ASSUME Inv, NEW w \in Workers, NEW u \in Users, NEW o \in Orgs, LoadResend(w, u, o)
    PROVE  Inv'
<1> DEFINE r == [Idle EXCEPT !.op = "resend", !.user = u, !.org = o]
<1>1. r \in Requests
  BY IdleType DEF Idle, Requests, Ops
<1>2. MayStart(r)
  BY <1>1 DEF MayStart, Idle, Ops, LoadResend
<1> QED
  BY <1>2, StartSafe DEF LoadResend

\* Whoever is in no other organisation is deactivated: one membership in each.
LEMMA LoadRemoveSafe ==
    ASSUME Inv, NEW w \in Workers, NEW u \in Users, NEW o \in Orgs, LoadRemove(w, u, o)
    PROVE  Inv'
<1>1. TypeOK /\ LinksFit /\ MemberOnce
  BY DEF Inv, TeamInv
<1>2. PICK i \in RowsIn(u, o) :
        /\ Start(w, [Idle EXCEPT !.op = "remove", !.user = u, !.org = o, !.row = i,
                                 !.drops = rows[u] = RowsIn(u, o) /\ account[u] = "active"])
        /\ UNCHANGED <<maxSeats, account, invite, rows, links, page>>
  BY DEF LoadRemove
<1> DEFINE r == [Idle EXCEPT !.op = "remove", !.user = u, !.org = o, !.row = i,
                             !.drops = rows[u] = RowsIn(u, o) /\ account[u] = "active"]
<1>3. i \in 0 .. MaxLinks
  BY <1>1, TeamAssumption DEF RowsIn, TypeOK, TeamAssumption
<1>4. r \in Requests
  BY <1>3, IdleType DEF Idle, Requests, Ops
<1>5. RowsIn(u, o) = {i}
  BY <1>1 DEF MemberOnce
<1>6. rows[u] = RowsIn(u, o) <=> rows[u] \ {i} = {}
  BY <1>5 DEF RowsIn
<1>7. account[u] # "none"
  BY <1>1, <1>5 DEF LinksFit, RowsIn
<1>8. MayStart(r)
  BY <1>4, <1>6, <1>7 DEF MayStart, Idle, Ops
<1> QED
  BY <1>2, <1>8, StartSafe

\* A token that is good is the newest link of its user, so no membership is
\* newer than it, and none is newer than the one the page was opened on.
LEMMA LoadAcceptSafe ==
    ASSUME Inv, NEW w \in Workers, NEW u \in Users, LoadAccept(w, u)
    PROVE  Inv'
<1> DEFINE r == [Idle EXCEPT !.op = "accept", !.user = u, !.found = account[u], !.page = page[u]]
<1>1. TypeOK /\ LinksFit /\ PagesFit
  BY DEF Inv, TeamInv
<1>2. r \in Requests
  BY <1>1, IdleType DEF Idle, Requests, Ops, TypeOK
<1>3. page[u].link # 0 /\ page[u].link = invite[u] /\ invite[u] \in 0 .. Len(links)
      /\ Len(links) \in Nat
  BY <1>1 DEF LoadAccept, TypeOK
<1>4. account[u] # "none" /\ page[u].link \in 1 .. Len(links) /\ links[page[u].link].user = u
  BY <1>1, <1>3 DEF LinksFit
<1>5. ASSUME NEW i \in rows[u] PROVE i <= page[u].link /\ i <= page[u].row
  <2>1. i \in 1 .. Len(links) /\ links[i].user = u
    BY <1>1 DEF LinksFit, TypeOK
  <2>2. i \notin invite[u] + 1 .. Len(links)
    BY <1>1, <1>3, <2>1 DEF LinksFit
  <2>3. i <= page[u].link
    BY <1>3, <2>1, <2>2
  <2>4. i <= page[u].row
    BY <1>1, <1>3 DEF PagesFit
  <2> QED
    BY <2>3, <2>4
<1>6. MayStart(r)
  BY <1>2, <1>4, <1>5 DEF MayStart, Idle, Ops
<1> QED
  BY <1>6, StartSafe DEF LoadAccept

\* The page looks at the newest membership, as the handler will.
LEMMA OpenPageSafe ==
    ASSUME Inv, NEW u \in Users, OpenPage(u)
    PROVE  Inv'
<1>1. /\ TypeOK /\ LinksFit /\ PagesFit /\ RequestsKnow /\ SeatsKept /\ AloneKnow
      /\ MemberOnce /\ ActiveBelongs /\ MemberCanEnter
  BY DEF Inv, TeamInv
<1>2. PICK row \in Newest(u) :
        page' = [page EXCEPT ![u] = [link |-> invite[u], row |-> row, asks |-> account[u] = "inactive"]]
  BY DEF OpenPage
<1>3. \A i \in rows[u] : i <= row
  BY DEF Newest
<1>4. row \in 0 .. MaxLinks /\ invite[u] \in 0 .. MaxLinks /\ MaxLinks \in Nat
      /\ invite[u] <= Len(links) /\ invite[u] # 0
  BY <1>1, TeamAssumption DEF Newest, TypeOK, TeamAssumption, OpenPage
<1>5. [link |-> invite[u], row |-> row, asks |-> account[u] = "inactive"] \in PageType
  BY <1>4 DEF PageType
<1>6. TypeOK'
  BY <1>1, <1>2, <1>5 DEF TypeOK, OpenPage
<1>7. PagesFit'
  BY <1>1, <1>2, <1>3, <1>4 DEF PagesFit, LinksFit, TypeOK, OpenPage
<1>8. UNCHANGED <<maxSeats, account, invite, rows, links, req, disturbed>>
  BY DEF OpenPage
<1>9. LinksFit' /\ AloneKnow'
  BY <1>1, <1>8 DEF LinksFit, AloneKnow
<1>10. RequestsKnow' /\ SeatsKept'
  BY <1>1, <1>8 DEF RequestsKnow, SeatsKept, RowsIn, Seats, Members
<1>11. MemberOnce' /\ ActiveBelongs' /\ MemberCanEnter'
  BY <1>1, <1>8 DEF MemberOnce, ActiveBelongs, MemberCanEnter, Seats, Members, RowsIn
<1> QED
  BY <1>6, <1>7, <1>9, <1>10, <1>11 DEF Inv, TeamInv

(***************************************************************************)
(* Requests that commit                                                    *)
(***************************************************************************)

\* What a commit leaves to the other requests.
LEMMA FinishSafe ==
    ASSUME Inv, NEW w \in Workers, req[w].op # "idle", Finish(w), disturbed' = disturbed,
           LinksKept, TypeOK',
           \A u \in Users : account[u] # "none" => account'[u] # "none",
           \A x \in Workers \ {w}, u \in Users, o \in Orgs :
               req[x].op = "invite" /\ req[x].user = u /\ req[x].org = o
                   => RowsIn(u, o)' = {} /\ Seats(o)' < req[x].seats,
           \A x \in Workers \ {w} :
               LET u == req[x].user IN
               req[x].op \in {"accept", "remove"} /\ u \notin disturbed =>
                   /\ rows'[u] \subseteq rows[u]
                   /\ req[x].op = "remove" => rows'[u] = rows[u] /\ account'[u] = account[u]
                   /\ req[x].op = "accept" => (account[u] = "active" => account'[u] = "active")
    PROVE  RequestsKnow' /\ SeatsKept' /\ AloneKnow'
<1>1. TypeOK /\ RequestsKnow /\ SeatsKept /\ AloneKnow
  BY DEF Inv, TeamInv
<1>2. /\ req'[w] = Idle /\ \A x \in Workers : x # w => req'[x] = req[x]
  BY <1>1 DEF Finish, TypeOK
<1>3. Idle.op = "idle" /\ Idle.page = Closed /\ Idle.user = NoUser
  BY DEF Idle
<1>4. RequestsKnow'
  <2>1. SUFFICES ASSUME NEW x \in Workers, x # w
        PROVE  LET q == req[x] IN
               /\ q.op # "idle" => q.user \in Users
               /\ q.op \in {"invite", "resend", "remove"} => q.org \in Orgs
               /\ q.op \in {"resend", "accept", "remove"} => account'[q.user] # "none"
               /\ q.op # "accept" => q.page = Closed
               /\ q.op = "accept" => q.page.link \in 1 .. Len(links)' /\ links'[q.page.link].user = q.user
    BY <1>2, <1>3 DEF RequestsKnow
  <2>2. /\ req[x].op # "idle" => req[x].user \in Users
        /\ req[x].op \in {"invite", "resend", "remove"} => req[x].org \in Orgs
        /\ req[x].op \in {"resend", "accept", "remove"} => account'[req[x].user] # "none"
        /\ req[x].op # "accept" => req[x].page = Closed
    BY <1>1 DEF RequestsKnow
  <2>3. Len(links) \in Nat /\ Len(links)' \in Nat /\ Len(links) <= Len(links)'
    BY <1>1 DEF TypeOK, LinksKept
  <2>4. req[x].op = "accept" =>
            req[x].page.link \in 1 .. Len(links) /\ links[req[x].page.link].user = req[x].user
    BY <1>1 DEF RequestsKnow
  <2>5. req[x].op = "accept" =>
            req[x].page.link \in 1 .. Len(links)' /\ links'[req[x].page.link].user = req[x].user
    BY <2>3, <2>4 DEF LinksKept
  <2> QED
    BY <2>2, <2>5
<1>6. SeatsKept'
  <2>1. \A x, y \in Workers :
            req'[x].op = "invite" /\ req'[y].op = "invite" /\ req'[x].org = req'[y].org => x = y
    BY <1>1, <1>2, <1>3 DEF SeatsKept
  <2>2. ASSUME NEW x \in Workers, NEW u \in Users, NEW o \in Orgs,
               req'[x].op = "invite", req'[x].user = u, req'[x].org = o
        PROVE  RowsIn(u, o)' = {} /\ Seats(o)' < req'[x].seats
    BY <2>2, <1>2, <1>3
  <2> QED
    BY <2>1, <2>2 DEF SeatsKept
<1>5. AloneKnow'
  <2>1. SUFFICES ASSUME NEW x \in Workers, req'[x].op \in {"accept", "remove"},
                        req'[x].user \notin disturbed
        PROVE  /\ \A y \in Workers \ {x} :
                    req'[y].user = req'[x].user => ~Disturbs(req'[y].op, req'[x].op)
               /\ req'[x].op = "remove" =>
                    (req'[x].drops <=> rows'[req'[x].user] \ {req'[x].row} = {}
                                       /\ account'[req'[x].user] = "active")
               /\ req'[x].op = "accept" =>
                    /\ req'[x].found # "none"
                    /\ (req'[x].found = "active" => account'[req'[x].user] = "active")
                    /\ \A i \in rows'[req'[x].user] : i <= req'[x].page.link /\ i <= req'[x].page.row
    BY DEF AloneKnow
  <2>2. x # w /\ req'[x] = req[x] /\ req[x].user \in Users
    BY <2>1, <1>1, <1>2, <1>3 DEF RequestsKnow
  <2>3. \A y \in Workers \ {x} :
            req'[y].user = req'[x].user => ~Disturbs(req'[y].op, req'[x].op)
    BY <2>1, <2>2, <1>1, <1>2, <1>3, TeamAssumption DEF AloneKnow, TeamAssumption
  <2>4. req[x].op = "remove" =>
            (req[x].drops <=> rows'[req[x].user] \ {req[x].row} = {}
                              /\ account'[req[x].user] = "active")
    BY <2>1, <2>2, <1>1 DEF AloneKnow
  <2>5. req[x].op = "accept" =>
            /\ req[x].found # "none"
            /\ (req[x].found = "active" => account'[req[x].user] = "active")
            /\ \A i \in rows'[req[x].user] : i <= req[x].page.link /\ i <= req[x].page.row
    BY <2>1, <2>2, <1>1 DEF AloneKnow
  <2> QED
    BY <2>2, <2>3, <2>4, <2>5
<1> QED
  BY <1>4, <1>5, <1>6

\* Of two requests of one user that are not disturbed, neither is a removal,
\* nor is one an invitation and the other an acceptance.
LEMMA Apart ==
    ASSUME Inv, NEW w \in Workers, NEW x \in Workers \ {w},
           req[w].op \in Ops, req[x].op \in {"accept", "remove"},
           req[x].user \notin disturbed, req[w].user = req[x].user
    PROVE  req[x].op = "accept" /\ req[w].op \in {"accept", "resend"}
<1>1. ~Disturbs(req[w].op, req[x].op)
  BY DEF Inv, TeamInv, AloneKnow
<1> QED
  BY <1>1 DEF Disturbs, Ops

\* A new link, and the old ones.
LEMMA NewLinkKept ==
    ASSUME TypeOK, NEW u \in Users, NEW o \in Orgs, NEW how \in {"invite", "resend"},
           NewLink(u, o, how)
    PROVE  /\ LinksKept /\ links' \in Seq(LinkType)
           /\ Len(links) \in Nat /\ Len(links)' = Len(links) + 1
           /\ links'[Len(links) + 1].user = u /\ links'[Len(links) + 1].how = how
           /\ \A i \in 1 .. Len(links) : links'[i] = links[i]
<1>1. [user |-> u, org |-> o, how |-> how, led |-> NoOrg] \in LinkType
  BY DEF LinkType
<1> QED
  BY <1>1 DEF NewLink, LinksKept, TypeOK

\* Where memberships only go, seats are kept for those who wait.
LEMMA FewerMembers ==
    ASSUME Inv, TypeOK', LinksKept, \A u \in Users : rows'[u] \subseteq rows[u],
           NEW w \in Workers
    PROVE  /\ MemberOnce'
           /\ \A x \in Workers \ {w}, u \in Users, o \in Orgs :
                req[x].op = "invite" /\ req[x].user = u /\ req[x].org = o
                    => RowsIn(u, o)' = {} /\ Seats(o)' < req[x].seats
<1>1. TypeOK /\ SeatsKept /\ MemberOnce
  BY DEF Inv, TeamInv
<1>2. /\ \A o : Seats(o) \in Nat /\ Seats(o)' \in Nat /\ Seats(o)' <= Seats(o)
      /\ \A u \in Users : \A o : RowsIn(u, o)' \subseteq RowsIn(u, o)
  BY <1>1, SeatsShrink
<1>4. MemberOnce'
  BY <1>1, <1>2 DEF MemberOnce
<1>5. ASSUME NEW x \in Workers \ {w}, NEW u \in Users, NEW o \in Orgs,
             req[x].op = "invite", req[x].user = u, req[x].org = o
      PROVE  RowsIn(u, o)' = {} /\ Seats(o)' < req[x].seats
  <2>1. RowsIn(u, o) = {} /\ Seats(o) < req[x].seats /\ req[x].seats \in Nat
    BY <1>1, <1>5 DEF SeatsKept, TypeOK, Requests
  <2> QED
    BY <2>1, <1>2
<1> QED
  BY <1>4, <1>5

\* A new link puts the older ones of its user out of use, and their pages.
LEMMA NewLinkFits ==
    ASSUME Inv, NEW u \in Users, NEW o \in Orgs, NEW how \in {"invite", "resend"},
           NewLink(u, o, how), invite' = [invite EXCEPT ![u] = Len(links) + 1], page' = page,
           account'[u] # "none",
           \A v \in Users : v # u => account'[v] = account[v] /\ rows'[v] = rows[v],
           rows'[u] \subseteq rows[u] \union {Len(links) + 1},
           how = "resend" => rows'[u] \subseteq rows[u]
    PROVE  LinksFit' /\ PagesFit'
<1> DEFINE n == Len(links) + 1
<1>1. TypeOK /\ LinksFit /\ PagesFit
  BY DEF Inv, TeamInv
<1>2. /\ Len(links) \in Nat /\ Len(links)' = n /\ n \in Nat
      /\ links'[n].user = u /\ links'[n].how = how
      /\ \A i \in 1 .. Len(links) : links'[i] = links[i]
  BY <1>1, NewLinkKept
<1>3. \A v \in Users : /\ rows[v] \subseteq 1 .. Len(links) /\ invite[v] \in 0 .. Len(links)
                       /\ page[v].link \in Nat
  BY <1>1 DEF TypeOK, PageType
<1>4. invite'[u] = n /\ \A v \in Users : v # u => invite'[v] = invite[v]
  BY <1>1 DEF TypeOK
<1>5. how = "invite" \/ rows'[u] \subseteq rows[u]
  OBVIOUS
<1>6. rows'[u] \subseteq rows[u] \union {n}
  OBVIOUS
<1> HIDE DEF n
<1>7. LinksFit'
  <2>1. SUFFICES ASSUME NEW v \in Users
        PROVE  /\ account'[v] = "none" => invite'[v] = 0 /\ rows'[v] = {}
               /\ \A i \in rows'[v] : links'[i].user = v /\ links'[i].how = "invite"
               /\ invite'[v] # 0 => /\ links'[invite'[v]].user = v
                                   /\ \A i \in invite'[v] + 1 .. n : links'[i].user # v
    BY <1>2 DEF LinksFit
  <2>2. \A i \in rows[v] : links'[i].user = v /\ links'[i].how = "invite"
    BY <1>1, <1>2, <1>3, <2>1 DEF LinksFit
  <2>3. CASE v = u
    <3>1. \A i \in rows'[u] : links'[i].user = u /\ links'[i].how = "invite"
      BY <2>2, <2>3, <1>2, <1>5, <1>6
    <3> QED
      BY <3>1, <2>3, <1>2, <1>4
  <2>4. CASE v # u
    <3>1. account'[v] = "none" => invite'[v] = 0 /\ rows'[v] = {}
      BY <1>1, <1>4, <2>4 DEF LinksFit
    <3>2. invite'[v] # 0 => links'[invite'[v]].user = v
      BY <1>1, <1>2, <1>3, <1>4, <2>4 DEF LinksFit
    <3>3. ASSUME invite'[v] # 0, NEW i \in invite'[v] + 1 .. n PROVE links'[i].user # v
      <4>1. CASE i = n
        BY <4>1, <1>2, <2>4
      <4>2. CASE i # n
        <5>1. invite[v] \in Nat /\ invite[v] # 0 /\ i \in invite[v] + 1 .. Len(links)
          BY <4>2, <3>3, <1>2, <1>3, <1>4, <2>4 DEF n
        <5> QED
          BY <5>1, <1>1, <1>2 DEF LinksFit
      <4> QED
        BY <4>1, <4>2
    <3>4. \A i \in rows'[v] : links'[i].user = v /\ links'[i].how = "invite"
      BY <2>2, <2>4
    <3> QED
      BY <3>1, <3>2, <3>3, <3>4
  <2> QED
    BY <2>3, <2>4
<1>8. PagesFit'
  <2>1. SUFFICES ASSUME NEW v \in Users
        PROVE  /\ page[v].link <= n
               /\ page[v].link # 0 => links'[page[v].link].user = v
               /\ page[v].link # 0 /\ page[v].link = invite'[v] => \A i \in rows'[v] : i <= page[v].row
    BY <1>2 DEF PagesFit
  <2>2. page[v].link \in Nat /\ page[v].link <= Len(links)
        /\ (page[v].link # 0 => links[page[v].link].user = v)
    BY <1>1, <1>3 DEF PagesFit
  <2>3. page[v].link <= n
    BY <2>2, <1>2 DEF n
  <2>4. page[v].link = invite'[v] => v # u
    BY <2>2, <1>2, <1>4 DEF n
  <2>5. page[v].link = invite'[v] /\ page[v].link # 0 => \A i \in rows'[v] : i <= page[v].row
    BY <2>4, <1>1, <1>4 DEF PagesFit
  <2> QED
    BY <2>2, <2>3, <2>5, <1>2
<1> QED
  BY <1>7, <1>8

LEMMA CommitResendSafe ==
    ASSUME Inv, NEW w \in Workers, CommitResend(w)
    PROVE  Inv'
<1> DEFINE u == req[w].user
           n == Len(links) + 1
<1>1. /\ TypeOK /\ RequestsKnow /\ ActiveBelongs /\ MemberCanEnter
  BY DEF Inv, TeamInv
<1>2. /\ req[w].op = "resend" /\ u \in Users /\ req[w].org \in Orgs /\ account[u] # "none"
      /\ Len(links) < MaxLinks /\ MaxLinks \in Nat
      /\ invite' = [invite EXCEPT ![u] = n] /\ NewLink(u, req[w].org, "resend") /\ Finish(w)
      /\ UNCHANGED <<maxSeats, account, rows, page, disturbed>>
  BY <1>1, TeamAssumption DEF CommitResend, RequestsKnow, TeamAssumption
<1>3. LinksKept /\ links' \in Seq(LinkType) /\ Len(links) \in Nat /\ Len(links)' = n
  BY <1>1, <1>2, NewLinkKept
<1>4. TypeOK'
  BY <1>1, <1>2, <1>3, IdleType DEF TypeOK, Finish
<1>5. LinksFit' /\ PagesFit'
  BY <1>2, NewLinkFits
<1>6. \A v \in Users : invite[v] # 0 => invite'[v] # 0
  BY <1>1, <1>2, <1>3 DEF TypeOK
<1>7. ActiveBelongs' /\ MemberCanEnter'
  BY <1>1, <1>2, <1>6 DEF ActiveBelongs, MemberCanEnter
<1>8. \A v \in Users : rows'[v] \subseteq rows[v]
  BY <1>2
<1>9. MemberOnce' /\ RequestsKnow' /\ SeatsKept' /\ AloneKnow'
  BY <1>2, <1>3, <1>4, <1>8, FewerMembers, FinishSafe
<1> QED
  BY <1>4, <1>5, <1>7, <1>9 DEF Inv, TeamInv

\* Under the lock the seat that was counted is still free, so the membership
\* fits; an invitation of another organisation has its own.
LEMMA CommitInviteSafe ==
    ASSUME Inv, NEW w \in Workers, CommitInvite(w)
    PROVE  Inv'
<1> DEFINE n == Len(links) + 1
<1>1. /\ TypeOK /\ LinksFit /\ PagesFit /\ RequestsKnow /\ SeatsKept /\ AloneKnow
      /\ MemberOnce /\ ActiveBelongs /\ MemberCanEnter
  BY DEF Inv, TeamInv
<1>2. PICK u \in Users, o \in Orgs : u = req[w].user /\ o = req[w].org
  BY <1>1 DEF CommitInvite, RequestsKnow
<1>5. /\ req[w].op = "invite" /\ Len(links) < MaxLinks
      /\ MaxLinks \in Nat /\ Finish(w)
      /\ UNCHANGED <<maxSeats, page, disturbed>>
  BY TeamAssumption DEF CommitInvite, TeamAssumption
<1>3. CASE UNCHANGED <<account, invite, rows, links>>
  <2>1. TypeOK'
    BY <1>1, <1>2, <1>5, <1>3, IdleType DEF TypeOK, Finish
  <2>2. LinksKept
    BY <1>1, <1>3 DEF LinksKept, TypeOK
  <2>3. MemberOnce' /\ RequestsKnow' /\ SeatsKept' /\ AloneKnow'
    BY <1>2, <1>5, <1>3, <2>1, <2>2, FewerMembers, FinishSafe
  <2>4. LinksFit' /\ PagesFit' /\ ActiveBelongs' /\ MemberCanEnter'
    BY <1>1, <1>2, <1>5, <1>3 DEF LinksFit, PagesFit, ActiveBelongs, MemberCanEnter
  <2> QED
    BY <2>1, <2>3, <2>4 DEF Inv, TeamInv
<1>4. CASE /\ account' = [account EXCEPT ![u] = IF @ = "none" THEN "inactive" ELSE @]
           /\ invite' = [invite EXCEPT ![u] = n]
           /\ rows' = [rows EXCEPT ![u] = @ \union {n}]
           /\ NewLink(u, o, "invite")
  <2>1. /\ LinksKept /\ links' \in Seq(LinkType) /\ Len(links) \in Nat /\ Len(links)' = n
    BY <1>1, <1>2, <1>5, <1>4, NewLinkKept
  <2>2. /\ account'[u] # "none" /\ (account[u] # "none" => account'[u] = account[u])
        /\ (account'[u] = "active" => account[u] = "active")
        /\ rows'[u] = rows[u] \union {n} /\ invite'[u] = n
        /\ \A v \in Users : v # u => /\ account'[v] = account[v] /\ rows'[v] = rows[v]
                                    /\ invite'[v] = invite[v]
    BY <1>1, <1>2, <1>5, <1>4 DEF TypeOK
  <2>3. TypeOK'
    <3>1. account' \in [Users -> {"none", "inactive", "active"}]
      BY <1>1, <1>2, <1>5, <1>4 DEF TypeOK
    <3>2. invite' \in [Users -> 0 .. n] /\ rows' \in [Users -> SUBSET (1 .. n)]
      BY <1>1, <1>2, <1>5, <1>4, <2>1 DEF TypeOK
    <3>3. req' \in [Workers -> Requests]
      BY <1>1, <1>2, <1>5, IdleType DEF TypeOK, Finish
    <3> QED
      BY <3>1, <3>2, <3>3, <1>1, <1>2, <1>5, <2>1 DEF TypeOK
  <2>4. LinksFit' /\ PagesFit'
    BY <1>2, <1>5, <1>4, <2>2, NewLinkFits
  <2>5. /\ Seats(o) \in Nat /\ Seats(o)' \in Nat /\ Seats(o)' <= Seats(o) + 1
        /\ \A p : p # o => Seats(p)' = Seats(p)
        /\ RowsIn(u, o)' = RowsIn(u, o) \union {n}
        /\ \A v \in Users : \A p : v # u \/ p # o => RowsIn(v, p)' = RowsIn(v, p)
    BY <1>1, <1>2, <1>5, <1>4, SeatsGrow
  <2>6. RowsIn(u, o) = {}
    BY <1>1, <1>2, <1>5 DEF SeatsKept
  <2>8. MemberOnce'
    BY <2>5, <2>6, <1>1 DEF MemberOnce
  <2>9. ActiveBelongs' /\ MemberCanEnter'
    <3>1. \A v \in Users : v = u \/ (account'[v] = account[v] /\ rows'[v] = rows[v] /\ invite'[v] = invite[v])
      BY <2>2
    <3>2. rows'[u] # {} /\ invite'[u] # 0
      BY <2>1, <2>2
    <3> QED
      BY <3>1, <3>2, <1>1, <1>2, <1>5 DEF ActiveBelongs, MemberCanEnter
  <2>10. ASSUME NEW x \in Workers \ {w}, NEW v \in Users, NEW p \in Orgs,
                req[x].op = "invite", req[x].user = v, req[x].org = p
         PROVE  RowsIn(v, p)' = {} /\ Seats(p)' < req[x].seats
    <3>1. p # o
      BY <2>10, <1>1, <1>2, <1>5 DEF SeatsKept
    <3>2. RowsIn(v, p) = {} /\ Seats(p) < req[x].seats
      BY <2>10, <1>1 DEF SeatsKept
    <3> QED
      BY <3>1, <3>2, <2>5
  <2>11. ASSUME NEW x \in Workers \ {w}, req[x].op \in {"accept", "remove"}, req[x].user \notin disturbed
         PROVE  req[x].user \in Users \ {u}
    <3>1. req[x].user \in Users
      BY <2>11, <1>1 DEF RequestsKnow
    <3>2. req[x].user # u
      BY <2>11, <1>2, <1>5, Apart DEF Ops
    <3> QED
      BY <3>1, <3>2
  <2>12. \A v \in Users : account[v] # "none" => account'[v] # "none"
    BY <2>2
  <2>13. RequestsKnow' /\ SeatsKept' /\ AloneKnow'
    BY <1>2, <1>5, <2>1, <2>2, <2>3, <2>10, <2>11, <2>12, FinishSafe
  <2> QED
    BY <2>3, <2>4, <2>8, <2>9, <2>13 DEF Inv, TeamInv
<1> QED
  BY <1>2, <1>3, <1>4 DEF CommitInvite

\* A removal takes one membership; nobody else is about the same person, unless
\* the code left the two unordered.
LEMMA CommitRemoveSafe ==
    ASSUME Inv, NEW w \in Workers, CommitRemove(w)
    PROVE  Inv'
<1>1. /\ TypeOK /\ LinksFit /\ PagesFit /\ RequestsKnow /\ AloneKnow
      /\ ActiveBelongs /\ MemberCanEnter
  BY DEF Inv, TeamInv
<1>2. PICK u \in Users : u = req[w].user
  BY <1>1 DEF CommitRemove, RequestsKnow
<1>3. /\ req[w].op = "remove" /\ account[u] # "none" /\ Finish(w)
      /\ account' = [account EXCEPT ![u] = IF req[w].drops THEN "inactive" ELSE @]
      /\ rows' = [rows EXCEPT ![u] = @ \ {req[w].row}]
      /\ UNCHANGED <<maxSeats, invite, links, page, disturbed>>
  BY <1>1, <1>2 DEF CommitRemove, RequestsKnow
<1>4. /\ account'[u] = IF req[w].drops THEN "inactive" ELSE account[u]
      /\ rows'[u] = rows[u] \ {req[w].row}
      /\ \A v \in Users : v # u => account'[v] = account[v] /\ rows'[v] = rows[v]
  BY <1>1, <1>3 DEF TypeOK
<1>5. TypeOK'
  <2>1. account' \in [Users -> {"none", "inactive", "active"}]
    BY <1>1, <1>3 DEF TypeOK
  <2>2. rows' \in [Users -> SUBSET (1 .. Len(links))]
    BY <1>1, <1>3 DEF TypeOK
  <2>3. req' \in [Workers -> Requests]
    BY <1>1, <1>3, IdleType DEF TypeOK, Finish
  <2> QED
    BY <2>1, <2>2, <2>3, <1>1, <1>3 DEF TypeOK
<1>6. LinksKept /\ \A v \in Users : rows'[v] \subseteq rows[v]
  BY <1>1, <1>3, <1>4 DEF LinksKept, TypeOK
<1>7. \A v \in Users : account'[v] = "none" <=> account[v] = "none"
  BY <1>3, <1>4
<1>8. LinksFit'
  BY <1>1, <1>3, <1>6, <1>7 DEF LinksFit
<1>9. PagesFit'
  BY <1>1, <1>3, <1>6 DEF PagesFit
<1>10. u \notin disturbed => (req[w].drops <=> rows[u] \ {req[w].row} = {} /\ account[u] = "active")
  BY <1>1, <1>2, <1>3 DEF AloneKnow
<1>11. ActiveBelongs' /\ MemberCanEnter'
  <2>1. ASSUME NEW v \in Users \ disturbed
        PROVE  /\ account'[v] = "active" => rows'[v] # {}
               /\ rows'[v] # {} => account'[v] = "active" \/ invite[v] # 0
    <3>1. CASE v = u
      BY <3>1, <1>4, <1>10, <1>1 DEF ActiveBelongs, MemberCanEnter
    <3>2. CASE v # u
      BY <3>2, <1>4, <1>1 DEF ActiveBelongs, MemberCanEnter
    <3> QED
      BY <3>1, <3>2
  <2> QED
    BY <2>1, <1>3 DEF ActiveBelongs, MemberCanEnter
<1>12. ASSUME NEW x \in Workers \ {w}, req[x].op \in {"accept", "remove"}, req[x].user \notin disturbed
       PROVE  req[x].user \in Users \ {u}
  <2>1. req[x].user \in Users
    BY <1>12, <1>1 DEF RequestsKnow
  <2>2. req[x].user # u
    BY <1>12, <1>2, <1>3, Apart DEF Ops
  <2> QED
    BY <2>1, <2>2
<1>13. MemberOnce' /\ RequestsKnow' /\ SeatsKept' /\ AloneKnow'
  BY <1>3, <1>4, <1>5, <1>6, <1>7, <1>12, FewerMembers, FinishSafe
<1> QED
  BY <1>5, <1>8, <1>9, <1>11, <1>13 DEF Inv, TeamInv

\* An acceptance that finds a membership leads there; the other memberships and
\* the links of others stay what they are.
LEMMA CommitAcceptSafe ==
    ASSUME Inv, NEW w \in Workers, CommitAccept(w)
    PROVE  Inv'
<1>1. /\ TypeOK /\ LinksFit /\ PagesFit /\ RequestsKnow /\ AloneKnow
      /\ ActiveBelongs /\ MemberCanEnter
  BY DEF Inv, TeamInv
<1>2. PICK u \in Users, k \in 1 .. Len(links) : u = req[w].user /\ k = req[w].page.link
  BY <1>1 DEF CommitAccept, RequestsKnow
<1>3. /\ req[w].op = "accept" /\ account[u] # "none" /\ Finish(w)
      /\ UNCHANGED <<maxSeats, rows, disturbed>>
  BY <1>1, <1>2 DEF CommitAccept, RequestsKnow
<1>4. req' \in [Workers -> Requests]
  BY <1>1, <1>3, IdleType DEF TypeOK, Finish
<1>5. PICK row \in Newest(u) :
        IF row = 0 THEN UNCHANGED <<account, invite, links, page>> ELSE Join(w, row)
  BY <1>2 DEF CommitAccept
<1>6. CASE row = 0
  <2>1. TypeOK' /\ LinksKept
    BY <1>1, <1>3, <1>4, <1>5, <1>6 DEF TypeOK, LinksKept
  <2>2. MemberOnce' /\ RequestsKnow' /\ SeatsKept' /\ AloneKnow'
    BY <1>3, <1>5, <1>6, <2>1, FewerMembers, FinishSafe
  <2>3. LinksFit' /\ PagesFit' /\ ActiveBelongs' /\ MemberCanEnter'
    BY <1>1, <1>3, <1>5, <1>6 DEF LinksFit, PagesFit, ActiveBelongs, MemberCanEnter
  <2> QED
    BY <2>1, <2>2, <2>3 DEF Inv, TeamInv
<1>7. CASE row # 0
  <2>1. row \in rows[u] /\ row \in 1 .. Len(links) /\ links[row].org \in Orgs
    <3>1. row \in rows[u]
      BY <1>7 DEF Newest
    <3>2. row \in 1 .. Len(links) /\ links[row] \in LinkType
      BY <3>1, <1>1 DEF TypeOK
    <3> QED
      BY <3>1, <3>2 DEF LinkType
  <2>2. /\ account' = [account EXCEPT ![u] = IF req[w].found = "inactive" THEN "active" ELSE @]
        /\ invite' = [invite EXCEPT ![u] = 0]
        /\ links' = [links EXCEPT ![k].led = links[row].org]
        /\ page' = [page EXCEPT ![u] = Closed]
    BY <1>2, <1>5, <1>7 DEF Join, Activated
  <2>3. /\ links' \in Seq(LinkType) /\ Len(links)' = Len(links) /\ LinksKept
    <3>1. links \in Seq(LinkType) /\ links[k] \in LinkType
      BY <1>1 DEF TypeOK
    <3>2. [links[k] EXCEPT !.led = links[row].org] \in LinkType
      BY <3>1, <2>1 DEF LinkType
    <3>3. links' = [links EXCEPT ![k] = [links[k] EXCEPT !.led = links[row].org]]
      BY <2>2
    <3>4. links' \in Seq(LinkType) /\ Len(links)' = Len(links) /\ Len(links) \in Nat
      BY <3>1, <3>2, <3>3
    <3>5. \A i \in 1 .. Len(links) :
              links'[i] = IF i = k THEN [links[k] EXCEPT !.led = links[row].org] ELSE links[i]
      BY <3>1, <3>3
    <3>6. /\ [links[k] EXCEPT !.led = links[row].org].user = links[k].user
          /\ [links[k] EXCEPT !.led = links[row].org].org = links[k].org
          /\ [links[k] EXCEPT !.led = links[row].org].how = links[k].how
      BY <3>1 DEF LinkType
    <3>7. ASSUME NEW i \in 1 .. Len(links)
          PROVE  /\ links'[i].user = links[i].user /\ links'[i].org = links[i].org
                 /\ links'[i].how = links[i].how
      <4>1. CASE i = k
        <5>1. links'[i] = [links[k] EXCEPT !.led = links[row].org]
          BY <4>1, <3>5
        <5> QED
          BY <5>1, <4>1, <3>6
      <4>2. CASE i # k
        BY <4>2, <3>5
      <4> QED
        BY <4>1, <4>2
    <3> QED
      BY <3>4, <3>7 DEF LinksKept
  <2>4. /\ account'[u] = IF req[w].found = "inactive" THEN "active" ELSE account[u]
        /\ invite'[u] = 0 /\ page'[u] = Closed
        /\ \A v \in Users : v # u => /\ account'[v] = account[v] /\ invite'[v] = invite[v]
                                    /\ page'[v] = page[v]
    BY <1>1, <2>2 DEF TypeOK
  <2>5. TypeOK'
    <3>1. account' \in [Users -> {"none", "inactive", "active"}]
      BY <1>1, <2>2 DEF TypeOK
    <3>2. invite' \in [Users -> 0 .. Len(links)]
      BY <1>1, <2>2 DEF TypeOK
    <3>3. Closed \in PageType
      BY TeamAssumption DEF Closed, PageType, TeamAssumption
    <3>4. page' \in [Users -> PageType]
      BY <1>1, <2>2, <3>3 DEF TypeOK
    <3> QED
      BY <3>1, <3>2, <3>4, <1>1, <1>3, <1>4, <2>3 DEF TypeOK
  <2>6. \A v \in Users : account[v] # "none" => account'[v] # "none"
    BY <2>4
  <2>7. LinksFit'
    <3>1. SUFFICES ASSUME NEW v \in Users
          PROVE  /\ account'[v] = "none" => invite'[v] = 0 /\ rows[v] = {}
                 /\ \A i \in rows[v] : links'[i].user = v /\ links'[i].how = "invite"
                 /\ invite'[v] # 0 => /\ links'[invite'[v]].user = v
                                     /\ \A i \in invite'[v] + 1 .. Len(links) : links'[i].user # v
      BY <1>3, <2>3 DEF LinksFit
    <3>2. rows[v] \subseteq 1 .. Len(links) /\ invite[v] \in 0 .. Len(links) /\ Len(links) \in Nat
      BY <1>1 DEF TypeOK
    <3>3. account'[v] = "none" => invite'[v] = 0 /\ rows[v] = {}
      BY <1>1, <2>4, <2>6 DEF LinksFit
    <3>4. \A i \in rows[v] : links'[i].user = v /\ links'[i].how = "invite"
      BY <1>1, <2>3, <3>2 DEF LinksFit, LinksKept
    <3>5. ASSUME invite'[v] # 0
          PROVE  /\ links'[invite'[v]].user = v
                 /\ \A i \in invite'[v] + 1 .. Len(links) : links'[i].user # v
      <4>1. v # u /\ invite'[v] = invite[v] /\ invite[v] \in 1 .. Len(links)
        BY <2>4, <3>2, <3>5
      <4>2. /\ links[invite[v]].user = v
            /\ \A i \in invite[v] + 1 .. Len(links) : links[i].user # v
        BY <1>1, <4>1 DEF LinksFit
      <4>3. \A i \in invite[v] + 1 .. Len(links) : i \in 1 .. Len(links)
        BY <4>1
      <4> QED
        BY <4>1, <4>2, <4>3, <2>3 DEF LinksKept
    <3> QED
      BY <3>3, <3>4, <3>5
  <2>8. PagesFit'
    <3>1. SUFFICES ASSUME NEW v \in Users, v # u
          PROVE  /\ page[v].link <= Len(links)
                 /\ page[v].link # 0 => links'[page[v].link].user = v
                 /\ page[v].link # 0 /\ page[v].link = invite[v] => \A i \in rows[v] : i <= page[v].row
      <4>1. Closed.link = 0 /\ Len(links) \in Nat
        BY <1>1 DEF Closed, TypeOK
      <4> QED
        BY <4>1, <1>3, <2>3, <2>4 DEF PagesFit
    <3>2. page[v].link \in Nat /\ Len(links) \in Nat
      BY <1>1 DEF TypeOK, PageType
    <3>3. /\ page[v].link <= Len(links)
          /\ page[v].link # 0 => links[page[v].link].user = v
          /\ page[v].link # 0 /\ page[v].link = invite[v] => \A i \in rows[v] : i <= page[v].row
      BY <1>1 DEF PagesFit
    <3> QED
      BY <3>2, <3>3, <2>3 DEF LinksKept
  <2>9. u \notin disturbed => account'[u] = "active"
    <3>1. req[w].found \in {"none", "inactive", "active"}
      BY <1>1 DEF TypeOK, Requests
    <3>2. u \notin disturbed => req[w].found # "none" /\ (req[w].found = "active" => account[u] = "active")
      BY <1>1, <1>2, <1>3 DEF AloneKnow
    <3> QED
      BY <3>1, <3>2, <2>4
  <2>10. ActiveBelongs' /\ MemberCanEnter'
    <3>1. ASSUME NEW v \in Users \ disturbed
          PROVE  /\ account'[v] = "active" => rows[v] # {}
                 /\ rows[v] # {} => account'[v] = "active" \/ invite'[v] # 0
      <4>1. CASE v = u
        BY <4>1, <2>1, <2>9
      <4>2. CASE v # u
        BY <4>2, <2>4, <1>1 DEF ActiveBelongs, MemberCanEnter
      <4> QED
        BY <4>1, <4>2
    <3> QED
      BY <3>1, <1>3 DEF ActiveBelongs, MemberCanEnter
  <2>11. ASSUME NEW x \in Workers \ {w}, req[x].op \in {"accept", "remove"}, req[x].user \notin disturbed
         PROVE  /\ req[x].op = "remove" => account'[req[x].user] = account[req[x].user]
                /\ account[req[x].user] = "active" => account'[req[x].user] = "active"
    <3>1. req[x].user \in Users
      BY <2>11, <1>1 DEF RequestsKnow
    <3>2. req[x].user = u => req[x].op = "accept"
      BY <2>11, <1>2, <1>3, Apart DEF Ops
    <3> QED
      BY <3>1, <3>2, <2>4
  <2>12. MemberOnce' /\ RequestsKnow' /\ SeatsKept' /\ AloneKnow'
    <3>1. \A v \in Users : rows'[v] \subseteq rows[v]
      BY <1>3
    <3> QED
      BY <3>1, <1>3, <2>3, <2>5, <2>6, <2>11, FewerMembers, FinishSafe
  <2> QED
    BY <2>5, <2>7, <2>8, <2>10, <2>12 DEF Inv, TeamInv
<1> QED
  BY <1>6, <1>7

\* A request that ends without a write.
LEMMA AbortSafe ==
    ASSUME Inv, NEW w \in Workers, Abort(w)
    PROVE  Inv'
<1>1. /\ TypeOK /\ LinksFit /\ PagesFit /\ RequestsKnow /\ SeatsKept /\ AloneKnow
      /\ MemberOnce /\ ActiveBelongs /\ MemberCanEnter
  BY DEF Inv, TeamInv
<1>2. /\ Finish(w) /\ req[w] # Idle
      /\ UNCHANGED <<maxSeats, account, invite, rows, links, page, disturbed>>
  BY DEF Abort
<1>3. req'[w] = Idle /\ \A x \in Workers : x # w => req'[x] = req[x]
  BY <1>1, <1>2 DEF Finish, TypeOK
<1>4. Idle.op = "idle" /\ Idle.page = Closed /\ Idle.user = NoUser
  BY DEF Idle
<1>5. TypeOK'
  BY <1>1, <1>2, IdleType DEF TypeOK, Finish
<1>6. LinksFit' /\ PagesFit' /\ ActiveBelongs' /\ MemberCanEnter'
  BY <1>1, <1>2 DEF LinksFit, PagesFit, ActiveBelongs, MemberCanEnter
<1>7. /\ \A o : Seats(o)' = Seats(o)
      /\ \A u, o : RowsIn(u, o)' = RowsIn(u, o)
  BY <1>2 DEF Seats, Members, RowsIn
<1>8. MemberOnce' /\ RequestsKnow'
  BY <1>1, <1>2, <1>3, <1>4, <1>7 DEF MemberOnce, RequestsKnow
<1>9. SeatsKept'
  BY <1>1, <1>3, <1>4, <1>7 DEF SeatsKept
<1>10. AloneKnow'
  <2>1. SUFFICES ASSUME NEW x \in Workers, req'[x].op \in {"accept", "remove"},
                        req[x].user \notin disturbed, x # w, req'[x] = req[x]
        PROVE  \A y \in Workers \ {x} :
                    req'[y].user = req[x].user => ~Disturbs(req'[y].op, req[x].op)
    BY <1>1, <1>2, <1>3, <1>4 DEF AloneKnow
  <2>2. req[x].user # NoUser
    BY <2>1, <1>1, TeamAssumption DEF RequestsKnow, TeamAssumption
  <2> QED
    BY <2>1, <2>2, <1>1, <1>3, <1>4 DEF AloneKnow
<1> QED
  BY <1>5, <1>6, <1>8, <1>9, <1>10 DEF Inv, TeamInv

\* What was counted for a request does not follow the plan.
LEMMA PlanChangesSafe ==
    ASSUME Inv, NEW o \in Orgs, NEW n \in Plans, PlanChanges(o, n)
    PROVE  Inv'
<1>1. /\ TypeOK /\ LinksFit /\ PagesFit /\ RequestsKnow /\ SeatsKept /\ AloneKnow
      /\ MemberOnce /\ ActiveBelongs /\ MemberCanEnter
  BY DEF Inv, TeamInv
<1>2. /\ maxSeats' = [maxSeats EXCEPT ![o] = n]
      /\ UNCHANGED <<account, invite, rows, links, page, req, disturbed>>
  BY DEF PlanChanges
<1>3. TypeOK'
  BY <1>1, <1>2 DEF TypeOK
<1>4. LinksFit' /\ PagesFit' /\ ActiveBelongs' /\ MemberCanEnter' /\ AloneKnow'
  BY <1>1, <1>2 DEF LinksFit, PagesFit, ActiveBelongs, MemberCanEnter, AloneKnow
<1>5. /\ \A p : Seats(p)' = Seats(p)
      /\ \A u, p : RowsIn(u, p)' = RowsIn(u, p)
  BY <1>2 DEF Seats, Members, RowsIn
<1>6. MemberOnce' /\ RequestsKnow' /\ SeatsKept'
  BY <1>1, <1>2, <1>5 DEF MemberOnce, RequestsKnow, SeatsKept
<1> QED
  BY <1>3, <1>4, <1>6 DEF Inv, TeamInv

LEMMA NextSafe == Inv /\ [Next]_vars => Inv'
<1> SUFFICES ASSUME Inv, [Next]_vars PROVE Inv'
  OBVIOUS
<1>1. CASE UNCHANGED vars
  <2>1. UNCHANGED <<maxSeats, account, invite, rows, links, page, req, disturbed>>
    BY <1>1 DEF vars
  <2>2. (TypeOK => TypeOK') /\ (LinksFit => LinksFit') /\ (PagesFit => PagesFit')
    BY <2>1 DEF TypeOK, LinksFit, PagesFit
  <2>3. (RequestsKnow => RequestsKnow') /\ (AloneKnow => AloneKnow')
    BY <2>1 DEF RequestsKnow, AloneKnow
  <2>4. /\ \A o : Seats(o)' = Seats(o)
        /\ \A u, o : RowsIn(u, o)' = RowsIn(u, o)
    BY <2>1 DEF Seats, Members, RowsIn
  <2>5. /\ SeatsKept => SeatsKept'
        /\ MemberOnce => MemberOnce'
    BY <2>1, <2>4 DEF SeatsKept, MemberOnce
  <2>6. (ActiveBelongs => ActiveBelongs') /\ (MemberCanEnter => MemberCanEnter')
    BY <2>1 DEF ActiveBelongs, MemberCanEnter
  <2> QED
    BY <2>2, <2>3, <2>5, <2>6 DEF Inv, TeamInv
<1>2. ASSUME NEW w \in Workers, NEW u \in Users, NEW o \in Orgs,
             LoadInvite(w, u, o) \/ LoadResend(w, u, o) \/ LoadRemove(w, u, o)
      PROVE  Inv'
  BY <1>2, LoadInviteSafe, LoadResendSafe, LoadRemoveSafe
<1>3. ASSUME NEW w \in Workers, NEW u \in Users, LoadAccept(w, u) PROVE Inv'
  BY <1>3, LoadAcceptSafe
<1>4. ASSUME NEW w \in Workers,
             CommitInvite(w) \/ CommitResend(w) \/ CommitAccept(w) \/ CommitRemove(w)
      PROVE  Inv'
  BY <1>4, CommitInviteSafe, CommitResendSafe, CommitAcceptSafe, CommitRemoveSafe
<1>5. ASSUME NEW u \in Users, OpenPage(u) PROVE Inv'
  BY <1>5, OpenPageSafe
<1>6. ASSUME NEW w \in Workers, Abort(w) PROVE Inv'
  BY <1>6, AbortSafe
<1>7. ASSUME NEW o \in Orgs, NEW n \in Plans, PlanChanges(o, n) PROVE Inv'
  BY <1>7, PlanChangesSafe
<1> QED
  BY <1>1, <1>2, <1>3, <1>4, <1>5, <1>6, <1>7 DEF Next

LEMMA InvAlways == Spec => []Inv
<1>1. Init => Inv
  BY InitInv, TeamAssumption
<1> QED
  BY <1>1, NextSafe, PTL DEF Spec

(***************************************************************************)
(* Where links lead                                                        *)
(***************************************************************************)

\* Only an acceptance says where a link led and closes the page; unless it met
\* a removal or an invitation, it found the membership of its link and page.
LEMMA JoinsNewest ==
    ASSUME Inv, NEW w \in Workers, CommitAccept(w)
    PROVE  \/ UNCHANGED <<links, page>>
           \/ \E u \in Users, k \in 1 .. Len(links), row \in 1 .. Len(links) :
                /\ u = req[w].user /\ k = req[w].page.link /\ links[k].user = u
                /\ links' = [links EXCEPT ![k].led = links[row].org]
                /\ page' = [page EXCEPT ![u] = Closed]
                /\ \A i \in rows[u] : i <= row
                /\ u \notin disturbed => row <= k /\ row <= req[w].page.row
<1>1. TypeOK /\ RequestsKnow /\ AloneKnow
  BY DEF Inv, TeamInv
<1>2. PICK u \in Users, k \in 1 .. Len(links) :
        u = req[w].user /\ k = req[w].page.link /\ links[k].user = u
  BY <1>1 DEF CommitAccept, RequestsKnow
<1>3. PICK row \in Newest(u) :
        IF row = 0 THEN UNCHANGED <<account, invite, links, page>> ELSE Join(w, row)
  BY <1>2 DEF CommitAccept
<1>4. CASE row = 0
  BY <1>3, <1>4
<1>5. CASE row # 0
  <2>1. row \in rows[u] /\ \A i \in rows[u] : i <= row
    BY <1>5 DEF Newest
  <2>2. row \in 1 .. Len(links)
    BY <2>1, <1>1 DEF TypeOK
  <2>3. u \notin disturbed => row <= k /\ row <= req[w].page.row
    BY <1>1, <1>2, <2>1 DEF AloneKnow, CommitAccept
  <2>4. /\ links' = [links EXCEPT ![k].led = links[row].org]
        /\ page' = [page EXCEPT ![u] = Closed]
    BY <1>2, <1>3, <1>5 DEF Join
  <2> QED
    BY <1>2, <2>1, <2>2, <2>3, <2>4
<1> QED
  BY <1>4, <1>5

\* Every other step leaves the links that were made as they are, and opens
\* pages at most.
LEMMA LinksStay ==
    ASSUME Inv, [Next]_vars, \A w \in Workers : ~CommitAccept(w)
    PROVE  /\ \A i \in 1 .. Len(links) : links'[i] = links[i]
           /\ \A u \in Users : page'[u] = page[u] \/ page'[u] # Closed
<1>1. TypeOK /\ RequestsKnow
  BY DEF Inv, TeamInv
<1>2. CASE UNCHANGED <<links, page>>
  BY <1>2
<1>3. ASSUME NEW w \in Workers, CommitInvite(w) \/ CommitResend(w)
      PROVE  /\ \A i \in 1 .. Len(links) : links'[i] = links[i]
             /\ page' = page
  <2>1. page' = page
    BY <1>3 DEF CommitInvite, CommitResend
  <2>2. req[w].user \in Users /\ req[w].org \in Orgs
    BY <1>1, <1>3 DEF RequestsKnow, CommitInvite, CommitResend
  <2>3. \/ links' = links
        \/ NewLink(req[w].user, req[w].org, "invite")
        \/ NewLink(req[w].user, req[w].org, "resend")
    BY <1>3 DEF CommitInvite, CommitResend
  <2> QED
    BY <1>1, <2>1, <2>2, <2>3, NewLinkKept
<1>4. ASSUME NEW u \in Users, OpenPage(u)
      PROVE  links' = links /\ \A v \in Users : page'[v] = page[v] \/ page'[v] # Closed
  <2>1. PICK row \in Newest(u) :
          page' = [page EXCEPT ![u] = [link |-> invite[u], row |-> row, asks |-> account[u] = "inactive"]]
    BY <1>4 DEF OpenPage
  <2>2. page'[u].link # 0
    BY <2>1, <1>1, <1>4 DEF OpenPage, TypeOK
  <2>3. page'[u] # Closed
    BY <2>2 DEF Closed
  <2> QED
    BY <2>1, <2>3, <1>1, <1>4 DEF OpenPage, TypeOK
<1>5. \/ UNCHANGED <<links, page>>
      \/ \E w \in Workers : CommitInvite(w) \/ CommitResend(w)
      \/ \E u \in Users : OpenPage(u)
  BY DEF Next, vars, LoadInvite, LoadResend, LoadRemove, LoadAccept, CommitRemove, Abort, PlanChanges
<1> QED
  BY <1>2, <1>3, <1>4, <1>5

\* What links, pages and requests agree on, whatever meets whatever.
THEOREM TeamIsSafe == Spec => []TeamInv
<1>1. Inv => TeamInv
  BY DEF Inv
<1> QED
  BY <1>1, InvAlways, PTL

\* An acceptance says where a link led.
LEMMA LedIsAdded ==
    ASSUME TypeOK, RequestsKnow, NEW w \in Workers, CommitAccept(w)
    PROVE  LinksKept
<1>1. CASE links' = links
  BY <1>1 DEF LinksKept, TypeOK
<1>2. ASSUME NEW row \in Newest(req[w].user), Join(w, row) PROVE LinksKept
  BY <1>2 DEF Join, LinksKept, TypeOK, LinkType
<1> QED
  BY <1>1, <1>2 DEF CommitAccept

\* Only the commit of an invitation adds a member.
LEMMA MembersGoOtherwise ==
    ASSUME TypeOK, TypeOK', [Next]_vars, \A w \in Workers : ~CommitInvite(w), RequestsKnow
    PROVE  \A o : ~(Seats(o)' > Seats(o))
<1>1. CASE UNCHANGED <<rows, links>>
  <2>1. \A o : Seats(o)' = Seats(o)
    BY <1>1 DEF Seats, Members
  <2>2. \A o : Seats(o) \in Nat
    BY MembersFinite DEF Seats
  <2> QED
    BY <2>1, <2>2
<1>2. ASSUME NEW w \in Workers, CommitResend(w) \/ CommitAccept(w) \/ CommitRemove(w)
      PROVE  LinksKept /\ \A u \in Users : rows'[u] \subseteq rows[u]
  <2>1. CASE CommitResend(w)
    BY <2>1, NewLinkKept DEF CommitResend, RequestsKnow
  <2>2. CASE CommitAccept(w)
    BY <2>2, LedIsAdded DEF CommitAccept
  <2>3. CASE CommitRemove(w)
    BY <2>3 DEF CommitRemove, LinksKept, TypeOK
  <2> QED
    BY <1>2, <2>1, <2>2, <2>3
<1>3. CASE \E w \in Workers : CommitResend(w) \/ CommitAccept(w) \/ CommitRemove(w)
  BY <1>2, <1>3, SeatsShrink
<1>4. \/ UNCHANGED <<rows, links>>
      \/ \E w \in Workers : CommitResend(w) \/ CommitAccept(w) \/ CommitRemove(w)
  BY DEF Next, vars, LoadInvite, LoadResend, LoadRemove, LoadAccept, Abort, PlanChanges, OpenPage
<1> QED
  BY <1>1, <1>3, <1>4

\* No invitations, however many at once, pass the seats that the plan gave when
\* the organisation was locked.
THEOREM SeatsAreNeverPassed == Spec => SeatsAreLimited
<1>1. Inv /\ Inv' /\ [Next]_vars =>
        [\A o \in Orgs :
            Seats(o)' > Seats(o) =>
                \E w \in Workers : /\ req[w].op = "invite" /\ req[w].org = o
                                  /\ Seats(o)' <= req[w].seats]_vars
  <2> SUFFICES ASSUME Inv, Inv', [Next]_vars, NEW o \in Orgs, Seats(o)' > Seats(o)
               PROVE  \E w \in Workers : /\ req[w].op = "invite" /\ req[w].org = o
                                         /\ Seats(o)' <= req[w].seats
    OBVIOUS
  <2>1. TypeOK /\ TypeOK' /\ RequestsKnow /\ SeatsKept
    BY DEF Inv, TeamInv
  <2>2. Seats(o) \in Nat
    BY <2>1, MembersFinite DEF Seats
  <2>3. PICK w \in Workers : CommitInvite(w)
    BY <2>1, MembersGoOtherwise
  <2>4. PICK u \in Users, p \in Orgs : u = req[w].user /\ p = req[w].org
    BY <2>1, <2>3 DEF CommitInvite, RequestsKnow
  <2>5. ~UNCHANGED <<rows, links>>
    <3>1. SUFFICES ASSUME UNCHANGED <<rows, links>> PROVE Seats(o)' = Seats(o)
      BY <2>2
    <3> QED
      BY <3>1 DEF Seats, Members
  <2>6. rows' = [rows EXCEPT ![u] = @ \union {Len(links) + 1}] /\ NewLink(u, p, "invite")
    BY <2>3, <2>4, <2>5 DEF CommitInvite
  <2>7. Seats(p) \in Nat /\ Seats(p)' \in Nat /\ Seats(p)' <= Seats(p) + 1
        /\ (o # p => Seats(o)' = Seats(o))
    BY <2>1, <2>6, SeatsGrow
  <2>8. req[w].op = "invite" /\ Seats(p) < req[w].seats /\ req[w].seats \in Nat
    BY <2>1, <2>3, <2>4 DEF CommitInvite, SeatsKept, TypeOK, Requests
  <2> QED
    BY <2>2, <2>4, <2>7, <2>8
<1> QED
  BY <1>1, InvAlways, PTL DEF Spec, SeatsAreLimited

\* Nobody is invited into an organisation that he is in.
THEOREM NobodyIsTwiceMember == Spec => []MemberOnce
<1>1. Inv => MemberOnce
  BY DEF Inv, TeamInv
<1> QED
  BY <1>1, InvAlways, PTL

\* Members are never locked out and active accounts belong somewhere, unless a
\* removal met another request.
THEOREM MembersAloneEnter == Spec => []EntryFitsMembership
<1>1. Inv => EntryFitsMembership
  BY DEF Inv, EntryFitsMembership
<1> QED
  BY <1>1, InvAlways, PTL

\* An invitation that was not taken back leads into the organisation that made
\* it: its link is good only while its membership is the newest.
THEOREM InvitationsLeadHome == Spec => InviteLeadsHome
<1>1. Inv /\ [Next]_vars =>
        [\A i \in 1 .. Len(links) :
            LET u == links[i].user IN
            links'[i].led # links[i].led /\ links[i].how = "invite" /\ i \in rows[u] /\ u \notin disturbed
                => links'[i].led = links[i].org]_vars
  <2> SUFFICES ASSUME Inv, [Next]_vars, NEW i \in 1 .. Len(links),
                      links'[i].led # links[i].led, i \in rows[links[i].user],
                      links[i].user \notin disturbed
               PROVE  links'[i].led = links[i].org
    OBVIOUS
  <2>1. TypeOK
    BY DEF Inv, TeamInv
  <2>2. PICK w \in Workers : CommitAccept(w)
    BY LinksStay
  <2>3. PICK u \in Users, k \in 1 .. Len(links), row \in 1 .. Len(links) :
          /\ links[k].user = u
          /\ links' = [links EXCEPT ![k].led = links[row].org]
          /\ \A j \in rows[u] : j <= row
          /\ u \notin disturbed => row <= k
    BY <2>2, JoinsNewest
  <2>4. i = k
    BY <2>1, <2>3 DEF TypeOK
  <2>5. row = i
    BY <2>1, <2>3, <2>4 DEF TypeOK
  <2>6. links'[k].led = links[row].org
    BY <2>1, <2>3 DEF TypeOK, LinkType
  <2> QED
    BY <2>4, <2>5, <2>6
<1> QED
  BY <1>1, InvAlways, PTL DEF Spec, InviteLeadsHome

\* The page and the handler look for the newest membership at different times;
\* the token goes when another is made, so both find the same one.
THEOREM ShownIsAlwaysJoined == Spec => ShownIsJoined
<1>1. Inv /\ [Next]_vars =>
        [\A w \in Workers :
            LET u == req[w].user
                p == req[w].page
            IN  p.link # 0 /\ req'[w] = Idle /\ page'[u] = Closed /\ page[u] # Closed
                    /\ p.row \in rows[u] /\ u \notin disturbed
                    => links'[p.link].led = links[p.row].org]_vars
  <2> SUFFICES ASSUME Inv, [Next]_vars, NEW w \in Workers,
                      req[w].page.link # 0, req'[w] = Idle,
                      page'[req[w].user] = Closed, page[req[w].user] # Closed,
                      req[w].page.row \in rows[req[w].user], req[w].user \notin disturbed
               PROVE  links'[req[w].page.link].led = links[req[w].page.row].org
    OBVIOUS
  <2>1. TypeOK /\ RequestsKnow
    BY DEF Inv, TeamInv
  <2>2. req[w].op = "accept" /\ req[w].user \in Users /\ req[w] # Idle
    BY <2>1 DEF RequestsKnow, Closed, Idle
  <2>3. PICK x \in Workers : CommitAccept(x)
    BY <2>2, LinksStay
  <2>4. x = w
    BY <2>1, <2>2, <2>3 DEF CommitAccept, Finish, TypeOK
  <2>5. PICK u \in Users, k \in 1 .. Len(links), row \in 1 .. Len(links) :
          /\ u = req[w].user /\ k = req[w].page.link
          /\ links' = [links EXCEPT ![k].led = links[row].org]
          /\ \A j \in rows[u] : j <= row
          /\ u \notin disturbed => row <= req[w].page.row
    BY <2>3, <2>4, <2>2, JoinsNewest
  <2>6. row = req[w].page.row
    BY <2>1, <2>5 DEF TypeOK
  <2>7. links'[k].led = links[row].org
    BY <2>1, <2>5 DEF TypeOK, LinkType
  <2> QED
    BY <2>5, <2>6, <2>7
<1> QED
  BY <1>1, InvAlways, PTL DEF Spec, ShownIsJoined
=============================================================================
