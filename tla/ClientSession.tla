---------------------------- MODULE ClientSession ----------------------------
(***************************************************************************)
(* One browser tab of one user: the token pair in localStorage and the     *)
(* retry of api-client.ts, the session operations of auth-store.ts, and    *)
(* what auth_service.py and deps.py make of the tokens while an            *)
(* administrator removes the user from an organisation or invites them     *)
(* again.  An access token carries its organisation and is believed until  *)
(* it expires; only its renewal looks at the membership.                   *)
(***************************************************************************)
EXTENDS Naturals

CONSTANTS
    Orgs,            \* organisations
    Requests,        \* calls of apiClient in flight
    Sessions,        \* bound: those of them that session operations are made with
    Tokens,          \* access tokens, used again when nobody holds them
    NoOrg, NoToken

ASSUME SessionAssumption ==
    /\ Sessions \subseteq Requests
    /\ NoOrg \notin Orgs
    /\ NoToken \notin Tokens

VARIABLES
    member,      \* organisations the user is a member of
    active,      \* User.is_active
    orgOf,       \* the organisation an access token was issued for
    live,        \* access tokens that have not expired
    stored,      \* localStorage: the access token, and the refresh token's organisation
    store,       \* useAuthStore: organisation and isAuthenticated
    req,         \* per call: what it is and where it is
    refresh,     \* refreshPromise
    mixed        \* history: session operations met, see below

vars == <<member, active, orgOf, live, stored, store, req, refresh, mixed>>
serverVars == <<member, active, orgOf, live>>

NoPair == [token |-> NoToken, org |-> NoOrg]
SignedOut == [in |-> FALSE, org |-> NoOrg]
Idle == [kind |-> "none", pc |-> "none", to |-> NoOrg, token |-> NoToken, got |-> NoOrg,
         retried |-> FALSE, acts |-> 0]
NoRefresh == [pc |-> "none", org |-> NoOrg, token |-> NoToken]

Init ==
    /\ member = Orgs
    /\ active = TRUE
    /\ orgOf = [k \in Tokens |-> NoOrg]
    /\ live = {}
    /\ stored = NoPair
    /\ store = SignedOut
    /\ req = [r \in Requests |-> Idle]
    /\ refresh = NoRefresh
    /\ mixed = FALSE

(***************************************************************************)
(* Tokens.                                                                 *)
(***************************************************************************)
Held == {stored.token, refresh.token} \union {req[r].token : r \in Requests}
Unused == Tokens \ Held

\* _build_tokens: an access token and a refresh token for one organisation.
Mint(k, o) ==
    /\ k \in Unused
    /\ orgOf' = [orgOf EXCEPT ![k] = o]
    /\ live' = live \union {k}

SetTokens(k) == stored' = [token |-> k, org |-> orgOf[k]]
ClearTokens == stored' = NoPair

\* The access token lives for access_token_expire_minutes.
Expire(k) ==
    /\ k \in live
    /\ live' = live \ {k}
    /\ UNCHANGED <<member, active, orgOf, stored, store, req, refresh, mixed>>

(***************************************************************************)
(* What other people do to the membership.                                 *)
(***************************************************************************)
\* A user without any organisation is deactivated.
RemoveMember(o) ==
    /\ o \in member
    /\ member' = member \ {o}
    /\ active' = (active /\ member # {o})
    /\ UNCHANGED <<orgOf, live, stored, store, req, refresh, mixed>>

Invite(o) ==
    /\ o \notin member
    /\ member' = member \union {o}
    /\ UNCHANGED <<active, orgOf, live, stored, store, req, refresh, mixed>>

\* On another device: accept_invite sets a password and activates the user.
AcceptInvite ==
    /\ ~active /\ member # {}
    /\ active' = TRUE
    /\ UNCHANGED <<member, orgOf, live, stored, store, req, refresh, mixed>>

(***************************************************************************)
(* Calls are made.  A session operation that starts while another is in    *)
(* flight, or replaces the tokens while they are being renewed, leaves the *)
(* tab with whichever of the two ends last.                                *)
(***************************************************************************)
Profiles == {"loginProfile", "switchProfile", "openProfile"}
SessionOps == {"login", "switch"} \union Profiles
Busy == \E r \in Requests : req[r].kind \in SessionOps
Renewing == refresh.pc # "none"

Call(r, kind, to) ==
    /\ req[r].kind = "none"
    /\ req' = [req EXCEPT ![r] = [Idle EXCEPT !.kind = kind, !.pc = "out", !.to = to,
                                              !.token = IF kind = "login" THEN NoToken ELSE stored.token]]
    /\ mixed' = (mixed \/ (kind \in SessionOps /\ Busy))

Work(r) ==
    /\ store.in
    /\ Call(r, "work", NoOrg)
    /\ UNCHANGED <<serverVars, stored, store, refresh>>

Login(r) ==
    /\ ~store.in
    /\ Call(r, "login", NoOrg)
    /\ UNCHANGED <<serverVars, stored, store, refresh>>

SwitchOrg(r, o) ==
    /\ store.in
    /\ Call(r, "switch", o)
    /\ UNCHANGED <<serverVars, stored, store, refresh>>

HalfSwitched(r) == req[r].kind = "switchProfile"

\* The page is opened again.  What was in flight is forgotten; localStorage
\* and the persisted part of the store are not.  A page that finds tokens and
\* no session runs loadFromStorage and refreshAuth.
OpenPage(r) ==
    LET found == stored.token # NoToken /\ ~store.in IN
    /\ req' = [q \in Requests |->
                  IF q = r /\ found
                  THEN [Idle EXCEPT !.kind = "openProfile", !.pc = "out", !.token = stored.token] ELSE Idle]
    /\ refresh' = NoRefresh
    /\ store' = [store EXCEPT !.in = @ \/ found]
    /\ mixed' = (mixed \/ \E q \in Requests : HalfSwitched(q))
    /\ UNCHANGED <<serverVars, stored>>

\* Mutant: the tokens stay in localStorage.
LogoutKeepsTokens ==
    /\ store.in
    /\ store' = SignedOut
    /\ mixed' = IF Busy \/ Renewing THEN TRUE ELSE FALSE
    /\ UNCHANGED <<serverVars, stored, req, refresh>>

Logout ==
    /\ store.in
    /\ ClearTokens
    /\ store' = SignedOut
    /\ mixed' = IF Busy \/ Renewing THEN TRUE ELSE FALSE
    /\ UNCHANGED <<serverVars, req, refresh>>

(***************************************************************************)
(* The server.  get_current_user believes a token that has not expired.    *)
(***************************************************************************)
Believed(r) == req[r].token \in live
Return(r, pc, got) == [req[r] EXCEPT !.pc = pc, !.got = got]

Refuse(r) ==
    /\ req[r].pc = "out" /\ req[r].kind # "login" /\ ~Believed(r)
    /\ req' = [req EXCEPT ![r] = Return(r, "denied", NoOrg)]
    /\ UNCHANGED <<serverVars, stored, store, refresh, mixed>>

ServeWork(r) ==
    /\ req[r].pc = "out" /\ req[r].kind = "work" /\ Believed(r)
    /\ req' = [req EXCEPT ![r].pc = "back", ![r].acts = @ + 1]
    /\ UNCHANGED <<serverVars, stored, store, refresh, mixed>>

\* /auth/me needs the membership, which may be gone by now.
ServeProfile(r) ==
    /\ req[r].pc = "out" /\ req[r].kind \in Profiles /\ Believed(r)
    /\ req' = [req EXCEPT ![r] = IF orgOf[req[r].token] \in member
                                 THEN Return(r, "back", orgOf[req[r].token]) ELSE Return(r, "failed", NoOrg)]
    /\ UNCHANGED <<serverVars, stored, store, refresh, mixed>>

\* login and switch_org hand out a new pair for a membership: login for the
\* one joined first, whichever that is, and to active users only.
LoginOrg(o) == active /\ o \in member

ServeTokens(r, k, o) ==
    /\ req[r].pc = "out"
    /\ \/ req[r].kind = "login" /\ LoginOrg(o)
       \/ req[r].kind = "switch" /\ Believed(r) /\ o = req[r].to /\ o \in member
    /\ Mint(k, o)
    /\ req' = [req EXCEPT ![r].pc = "back", ![r].token = k]
    /\ UNCHANGED <<member, active, stored, store, refresh, mixed>>

DenyTokens(r) ==
    /\ req[r].pc = "out"
    /\ \/ req[r].kind = "login" /\ \A o \in Orgs : ~LoginOrg(o)
       \/ req[r].kind = "switch" /\ Believed(r) /\ req[r].to \notin member
    /\ req' = [req EXCEPT ![r] = Return(r, "failed", NoOrg)]
    /\ UNCHANGED <<serverVars, stored, store, refresh, mixed>>

(***************************************************************************)
(* Answers.                                                                *)
(***************************************************************************)
Done(r) == req' = [req EXCEPT ![r] = Idle]

\* What a failed call does to the session: a login is forgotten, and so is a
\* session that refreshAuth finds unauthorised.
Abandon(r, unauthorised) ==
    \/ req[r].kind \in {"login", "loginProfile"}
    \/ req[r].kind = "openProfile" /\ unauthorised

WorkBack(r) ==
    /\ req[r].pc = "back" /\ req[r].kind = "work"
    /\ Done(r)
    /\ UNCHANGED <<serverVars, stored, store, refresh, mixed>>

\* Mutant: the profile is not loaded again after a switch.
TokensBackSwitched(r) ==
    /\ req[r].pc = "back" /\ req[r].kind \in {"login", "switch"}
    /\ SetTokens(req[r].token)
    /\ req' = [req EXCEPT ![r] =
                  IF req[r].kind = "switch" THEN Idle
                  ELSE [Idle EXCEPT !.kind = "loginProfile", !.pc = "out", !.token = req[r].token]]
    /\ mixed' = (mixed \/ Renewing)
    /\ UNCHANGED <<serverVars, store, refresh>>

\* The tokens are stored, and the profile is loaded with them.
TokensBack(r) ==
    /\ req[r].pc = "back" /\ req[r].kind \in {"login", "switch"}
    /\ SetTokens(req[r].token)
    /\ req' = [req EXCEPT ![r] =
                  [Idle EXCEPT !.kind = IF req[r].kind = "login" THEN "loginProfile" ELSE "switchProfile",
                               !.pc = "out", !.token = req[r].token]]
    /\ mixed' = (mixed \/ Renewing)
    /\ UNCHANGED <<serverVars, store, refresh>>

ProfileBack(r) ==
    /\ req[r].pc = "back" /\ req[r].kind \in Profiles
    /\ store' = [in |-> TRUE, org |-> req[r].got]
    /\ Done(r)
    /\ UNCHANGED <<serverVars, stored, refresh, mixed>>

CallFailed(r) ==
    /\ req[r].pc = "failed"
    /\ IF Abandon(r, FALSE)
       THEN ClearTokens /\ store' = SignedOut ELSE UNCHANGED <<stored, store>>
    /\ Done(r)
    /\ mixed' = (mixed \/ HalfSwitched(r) \/ (Abandon(r, FALSE) /\ Renewing))
    /\ UNCHANGED <<serverVars, refresh>>

\* Mutant: a call that was cut off is sent again.
LoseConnectionResends(r) ==
    /\ req[r].pc \in {"out", "back", "denied"}
    /\ req' = [req EXCEPT ![r] = Return(r, "out", NoOrg)]
    /\ UNCHANGED <<serverVars, stored, store, refresh, mixed>>

\* fetch throws, before or after the server has done its part.
LoseConnection(r) ==
    /\ req[r].pc \in {"out", "back", "denied"}
    /\ req' = [req EXCEPT ![r] = Return(r, "failed", NoOrg)]
    /\ UNCHANGED <<serverVars, stored, store, refresh, mixed>>

(***************************************************************************)
(* The first 401 of a call renews the tokens, once for all calls that meet *)
(* one meanwhile; the second is final.                                     *)
(***************************************************************************)
Unauthorised(r) ==
    /\ ClearTokens
    /\ store' = IF Abandon(r, TRUE) THEN SignedOut ELSE store
    /\ Done(r)

Denied(r) ==
    /\ req[r].pc = "denied"
    /\ \/ /\ ~req[r].retried /\ Renewing
          /\ req' = [req EXCEPT ![r].pc = "waits"]
          /\ UNCHANGED <<stored, store, refresh, mixed>>
       \/ /\ ~req[r].retried /\ ~Renewing /\ stored.org # NoOrg
          /\ req' = [req EXCEPT ![r].pc = "waits"]
          /\ refresh' = [NoRefresh EXCEPT !.pc = "out", !.org = stored.org]
          /\ UNCHANGED <<stored, store, mixed>>
       \/ /\ ~req[r].retried /\ ~Renewing /\ stored.org = NoOrg
          /\ Unauthorised(r)
          /\ mixed' = (mixed \/ HalfSwitched(r))
          /\ UNCHANGED refresh
       \/ /\ req[r].retried
          /\ store' = IF Abandon(r, TRUE) THEN SignedOut ELSE store
          /\ IF Abandon(r, TRUE) THEN ClearTokens ELSE UNCHANGED stored
          /\ Done(r)
          /\ mixed' = (mixed \/ HalfSwitched(r) \/ (Abandon(r, TRUE) /\ Renewing))
          /\ UNCHANGED refresh
    /\ UNCHANGED serverVars

\* Mutant: a refresh token is enough.
MayRenewAlways(o) == TRUE

\* refresh looks the user and the membership up again.
MayRenew(o) == active /\ o \in member

RefreshServe(k) ==
    /\ refresh.pc = "out" /\ MayRenew(refresh.org)
    /\ Mint(k, refresh.org)
    /\ refresh' = [refresh EXCEPT !.pc = "back", !.token = k]
    /\ UNCHANGED <<member, active, stored, store, req, mixed>>

\* The membership is gone, the refresh token has expired, or the connection broke.
RefreshFails ==
    /\ refresh.pc \in {"out", "back"}
    /\ refresh' = [refresh EXCEPT !.pc = "failed", !.token = NoToken]
    /\ UNCHANGED <<serverVars, stored, store, req, mixed>>

Waiting == {r \in Requests : req[r].pc = "waits"}

\* Every call that waits is sent again with the new token.
RefreshBack ==
    /\ refresh.pc = "back"
    /\ SetTokens(refresh.token)
    /\ req' = [r \in Requests |->
                  IF r \in Waiting
                  THEN [req[r] EXCEPT !.pc = "out", !.token = refresh.token, !.retried = TRUE] ELSE req[r]]
    /\ refresh' = NoRefresh
    /\ UNCHANGED <<serverVars, store, mixed>>

\* Mutant: only the call that asked for the renewal hears of its failure.
RefreshGivenUpAlone ==
    /\ refresh.pc = "failed"
    /\ ClearTokens
    /\ \E r \in Waiting :
          /\ req' = [req EXCEPT ![r] = Idle]
          /\ store' = IF Abandon(r, TRUE) THEN SignedOut ELSE store
          /\ mixed' = (mixed \/ HalfSwitched(r))
    /\ refresh' = NoRefresh
    /\ UNCHANGED serverVars

RefreshGivenUp ==
    /\ refresh.pc = "failed"
    /\ ClearTokens
    /\ req' = [r \in Requests |-> IF r \in Waiting THEN Idle ELSE req[r]]
    /\ store' = IF \E r \in Waiting : Abandon(r, TRUE) THEN SignedOut ELSE store
    /\ mixed' = (mixed \/ \E r \in Waiting : HalfSwitched(r))
    /\ refresh' = NoRefresh
    /\ UNCHANGED serverVars

Next ==
    \/ \E k \in Tokens : Expire(k) \/ RefreshServe(k)
    \/ \E o \in Orgs : RemoveMember(o) \/ Invite(o)
    \/ \E r \in Sessions : Login(r) \/ OpenPage(r) \/ \E o \in Orgs : SwitchOrg(r, o)
    \/ \E r \in Requests :
          \/ Work(r) \/ Refuse(r) \/ ServeWork(r) \/ ServeProfile(r) \/ DenyTokens(r)
          \/ \E k \in Tokens, o \in Orgs : ServeTokens(r, k, o)
          \/ WorkBack(r) \/ TokensBack(r) \/ ProfileBack(r) \/ CallFailed(r) \/ LoseConnection(r)
          \/ Denied(r)
    \/ AcceptInvite \/ Logout \/ RefreshFails \/ RefreshBack \/ RefreshGivenUp

\* Time passes: every access token expires in the end.  Nothing else need happen.
Fairness == \A k \in Tokens : WF_vars(Expire(k))

Spec == Init /\ [][Next]_vars /\ Fairness

(***************************************************************************)
(* Properties                                                              *)
(***************************************************************************)
AnyOrg == Orgs \union {NoOrg}
AnyToken == Tokens \union {NoToken}

Calls ==
    [kind : {"none", "work"} \union SessionOps,
     pc : {"none", "out", "back", "denied", "failed", "waits"},
     to : AnyOrg, token : AnyToken, got : AnyOrg, retried : BOOLEAN, acts : Nat]

TypeOK ==
    /\ member \subseteq Orgs
    /\ active \in BOOLEAN
    /\ orgOf \in [Tokens -> AnyOrg]
    /\ live \subseteq Tokens
    /\ stored \in [token : AnyToken, org : AnyOrg]
    /\ store \in [in : BOOLEAN, org : AnyOrg]
    /\ req \in [Requests -> Calls]
    /\ refresh \in [pc : {"none", "out", "back", "failed"}, org : AnyOrg, token : AnyToken]
    /\ mixed \in BOOLEAN

\* localStorage holds both tokens or none, and they are for one organisation;
\* a renewal that came back has a token for the organisation it asked for.
PairsAreWhole ==
    /\ stored.token = NoToken => stored.org = NoOrg
    /\ stored.token # NoToken => stored.org = orgOf[stored.token]
    /\ refresh.pc = "back" => refresh.token # NoToken /\ refresh.org = orgOf[refresh.token]

\* A call that waits for a renewal waits for one that is running, and every
\* renewal has a call that waits for it.
WaitersHaveRenewal == Waiting # {} <=> Renewing

SessionInv == TypeOK /\ PairsAreWhole /\ WaitersHaveRenewal

\* A call acts on the server at most once, and not at all while it can still
\* be sent again: only an answer that refused it leads to a second attempt,
\* never a connection that broke after it may have been served.
NoRequestActsTwice ==
    \A r \in Requests :
        /\ req[r].acts <= 1
        /\ req[r].pc \in {"out", "denied", "waits"} => req[r].acts = 0

\* Between session operations the organisation the tab shows is the one its
\* tokens act for, whatever calls, renewals, expirations and reloads there
\* were; unless operations met, or a switch was cut off halfway (mixed).
Settled == ~Busy /\ ~Renewing /\ ~mixed

ShownOrgIsTokenOrg ==
    Settled /\ store.in /\ stored.token # NoToken /\ store.org # NoOrg =>
        store.org = stored.org /\ store.org = orgOf[stored.token]

\* A tab that shows no session keeps no tokens, which the next reload would
\* bring it back with, and has no renewal in flight, whose answer would be
\* stored; unless a logout met a renewal, or operations met (mixed): there the
\* code stores the old tokens again.
LoggedOutStaysOut == ~Busy /\ ~mixed /\ ~store.in => stored = NoPair /\ ~Renewing

\* Who stays removed from an organisation is shut out of it in the end: the
\* tokens expire, and no renewal, login or switch makes another.
RemovedIsShutOut ==
    \A o \in Orgs : <>[](o \notin member) => <>[](\A k \in live : orgOf[k] # o)
=============================================================================
