-------------------------- MODULE ClientSessionProofs --------------------------
(***************************************************************************)
(* What no interleaving of calls, renewals, session operations and reloads *)
(* breaks, for every instance of ClientSession.                            *)
(***************************************************************************)
EXTENDS ClientSession, TLAPS

Kind(r) == req[r].kind

\* What a session operation was told, and what a tab without a session shows.
HoldsToken ==
    /\ \A r \in Requests :
          Kind(r) \in Profiles \/ (Kind(r) \in {"login", "switch"} /\ req[r].pc = "back")
              => req[r].token \in Tokens
    /\ \A r \in Requests : Kind(r) = "none" => req[r].pc = "none"
    /\ ~store.in => store = SignedOut

\* While session operations do not meet, there is one of them at a time ...
OneOperation == \A q, r \in Requests : Kind(q) \in SessionOps /\ Kind(r) \in SessionOps => q = r

\* ... nobody replaces the tokens under a renewal ...
RenewsStored == Renewing => refresh.org = stored.org /\ stored.org # NoOrg

\* ... the profile in flight is that of the stored tokens' organisation ...
ProfileKnows(r) ==
    Kind(r) \in Profiles /\ stored.token # NoToken =>
        /\ req[r].pc = "out" => orgOf[req[r].token] = stored.org
        /\ req[r].pc = "back" => req[r].got = stored.org

OperationKnows ==
    \A r \in Requests :
        /\ Kind(r) \in {"login", "loginProfile"} => ~store.in
        /\ Kind(r) \in {"switch", "switchProfile", "openProfile"} => store.in
        /\ ProfileKnows(r)

\* ... and store and tokens differ only between the halves of an operation.
OutHasNoTokens ==
    ~store.in => stored = NoPair \/ \E r \in Requests : Kind(r) = "loginProfile"

ShownIsStored ==
    store.in /\ stored.token # NoToken /\ store.org # NoOrg /\ (\A r \in Requests : ~HalfSwitched(r))
        => store.org = stored.org

Unmixed ==
    ~mixed => OneOperation /\ RenewsStored /\ OperationKnows /\ OutHasNoTokens /\ ShownIsStored

Inv == SessionInv /\ NoRequestActsTwice /\ HoldsToken /\ Unmixed

LEMMA Kinds ==
    /\ \A k : k \in SessionOps <=> k \in {"login", "switch", "loginProfile", "switchProfile", "openProfile"}
    /\ \A k : k \in Profiles <=> k \in {"loginProfile", "switchProfile", "openProfile"}
BY DEF SessionOps, Profiles

LEMMA IdleSafe ==
    /\ Idle \in Calls /\ Idle.kind = "none" /\ Idle.pc = "none" /\ Idle.acts = 0
    /\ NoPair \in [token : AnyToken, org : AnyOrg] /\ SignedOut \in [in : BOOLEAN, org : AnyOrg]
BY DEF Idle, Calls, AnyOrg, AnyToken, NoPair, SignedOut

LEMMA CallFields ==
    ASSUME NEW c \in Calls
    PROVE  /\ c.kind \in {"none", "work"} \union SessionOps
           /\ c.pc \in {"none", "out", "back", "denied", "failed", "waits"}
           /\ c.to \in AnyOrg /\ c.token \in AnyToken /\ c.got \in AnyOrg
           /\ c.retried \in BOOLEAN /\ c.acts \in Nat
BY DEF Calls

LEMMA Types ==
    ASSUME Inv
    PROVE  /\ orgOf \in [Tokens -> AnyOrg] /\ live \subseteq Tokens /\ req \in [Requests -> Calls]
           /\ stored \in [token : AnyToken, org : AnyOrg] /\ store \in [in : BOOLEAN, org : AnyOrg]
           /\ refresh \in [pc : {"none", "out", "back", "failed"}, org : AnyOrg, token : AnyToken]
           /\ mixed \in BOOLEAN /\ member \subseteq Orgs /\ active \in BOOLEAN
BY DEF Inv, SessionInv, TypeOK

\* The server's side may change, but a token that is held keeps its organisation.
ServerMoves ==
    /\ member' \subseteq Orgs /\ active' \in BOOLEAN /\ live' \subseteq Tokens
    /\ orgOf' \in [Tokens -> AnyOrg]
    /\ \A k \in Tokens : k \in Held => orgOf'[k] = orgOf[k]

LEMMA MintMoves ==
    ASSUME Inv, NEW k \in Tokens, NEW o \in Orgs, Mint(k, o), UNCHANGED <<member, active>>
    PROVE  ServerMoves /\ orgOf'[k] = o
<1>1. orgOf' \in [Tokens -> AnyOrg] /\ orgOf'[k] = o /\ \A l \in Tokens \ {k} : orgOf'[l] = orgOf[l]
  BY Types DEF Mint, AnyOrg
<1>2. k \notin Held
  BY DEF Mint, Unused
<1> QED BY <1>1, <1>2, Types DEF ServerMoves, Mint

LEMMA StaysMoves ==
    ASSUME Inv, UNCHANGED serverVars
    PROVE  ServerMoves
BY Types DEF ServerMoves, serverVars

\* Nothing but the server's side changes.
LEMMA ServerSafe ==
    ASSUME Inv, ServerMoves, UNCHANGED <<stored, store, req, refresh, mixed>>
    PROVE  Inv'
<1>1. TypeOK'
  BY Types DEF ServerMoves, TypeOK
<1>2. PairsAreWhole'
  <2>1. stored.token # NoToken => orgOf'[stored.token] = orgOf[stored.token]
    BY Types DEF ServerMoves, Held, AnyToken
  <2>2. refresh.token # NoToken => orgOf'[refresh.token] = orgOf[refresh.token]
    BY Types DEF ServerMoves, Held, AnyToken
  <2> QED BY <2>1, <2>2 DEF Inv, SessionInv, PairsAreWhole
<1>3. WaitersHaveRenewal' /\ NoRequestActsTwice' /\ HoldsToken'
  BY DEF Inv, SessionInv, WaitersHaveRenewal, Waiting, Renewing, NoRequestActsTwice, HoldsToken, Kind
<1>4. Unmixed'
  <2>1. \A r \in Requests : Kind(r) \in Profiles => orgOf'[req[r].token] = orgOf[req[r].token]
    BY DEF ServerMoves, Held, Inv, HoldsToken
  <2>2. (\A r \in Requests : ProfileKnows(r)) => \A r \in Requests : ProfileKnows(r)'
    BY <2>1 DEF ProfileKnows, Kind
  <2> QED BY <2>2 DEF Inv, Unmixed, OneOperation, RenewsStored, Renewing, OperationKnows, OutHasNoTokens,
                   ShownIsStored, HalfSwitched, Kind
<1> QED BY <1>1, <1>2, <1>3, <1>4 DEF Inv, SessionInv

\* What a call must know as long as session operations do not meet.
Knows(r) ==
    /\ Kind(r) \in {"login", "loginProfile"} => ~store.in
    /\ Kind(r) \in {"switch", "switchProfile", "openProfile"} => store.in
    /\ ProfileKnows(r)

\* One call moves on; tab and renewal stay as they are.
LEMMA MoveSafe ==
    ASSUME Inv, NEW r \in Requests, NEW c \in Calls, ServerMoves,
           req' = [req EXCEPT ![r] = c],
           UNCHANGED <<stored, store, refresh, mixed>>,
           c.kind = Kind(r) \/ (Kind(r) = "work" /\ c.kind = "none"), c.kind = "none" => c.pc = "none",
           req[r].pc # "waits", c.pc = "waits" => Renewing,
           c.acts <= 1, c.pc \in {"out", "denied", "waits"} => c.acts = 0,
           Kind(r) \in Profiles => /\ c.token = req[r].token
                                   /\ c.pc # "out"
                                   /\ c.pc = "back" => req[r].pc = "out" /\ c.got = orgOf[req[r].token],
           Kind(r) \in {"login", "switch"} /\ c.pc = "back" => c.token \in Tokens
    PROVE  Inv'
<1>1. req'[r] = c /\ \A q \in Requests \ {r} : req'[q] = req[q]
  BY Types
<1>2. TypeOK'
  BY Types DEF ServerMoves, TypeOK
<1>3. PairsAreWhole'
  <2>1. stored.token # NoToken => orgOf'[stored.token] = orgOf[stored.token]
    BY Types DEF ServerMoves, Held, AnyToken
  <2>2. refresh.token # NoToken => orgOf'[refresh.token] = orgOf[refresh.token]
    BY Types DEF ServerMoves, Held, AnyToken
  <2> QED BY <2>1, <2>2 DEF Inv, SessionInv, PairsAreWhole
<1>4. WaitersHaveRenewal'
  BY <1>1 DEF Inv, SessionInv, WaitersHaveRenewal, Waiting, Renewing
<1>5. NoRequestActsTwice'
  BY <1>1 DEF Inv, NoRequestActsTwice
<1>6. HoldsToken'
  BY <1>1, Kinds DEF Inv, HoldsToken, Kind
<1>7. Unmixed'
  <2> SUFFICES ASSUME ~mixed'
               PROVE  (OneOperation /\ RenewsStored /\ OperationKnows /\ OutHasNoTokens /\ ShownIsStored)'
    BY DEF Unmixed
  <2>1. OneOperation /\ RenewsStored /\ OperationKnows /\ OutHasNoTokens /\ ShownIsStored
    BY DEF Inv, Unmixed
  <2>2. \A q \in Requests : Kind(q)' = Kind(q) \/ (Kind(q) = "work" /\ Kind(q)' = "none")
    BY <1>1 DEF Kind
  <2>3. OneOperation' /\ RenewsStored'
    BY <2>1, <2>2, Kinds DEF OneOperation, RenewsStored, Renewing
  <2>4. \A q \in Requests : ProfileKnows(q)'
    <3>1. \A q \in Requests : Kind(q) \in Profiles => orgOf'[req[q].token] = orgOf[req[q].token]
      BY DEF ServerMoves, Held, Inv, HoldsToken
    <3>2. ProfileKnows(r)'
      BY <1>1, <2>1, <2>2, <3>1, Kinds DEF OperationKnows, ProfileKnows, Kind
    <3>3. \A q \in Requests \ {r} : ProfileKnows(q)'
      BY <1>1, <2>1, <3>1 DEF OperationKnows, ProfileKnows, Kind
    <3> QED BY <3>2, <3>3
  <2>5. OperationKnows'
    BY <2>1, <2>2, <2>4 DEF OperationKnows
  <2>6. OutHasNoTokens' /\ ShownIsStored'
    BY <2>1, <2>2 DEF OutHasNoTokens, ShownIsStored, HalfSwitched, Kind
  <2> QED BY <2>3, <2>5, <2>6
<1> QED BY <1>2, <1>3, <1>4, <1>5, <1>6, <1>7 DEF Inv, SessionInv

(***************************************************************************)
(* Other people, and the server's answers                                  *)
(***************************************************************************)
LEMMA MembershipSafe ==
    ASSUME Inv,
           \/ \E k \in Tokens : Expire(k)
           \/ \E o \in Orgs : RemoveMember(o) \/ Invite(o)
           \/ AcceptInvite
    PROVE  Inv'
<1>1. ServerMoves
  BY Types DEF Expire, RemoveMember, Invite, AcceptInvite, ServerMoves
<1>2. UNCHANGED <<stored, store, req, refresh, mixed>>
  BY DEF Expire, RemoveMember, Invite, AcceptInvite
<1> QED BY <1>1, <1>2, ServerSafe

\* A call that returns with an answer, or with none.
LEMMA ReturnFields ==
    ASSUME Inv, NEW r \in Requests, NEW pc \in {"back", "denied", "failed"}, NEW o \in AnyOrg
    PROVE  /\ Return(r, pc, o) \in Calls
           /\ Return(r, pc, o).kind = Kind(r) /\ Return(r, pc, o).pc = pc /\ Return(r, pc, o).got = o
           /\ Return(r, pc, o).token = req[r].token /\ Return(r, pc, o).acts = req[r].acts
           /\ Return(r, pc, o).retried = req[r].retried
BY Types DEF Return, Calls, Kind

LEMMA ReturnSafe ==
    ASSUME Inv, NEW r \in Requests, NEW pc \in {"back", "denied", "failed"}, NEW o \in AnyOrg,
           req' = [req EXCEPT ![r] = Return(r, pc, o)],
           UNCHANGED <<serverVars, stored, store, refresh, mixed>>,
           req[r].pc \in {"out", "back", "denied"},
           pc = "denied" => req[r].pc = "out",
           pc = "back" => req[r].pc = "out" /\ Kind(r) \in Profiles /\ o = orgOf[req[r].token]
    PROVE  Inv'
<1>1. PICK c \in Calls : c = Return(r, pc, o)
  BY ReturnFields
<1>2. /\ c.kind = Kind(r) /\ c.pc = pc /\ c.got = o
      /\ c.token = req[r].token /\ c.acts = req[r].acts
  BY <1>1, ReturnFields
<1>3. c.acts <= 1 /\ (c.pc \in {"out", "denied", "waits"} => c.acts = 0)
  BY <1>2 DEF Inv, NoRequestActsTwice
<1>4. Kind(r) # "none" /\ (Kind(r) \in {"login", "switch"} => pc # "back")
  BY Kinds DEF Inv, HoldsToken
<1>5. req' = [req EXCEPT ![r] = c]
  BY <1>1
<1>6. ServerMoves
  BY StaysMoves
<1> QED BY <1>2, <1>3, <1>4, <1>5, <1>6, MoveSafe

LEMMA RefuseSafe ==
    ASSUME Inv, NEW r \in Requests, Refuse(r)
    PROVE  Inv'
<1>1. NoOrg \in AnyOrg
  BY DEF AnyOrg
<1> QED BY <1>1, ReturnSafe DEF Refuse

LEMMA LoseConnectionSafe ==
    ASSUME Inv, NEW r \in Requests, LoseConnection(r)
    PROVE  Inv'
<1>1. NoOrg \in AnyOrg
  BY DEF AnyOrg
<1> QED BY <1>1, ReturnSafe DEF LoseConnection

LEMMA DenyTokensSafe ==
    ASSUME Inv, NEW r \in Requests, DenyTokens(r)
    PROVE  Inv'
<1>1. NoOrg \in AnyOrg
  BY DEF AnyOrg
<1> QED BY <1>1, ReturnSafe DEF DenyTokens

LEMMA ServeProfileSafe ==
    ASSUME Inv, NEW r \in Requests, ServeProfile(r)
    PROVE  Inv'
<1>1. NoOrg \in AnyOrg /\ req[r].token \in Tokens
  BY DEF AnyOrg, ServeProfile, Inv, HoldsToken, Kind
<1>2. orgOf[req[r].token] \in AnyOrg
  BY <1>1, Types
<1>3. CASE req' = [req EXCEPT ![r] = Return(r, "failed", NoOrg)]
  BY <1>1, <1>3, ReturnSafe DEF ServeProfile
<1>4. CASE req' = [req EXCEPT ![r] = Return(r, "back", orgOf[req[r].token])]
  <2>1. PICK o \in AnyOrg : o = orgOf[req[r].token]
    BY <1>2
  <2> QED BY <1>4, <2>1, ReturnSafe DEF ServeProfile, Kind
<1> QED BY <1>3, <1>4 DEF ServeProfile

LEMMA ServeWorkSafe ==
    ASSUME Inv, NEW r \in Requests, ServeWork(r)
    PROVE  Inv'
<1>1. req[r].pc = "out" /\ Kind(r) = "work" /\ req[r].acts = 0 /\ UNCHANGED <<stored, store, refresh, mixed>>
  BY DEF ServeWork, Kind, Inv, NoRequestActsTwice
<1>2. PICK c \in Calls : c = [req[r] EXCEPT !.pc = "back", !.acts = 1]
  BY Types DEF Calls
<1>3. req' = [req EXCEPT ![r] = c]
  BY <1>1, <1>2, Types DEF ServeWork, Calls
<1>4. c.kind = Kind(r) /\ c.pc = "back" /\ c.acts = 1
  BY <1>2, Types DEF Calls, Kind
<1>5. Kind(r) \notin Profiles
  BY <1>1, Kinds
<1>6. ServerMoves
  BY StaysMoves DEF ServeWork
<1>7. c.acts <= 1 /\ (c.pc \in {"out", "denied", "waits"} => c.acts = 0)
  BY <1>4
<1> QED BY <1>1, <1>3, <1>4, <1>5, <1>6, <1>7, MoveSafe

LEMMA ServeTokensSafe ==
    ASSUME Inv, NEW r \in Requests, NEW k \in Tokens, NEW o \in Orgs, ServeTokens(r, k, o)
    PROVE  Inv'
<1>1. /\ req[r].pc = "out" /\ Kind(r) \in {"login", "switch"} /\ req[r].acts = 0
      /\ UNCHANGED <<stored, store, refresh, mixed>>
  BY DEF ServeTokens, Kind, Inv, NoRequestActsTwice
<1>2. PICK c \in Calls : c = [req[r] EXCEPT !.pc = "back", !.token = k]
  BY Types DEF Calls, AnyToken
<1>3. req' = [req EXCEPT ![r] = c]
  BY <1>2 DEF ServeTokens
<1>4. c.kind = Kind(r) /\ c.pc = "back" /\ c.acts = 0 /\ c.token = k
  BY <1>1, <1>2, Types DEF Calls, Kind
<1>5. Kind(r) \notin Profiles
  BY <1>1, Kinds
<1>6. ServerMoves
  BY MintMoves DEF ServeTokens
<1>7. c.acts <= 1 /\ (c.pc \in {"out", "denied", "waits"} => c.acts = 0)
  BY <1>4
<1> QED BY <1>1, <1>3, <1>4, <1>5, <1>6, <1>7, MoveSafe

LEMMA WorkBackSafe ==
    ASSUME Inv, NEW r \in Requests, WorkBack(r)
    PROVE  Inv'
<1>1. /\ req[r].pc = "back" /\ Kind(r) = "work" /\ req' = [req EXCEPT ![r] = Idle]
      /\ UNCHANGED <<stored, store, refresh, mixed>>
  BY DEF WorkBack, Done, Kind
<1>2. Kind(r) \notin Profiles
  BY <1>1, Kinds
<1>3. ServerMoves
  BY StaysMoves DEF WorkBack
<1>4. PICK c \in Calls : c = Idle
  BY IdleSafe
<1>5. req' = [req EXCEPT ![r] = c] /\ c.kind = "none" /\ c.pc = "none" /\ c.acts = 0
  BY <1>1, <1>4, IdleSafe
<1>6. c.acts <= 1 /\ (c.pc \in {"out", "denied", "waits"} => c.acts = 0)
  BY <1>5
<1> QED BY <1>1, <1>2, <1>3, <1>5, <1>6, MoveSafe

(***************************************************************************)
(* Calls are made                                                          *)
(***************************************************************************)
LEMMA CallSafe ==
    ASSUME Inv, NEW r \in Requests, NEW kind \in {"work", "login", "switch"}, NEW o \in AnyOrg,
           Call(r, kind, o), UNCHANGED <<serverVars, stored, store, refresh>>,
           kind = "login" => ~store.in, kind = "switch" => store.in
    PROVE  Inv'
<1>1. PICK c \in Calls : c = [Idle EXCEPT !.kind = kind, !.pc = "out", !.to = o,
                                          !.token = IF kind = "login" THEN NoToken ELSE stored.token]
  <2>1. stored.token \in AnyToken /\ NoToken \in AnyToken /\ kind \in {"none", "work"} \union SessionOps
    BY Types, Kinds DEF AnyToken
  <2> QED BY <2>1, IdleSafe DEF Idle, Calls
<1>2. req' = [req EXCEPT ![r] = c] /\ c.kind = kind /\ c.pc = "out" /\ c.acts = 0 /\ Kind(r) = "none"
  BY <1>1 DEF Call, Idle, Kind
<1>3. req'[r] = c /\ \A q \in Requests \ {r} : req'[q] = req[q]
  BY <1>2, Types
<1>4. kind \notin Profiles
  BY Kinds
<1>5. mixed' = (mixed \/ (kind \in SessionOps /\ Busy))
  BY DEF Call
<1>6. req[r].pc # "waits"
  BY <1>2 DEF Inv, HoldsToken
<1>7. TypeOK'
  BY <1>2, <1>5, Types DEF TypeOK, serverVars
<1>8. PairsAreWhole' /\ WaitersHaveRenewal' /\ NoRequestActsTwice'
  BY <1>2, <1>3, <1>6 DEF serverVars, Inv, SessionInv, PairsAreWhole, WaitersHaveRenewal, Waiting, Renewing,
                          NoRequestActsTwice
<1>9. HoldsToken'
  BY <1>2, <1>3, <1>4 DEF Inv, HoldsToken, Kind
<1>10. Unmixed'
  <2> SUFFICES ASSUME ~mixed'
               PROVE  (OneOperation /\ RenewsStored /\ OperationKnows /\ OutHasNoTokens /\ ShownIsStored)'
    BY DEF Unmixed
  <2>1. /\ OneOperation /\ RenewsStored /\ OperationKnows /\ OutHasNoTokens /\ ShownIsStored
        /\ ~mixed /\ (kind \in SessionOps => ~Busy)
    BY <1>5 DEF Inv, Unmixed
  <2>2. Kind(r)' = kind /\ \A q \in Requests \ {r} : Kind(q)' = Kind(q)
    BY <1>2, <1>3 DEF Kind
  <2>3. OneOperation' /\ RenewsStored'
    BY <1>4, <2>1, <2>2 DEF OneOperation, RenewsStored, Renewing, Busy, Kind
  <2>4. OperationKnows'
    BY <1>2, <1>3, <1>4, <2>1, <2>2 DEF OperationKnows, ProfileKnows, Kind, serverVars
  <2>5. OutHasNoTokens' /\ ShownIsStored'
    BY <1>2, <2>1, <2>2 DEF OutHasNoTokens, ShownIsStored, HalfSwitched, Kind
  <2> QED BY <2>3, <2>4, <2>5
<1> QED BY <1>7, <1>8, <1>9, <1>10 DEF Inv, SessionInv

LEMMA CallsSafe ==
    ASSUME Inv, NEW r \in Requests,
           Work(r) \/ Login(r) \/ \E o \in Orgs : SwitchOrg(r, o)
    PROVE  Inv'
<1>1. NoOrg \in AnyOrg /\ \A o \in Orgs : o \in AnyOrg
  BY DEF AnyOrg
<1> QED BY <1>1, CallSafe DEF Work, Login, SwitchOrg

(***************************************************************************)
(* Answers                                                                 *)
(***************************************************************************)

\* A call ends, and takes the session with it or not.
LEMMA EndSafe ==
    ASSUME Inv, NEW r \in Requests, Done(r), req[r].pc # "waits", UNCHANGED <<serverVars, refresh>>,
           stored' = stored \/ stored' = NoPair,
           store' \in [in : BOOLEAN, org : AnyOrg], ~store'.in => store' = SignedOut,
           mixed' \in BOOLEAN,
           ~mixed' => /\ ~mixed
                      /\ stored' = stored \/ ~Renewing
                      /\ (store'.in <=> store.in) \/ Kind(r) \in SessionOps
                      /\ OutHasNoTokens' /\ ShownIsStored'
    PROVE  Inv'
<1>1. req' = [req EXCEPT ![r] = Idle] /\ req'[r] = Idle /\ \A q \in Requests \ {r} : req'[q] = req[q]
  BY Types DEF Done
<1>2. TypeOK'
  BY <1>1, Types, IdleSafe DEF TypeOK, serverVars
<1>3. PairsAreWhole'
  BY DEF Inv, SessionInv, PairsAreWhole, serverVars, NoPair
<1>4. WaitersHaveRenewal'
  BY <1>1, IdleSafe DEF Inv, SessionInv, WaitersHaveRenewal, Waiting, Renewing
<1>5. NoRequestActsTwice'
  <2>1. req'[r].acts <= 1 /\ (req'[r].pc \in {"out", "denied", "waits"} => req'[r].acts = 0)
    BY <1>1, IdleSafe
  <2> QED BY <1>1, <2>1 DEF Inv, NoRequestActsTwice
<1>6. HoldsToken'
  BY <1>1, IdleSafe, Kinds DEF Inv, HoldsToken, Kind
<1>7. Unmixed'
  <2> SUFFICES ASSUME ~mixed'
               PROVE  (OneOperation /\ RenewsStored /\ OperationKnows)'
    BY DEF Unmixed
  <2>1. OneOperation /\ RenewsStored /\ OperationKnows
    BY DEF Inv, Unmixed
  <2>2. Kind(r)' = "none" /\ \A q \in Requests \ {r} : Kind(q)' = Kind(q)
    BY <1>1, IdleSafe DEF Kind
  <2>3. OneOperation' /\ RenewsStored'
    BY <2>1, <2>2, Kinds DEF OneOperation, RenewsStored, Renewing
  <2>4. (store'.in <=> store.in) \/ \A q \in Requests : Kind(q)' \notin SessionOps
    BY <2>1, <2>2, Kinds DEF OneOperation
  <2>5. \A q \in Requests : ProfileKnows(q)'
    BY <1>1, <2>1, <2>2, Kinds DEF OperationKnows, ProfileKnows, Kind, serverVars, NoPair
  <2>6. OperationKnows'
    BY <2>1, <2>2, <2>4, <2>5, Kinds DEF OperationKnows
  <2> QED BY <2>3, <2>6
<1> QED BY <1>2, <1>3, <1>4, <1>5, <1>6, <1>7 DEF Inv, SessionInv

\* The call was not one that the session hangs on, and changes nothing else.
LEMMA QuietEndSafe ==
    ASSUME Inv, NEW r \in Requests, Done(r), req[r].pc # "waits",
           UNCHANGED <<serverVars, refresh, stored, store>>,
           mixed' \in BOOLEAN, ~mixed' => ~mixed /\ Kind(r) \notin {"loginProfile", "switchProfile"}
    PROVE  Inv'
<1>1. req'[r] = Idle /\ \A q \in Requests \ {r} : req'[q] = req[q]
  BY Types DEF Done
<1>2. ASSUME ~mixed' PROVE OutHasNoTokens' /\ ShownIsStored'
  BY <1>1, <1>2, IdleSafe DEF Inv, Unmixed, OutHasNoTokens, ShownIsStored, HalfSwitched, Kind
<1>3. store' \in [in : BOOLEAN, org : AnyOrg] /\ (~store'.in => store' = SignedOut)
  BY Types DEF Inv, HoldsToken
<1> QED BY <1>2, <1>3, EndSafe

\* The session ends with the call.
LEMMA AbandonSafe ==
    ASSUME Inv, NEW r \in Requests, Done(r), req[r].pc # "waits", UNCHANGED <<serverVars, refresh>>,
           ClearTokens, store' = SignedOut, Kind(r) \in SessionOps,
           mixed' \in BOOLEAN, ~mixed' => ~mixed /\ ~Renewing
    PROVE  Inv'
<1>1. stored' = NoPair /\ store' \in [in : BOOLEAN, org : AnyOrg] /\ ~store'.in
  BY IdleSafe DEF ClearTokens, SignedOut
<1>2. OutHasNoTokens' /\ ShownIsStored'
  BY <1>1 DEF OutHasNoTokens, ShownIsStored
<1> QED BY <1>1, <1>2, EndSafe

LEMMA AbandonKinds ==
    ASSUME NEW r \in Requests
    PROVE  /\ Abandon(r, FALSE) <=> Kind(r) \in {"login", "loginProfile"}
           /\ Abandon(r, TRUE) <=> Kind(r) \in {"login", "loginProfile", "openProfile"}
           /\ HalfSwitched(r) <=> Kind(r) = "switchProfile"
BY DEF Abandon, HalfSwitched, Kind

LEMMA ProfileBackSafe ==
    ASSUME Inv, NEW r \in Requests, ProfileBack(r)
    PROVE  Inv'
<1>1. /\ req[r].pc = "back" /\ Kind(r) \in Profiles /\ Done(r) /\ store' = [in |-> TRUE, org |-> req[r].got]
      /\ UNCHANGED <<serverVars, stored, refresh, mixed>>
  BY DEF ProfileBack, Kind
<1>2. store' \in [in : BOOLEAN, org : AnyOrg] /\ store'.in /\ store'.org = req[r].got
  BY <1>1, Types, CallFields
<1>3. ASSUME ~mixed' PROVE OutHasNoTokens' /\ ShownIsStored'
  <2>1. ProfileKnows(r)
    BY <1>1, <1>3 DEF Inv, Unmixed, OperationKnows
  <2> QED BY <1>1, <1>2, <2>1 DEF ProfileKnows, OutHasNoTokens, ShownIsStored
<1>4. Kind(r) \in SessionOps /\ mixed' \in BOOLEAN
  BY <1>1, Kinds, Types
<1> QED BY <1>1, <1>2, <1>3, <1>4, EndSafe

LEMMA CallFailedSafe ==
    ASSUME Inv, NEW r \in Requests, CallFailed(r)
    PROVE  Inv'
<1>1. req[r].pc = "failed" /\ Done(r) /\ UNCHANGED <<serverVars, refresh>>
  BY DEF CallFailed
<1>2. mixed' = (mixed \/ HalfSwitched(r) \/ (Abandon(r, FALSE) /\ Renewing))
  BY DEF CallFailed
<1>3. CASE Abandon(r, FALSE)
  BY <1>1, <1>2, <1>3, AbandonKinds, AbandonSafe, Kinds DEF CallFailed
<1>4. CASE ~Abandon(r, FALSE)
  BY <1>1, <1>2, <1>4, AbandonKinds, QuietEndSafe DEF CallFailed
<1> QED BY <1>3, <1>4

LEMMA DeniedSafe ==
    ASSUME Inv, NEW r \in Requests, Denied(r)
    PROVE  Inv'
<1>1. req[r].pc = "denied" /\ UNCHANGED serverVars /\ Kind(r) # "none" /\ req[r].acts = 0
  BY DEF Denied, Inv, HoldsToken, NoRequestActsTwice
<1> PICK c \in Calls : c = [req[r] EXCEPT !.pc = "waits"]
  BY Types DEF Calls
<1>2. /\ c.kind = Kind(r) /\ c.pc = "waits" /\ c.token = req[r].token /\ c.acts = 0
      /\ [req EXCEPT ![r].pc = "waits"] = [req EXCEPT ![r] = c]
  BY <1>1, Types DEF Calls, Kind
<1>3. CASE Renewing /\ req' = [req EXCEPT ![r].pc = "waits"] /\ UNCHANGED <<stored, store, refresh, mixed>>
  <2>1. c.acts <= 1 /\ (c.pc \in {"out", "denied", "waits"} => c.acts = 0) /\ ServerMoves
    BY <1>1, <1>2, StaysMoves
  <2> QED BY <1>1, <1>2, <1>3, <2>1, MoveSafe
<1>4. CASE /\ ~Renewing /\ stored.org # NoOrg
           /\ req' = [req EXCEPT ![r].pc = "waits"]
           /\ refresh' = [NoRefresh EXCEPT !.pc = "out", !.org = stored.org]
           /\ UNCHANGED <<stored, store, mixed>>
  <2>1. req'[r] = c /\ \A q \in Requests \ {r} : req'[q] = req[q]
    BY <1>2, <1>4, Types
  <2>2. refresh'.pc = "out" /\ refresh'.org = stored.org
        /\ refresh' \in [pc : {"none", "out", "back", "failed"}, org : AnyOrg, token : AnyToken]
    BY <1>4, Types DEF NoRefresh, AnyToken, AnyOrg
  <2>3. TypeOK'
    BY <1>1, <1>2, <1>4, <2>2, Types DEF TypeOK, serverVars
  <2>4. PairsAreWhole' /\ WaitersHaveRenewal'
    <3>1. PairsAreWhole'
      BY <1>1, <1>4, <2>2 DEF Inv, SessionInv, PairsAreWhole, serverVars
    <3>2. r \in Waiting' /\ Renewing'
      BY <1>2, <2>1, <2>2 DEF Waiting, Renewing
    <3> QED BY <3>1, <3>2 DEF WaitersHaveRenewal
  <2>5. NoRequestActsTwice'
    <3>1. c.acts <= 1
      BY <1>2
    <3> QED BY <1>2, <2>1, <3>1 DEF Inv, NoRequestActsTwice
  <2>6. HoldsToken'
    BY <1>1, <1>2, <1>4, <2>1 DEF Inv, HoldsToken, Kind
  <2>7. Unmixed'
    <3> SUFFICES ASSUME ~mixed'
                 PROVE  (OneOperation /\ RenewsStored /\ OperationKnows /\ OutHasNoTokens /\ ShownIsStored)'
      BY DEF Unmixed
    <3>1. /\ OneOperation /\ OperationKnows /\ OutHasNoTokens /\ ShownIsStored
      BY <1>4 DEF Inv, Unmixed
    <3>2. \A q \in Requests : Kind(q)' = Kind(q)
      BY <1>2, <2>1 DEF Kind
    <3>3. OneOperation' /\ RenewsStored'
      BY <1>4, <2>2, <3>1, <3>2 DEF OneOperation, RenewsStored
    <3>4. OperationKnows'
      BY <1>1, <1>2, <1>4, <2>1, <3>1, <3>2 DEF OperationKnows, ProfileKnows, serverVars
    <3>5. OutHasNoTokens' /\ ShownIsStored'
      BY <1>4, <3>1, <3>2 DEF OutHasNoTokens, ShownIsStored, HalfSwitched, Kind
    <3> QED BY <3>3, <3>4, <3>5
  <2> QED BY <2>3, <2>4, <2>5, <2>6, <2>7 DEF Inv, SessionInv
<1>5. CASE ~Renewing /\ Unauthorised(r) /\ mixed' = (mixed \/ HalfSwitched(r)) /\ UNCHANGED refresh
  <2>1. ClearTokens /\ Done(r) /\ stored' = NoPair
    BY <1>5 DEF Unauthorised, ClearTokens
  <2>2. CASE Abandon(r, TRUE)
    BY <1>1, <1>5, <2>1, <2>2, AbandonKinds, AbandonSafe, Kinds DEF Unauthorised
  <2>3. CASE ~Abandon(r, TRUE)
    <3>1. store' = store
      BY <1>5, <2>3 DEF Unauthorised
    <3>2. OutHasNoTokens' /\ ShownIsStored'
      BY <2>1 DEF OutHasNoTokens, ShownIsStored, NoPair
    <3>3. store' \in [in : BOOLEAN, org : AnyOrg] /\ (~store'.in => store' = SignedOut) /\ mixed' \in BOOLEAN
      BY <1>5, <3>1, Types DEF Inv, HoldsToken
    <3> QED BY <1>1, <1>5, <2>1, <3>1, <3>2, <3>3, EndSafe
  <2> QED BY <2>2, <2>3
<1>6. CASE /\ store' = IF Abandon(r, TRUE) THEN SignedOut ELSE store
           /\ IF Abandon(r, TRUE) THEN ClearTokens ELSE UNCHANGED stored
           /\ Done(r)
           /\ mixed' = (mixed \/ HalfSwitched(r) \/ (Abandon(r, TRUE) /\ Renewing))
           /\ UNCHANGED refresh
  <2>1. CASE Abandon(r, TRUE)
    BY <1>1, <1>6, <2>1, AbandonKinds, AbandonSafe, Kinds
  <2>2. CASE ~Abandon(r, TRUE)
    BY <1>1, <1>6, <2>2, AbandonKinds, QuietEndSafe
  <2> QED BY <2>1, <2>2
<1> QED BY <1>3, <1>4, <1>5, <1>6 DEF Denied

LEMMA TokensBackSafe ==
    ASSUME Inv, NEW r \in Requests, TokensBack(r)
    PROVE  Inv'
<1> DEFINE kind == IF req[r].kind = "login" THEN "loginProfile" ELSE "switchProfile"
<1>1. /\ req[r].pc = "back" /\ Kind(r) \in {"login", "switch"} /\ req[r].token \in Tokens
      /\ UNCHANGED <<serverVars, store, refresh>> /\ mixed' = (mixed \/ Renewing)
  BY DEF TokensBack, Kind, Inv, HoldsToken
<1> PICK k \in Tokens : k = req[r].token
  BY <1>1
<1> PICK c \in Calls : c = [Idle EXCEPT !.kind = kind, !.pc = "out", !.token = k]
  BY IdleSafe, Kinds DEF Idle, Calls, AnyToken
<1>2. /\ c.kind = kind /\ c.pc = "out" /\ c.token = k /\ c.acts = 0 /\ req' = [req EXCEPT ![r] = c]
      /\ stored' = [token |-> k, org |-> orgOf[k]]
  BY DEF TokensBack, SetTokens, Idle
<1>3. req'[r] = c /\ \A q \in Requests \ {r} : req'[q] = req[q]
  BY <1>2, Types
<1>4. stored'.token = k /\ stored'.org = orgOf[k] /\ k # NoToken
      /\ stored' \in [token : AnyToken, org : AnyOrg]
  BY <1>2, Types, SessionAssumption DEF AnyToken
<1>5. Kind(r) = "login" => kind = "loginProfile"
  BY DEF Kind
<1>6. Kind(r) # "login" => kind = "switchProfile"
  BY DEF Kind
<1> HIDE DEF kind
<1>7. TypeOK'
  BY <1>1, <1>2, <1>4, Types DEF TypeOK, serverVars
<1>8. PairsAreWhole' /\ WaitersHaveRenewal'
  BY <1>1, <1>2, <1>3, <1>4 DEF Inv, SessionInv, PairsAreWhole, WaitersHaveRenewal, Waiting, Renewing, serverVars
<1>9. NoRequestActsTwice'
  <2>1. c.acts <= 1
    BY <1>2
  <2> QED BY <1>2, <1>3, <2>1 DEF Inv, NoRequestActsTwice
<1>10. HoldsToken'
  BY <1>1, <1>2, <1>3, <1>5, <1>6 DEF Inv, HoldsToken, Kind
<1>11. Unmixed'
  <2> SUFFICES ASSUME ~mixed'
               PROVE  (OneOperation /\ RenewsStored /\ OperationKnows /\ OutHasNoTokens /\ ShownIsStored)'
    BY DEF Unmixed
  <2>1. OneOperation /\ OperationKnows /\ OutHasNoTokens /\ ~Renewing
    BY <1>1 DEF Inv, Unmixed
  <2>2. Kind(r)' = kind /\ \A q \in Requests \ {r} : Kind(q)' = Kind(q) /\ Kind(q) \notin SessionOps
    BY <1>1, <1>2, <1>3, <2>1, Kinds DEF Kind, OneOperation
  <2>3. OneOperation' /\ RenewsStored'
    BY <1>1, <2>1, <2>2 DEF OneOperation, RenewsStored, Renewing
  <2>4. Kind(r) = "login" => ~store.in
    BY <2>1 DEF OperationKnows
  <2>5. Kind(r) # "login" => store.in
    BY <1>1, <2>1 DEF OperationKnows
  <2>6. ProfileKnows(r)'
    BY <1>1, <1>2, <1>3, <1>4 DEF ProfileKnows, serverVars
  <2>7. OperationKnows'
    BY <1>1, <1>5, <1>6, <2>2, <2>4, <2>5, <2>6, Kinds DEF OperationKnows, ProfileKnows
  <2>8. OutHasNoTokens' /\ ShownIsStored'
    <3>1. CASE Kind(r) = "login"
      BY <1>1, <1>5, <2>2, <2>4, <3>1 DEF OutHasNoTokens, ShownIsStored
    <3>2. CASE Kind(r) # "login"
      BY <1>1, <1>6, <2>2, <2>5, <3>2 DEF OutHasNoTokens, ShownIsStored, HalfSwitched, Kind
    <3> QED BY <3>1, <3>2
  <2> QED BY <2>3, <2>7, <2>8
<1> QED BY <1>7, <1>8, <1>9, <1>10, <1>11 DEF Inv, SessionInv

LEMMA LogoutSafe ==
    ASSUME Inv, Logout
    PROVE  Inv'
<1>1. /\ stored' = NoPair /\ store' = SignedOut /\ ~store'.in /\ mixed' \in BOOLEAN
      /\ UNCHANGED <<serverVars, req, refresh>> /\ (~mixed' => ~Busy /\ ~Renewing)
  BY DEF Logout, ClearTokens, SignedOut
<1>2. TypeOK'
  BY <1>1, Types, IdleSafe DEF TypeOK, serverVars
<1>3. PairsAreWhole' /\ WaitersHaveRenewal' /\ NoRequestActsTwice' /\ HoldsToken'
  BY <1>1 DEF Inv, SessionInv, PairsAreWhole, WaitersHaveRenewal, Waiting, Renewing, NoRequestActsTwice,
              HoldsToken, Kind, serverVars, NoPair
<1>4. Unmixed'
  <2> SUFFICES ASSUME ~mixed'
               PROVE  (OneOperation /\ RenewsStored /\ OperationKnows /\ OutHasNoTokens /\ ShownIsStored)'
    BY DEF Unmixed
  <2>1. \A r \in Requests : Kind(r)' \notin SessionOps
    BY <1>1 DEF Busy, Kind
  <2> QED BY <1>1, <2>1, Kinds DEF OneOperation, RenewsStored, Renewing, OperationKnows, ProfileKnows,
                                   OutHasNoTokens, ShownIsStored
<1> QED BY <1>2, <1>3, <1>4 DEF Inv, SessionInv

LEMMA OpenPageSafe ==
    ASSUME Inv, NEW r \in Requests, OpenPage(r)
    PROVE  Inv'
<1> DEFINE found == stored.token # NoToken /\ ~store.in
           c == [Idle EXCEPT !.kind = "openProfile", !.pc = "out", !.token = stored.token]
<1>1. /\ req' = [q \in Requests |-> IF q = r /\ found THEN c ELSE Idle]
      /\ refresh' = NoRefresh
      /\ store' = [store EXCEPT !.in = @ \/ found]
      /\ mixed' = (mixed \/ \E q \in Requests : HalfSwitched(q))
      /\ UNCHANGED <<serverVars, stored>>
  BY DEF OpenPage
<1>2. c \in Calls /\ c.kind = "openProfile" /\ c.pc = "out" /\ c.token = stored.token /\ c.acts = 0
  BY IdleSafe, Kinds, Types DEF Idle, Calls
<1>3. refresh'.pc = "none"
      /\ refresh' \in [pc : {"none", "out", "back", "failed"}, org : AnyOrg, token : AnyToken]
  BY <1>1 DEF NoRefresh, AnyOrg, AnyToken
<1>4. store' \in [in : BOOLEAN, org : AnyOrg] /\ store'.org = store.org
      /\ (store'.in <=> (store.in \/ found)) /\ (~found => store' = store)
  BY <1>1, Types
<1>5. \A q \in Requests : \/ found /\ q = r /\ req'[q] = c
                          \/ ~(found /\ q = r) /\ req'[q] = Idle
  BY <1>1
<1> HIDE DEF c
<1>6. TypeOK'
  <2>1. req' \in [Requests -> Calls]
    BY <1>1, <1>2, IdleSafe
  <2> QED BY <1>1, <1>3, <1>4, <2>1, Types DEF TypeOK, serverVars
<1>7. PairsAreWhole' /\ WaitersHaveRenewal'
  <2>1. \A q \in Requests : req'[q].pc # "waits"
    BY <1>2, <1>5, IdleSafe
  <2> QED BY <1>1, <1>3, <2>1 DEF Inv, SessionInv, PairsAreWhole, WaitersHaveRenewal, Waiting, Renewing, serverVars
<1>8. NoRequestActsTwice'
  <2>1. \A q \in Requests : req'[q].acts = 0
    BY <1>2, <1>5, IdleSafe
  <2>2. \A q \in Requests : req'[q].acts <= 1
    BY <2>1
  <2> QED BY <2>1, <2>2 DEF NoRequestActsTwice
<1>9. HoldsToken'
  <2>1. found => stored.token \in Tokens
    BY Types DEF AnyToken
  <2>2. ~store'.in => store' = SignedOut
    BY <1>4 DEF Inv, HoldsToken
  <2> QED BY <1>2, <1>5, <2>1, <2>2, IdleSafe, Kinds DEF HoldsToken, Kind
<1>10. Unmixed'
  <2> SUFFICES ASSUME ~mixed'
               PROVE  (OneOperation /\ RenewsStored /\ OperationKnows /\ OutHasNoTokens /\ ShownIsStored)'
    BY DEF Unmixed
  <2>1. ShownIsStored /\ \A q \in Requests : ~HalfSwitched(q)
    BY <1>1 DEF Inv, Unmixed
  <2>2. \A q \in Requests : Kind(q)' \in {"none", "openProfile"} /\ (Kind(q)' = "openProfile" => found /\ q = r)
    BY <1>2, <1>5, IdleSafe DEF Kind
  <2>3. OneOperation' /\ RenewsStored'
    BY <1>3, <2>2, Kinds DEF OneOperation, RenewsStored, Renewing
  <2>4. \A q \in Requests : ProfileKnows(q)'
    BY <1>1, <1>2, <1>5, <2>2, Kinds DEF ProfileKnows, serverVars, Inv, SessionInv, PairsAreWhole
  <2>5. OperationKnows'
    BY <1>4, <2>2, <2>4 DEF OperationKnows
  <2>6. OutHasNoTokens'
    <3>1. stored.token = NoToken => stored = NoPair
      BY Types DEF Inv, SessionInv, PairsAreWhole, NoPair
    <3> QED BY <1>1, <1>4, <3>1 DEF OutHasNoTokens
  <2>7. ShownIsStored'
    <3>1. found => store'.org = NoOrg
      BY <1>4 DEF Inv, HoldsToken, SignedOut
    <3> QED BY <1>1, <1>4, <2>1, <3>1 DEF ShownIsStored
  <2> QED BY <2>3, <2>5, <2>6, <2>7
<1> QED BY <1>6, <1>7, <1>8, <1>9, <1>10 DEF Inv, SessionInv

(***************************************************************************)
(* The renewal                                                             *)
(***************************************************************************)

\* The renewal moves on by itself.
LEMMA RenewalSafe ==
    ASSUME Inv, ServerMoves, UNCHANGED <<stored, store, req, mixed>>, Renewing,
           refresh' \in [pc : {"out", "back", "failed"}, org : AnyOrg, token : AnyToken],
           refresh'.org = refresh.org,
           refresh'.pc = "back" => refresh'.token # NoToken /\ refresh'.org = orgOf'[refresh'.token]
    PROVE  Inv'
<1>1. Renewing' /\ refresh'.pc # "none"
  BY DEF Renewing
<1>2. TypeOK'
  BY Types DEF ServerMoves, TypeOK
<1>3. PairsAreWhole'
  <2>1. stored.token # NoToken => orgOf'[stored.token] = orgOf[stored.token]
    BY Types DEF ServerMoves, Held, AnyToken
  <2> QED BY <2>1 DEF Inv, SessionInv, PairsAreWhole
<1>4. WaitersHaveRenewal' /\ NoRequestActsTwice' /\ HoldsToken'
  BY <1>1 DEF Inv, SessionInv, WaitersHaveRenewal, Waiting, NoRequestActsTwice, HoldsToken, Kind
<1>5. Unmixed'
  <2>1. \A r \in Requests : Kind(r) \in Profiles => orgOf'[req[r].token] = orgOf[req[r].token]
    BY DEF ServerMoves, Held, Inv, HoldsToken
  <2>2. (\A r \in Requests : ProfileKnows(r)) => \A r \in Requests : ProfileKnows(r)'
    BY <2>1 DEF ProfileKnows, Kind
  <2> QED BY <1>1, <2>2 DEF Inv, Unmixed, OneOperation, RenewsStored, OperationKnows, OutHasNoTokens,
                           ShownIsStored, HalfSwitched, Kind
<1> QED BY <1>2, <1>3, <1>4, <1>5 DEF Inv, SessionInv

LEMMA RefreshServeSafe ==
    ASSUME Inv, NEW k \in Tokens, RefreshServe(k)
    PROVE  Inv'
<1>1. /\ refresh.pc = "out" /\ refresh.org \in Orgs /\ Mint(k, refresh.org)
      /\ refresh' = [refresh EXCEPT !.pc = "back", !.token = k]
      /\ UNCHANGED <<member, active, stored, store, req, mixed>>
  BY Types DEF RefreshServe, MayRenew
<1>2. PICK o \in Orgs : o = refresh.org
  BY <1>1
<1>3. ServerMoves /\ orgOf'[k] = o
  BY <1>1, <1>2, MintMoves
<1>4. /\ refresh' \in [pc : {"out", "back", "failed"}, org : AnyOrg, token : AnyToken]
      /\ refresh'.org = refresh.org /\ refresh'.token = k /\ k # NoToken
  BY <1>1, Types, SessionAssumption DEF AnyToken
<1> QED BY <1>1, <1>2, <1>3, <1>4, RenewalSafe DEF Renewing

LEMMA RefreshFailsSafe ==
    ASSUME Inv, RefreshFails
    PROVE  Inv'
<1>1. refresh' = [refresh EXCEPT !.pc = "failed", !.token = NoToken] /\ Renewing
      /\ UNCHANGED <<serverVars, stored, store, req, mixed>>
  BY DEF RefreshFails, Renewing
<1>2. /\ refresh' \in [pc : {"out", "back", "failed"}, org : AnyOrg, token : AnyToken]
      /\ refresh'.org = refresh.org /\ refresh'.pc = "failed"
  BY <1>1, Types DEF AnyToken
<1> QED BY <1>1, <1>2, StaysMoves, RenewalSafe

LEMMA RefreshBackSafe ==
    ASSUME Inv, RefreshBack
    PROVE  Inv'
<1> DEFINE c(r) == [req[r] EXCEPT !.pc = "out", !.token = refresh.token, !.retried = TRUE]
<1>1. /\ refresh.pc = "back" /\ Renewing /\ stored' = [token |-> refresh.token, org |-> orgOf[refresh.token]]
      /\ req' = [r \in Requests |-> IF r \in Waiting THEN c(r) ELSE req[r]]
      /\ refresh' = NoRefresh /\ UNCHANGED <<serverVars, store, mixed>>
  BY DEF RefreshBack, SetTokens, Renewing
<1>2. refresh.token \in Tokens /\ refresh.org = orgOf[refresh.token]
  BY <1>1, Types DEF Inv, SessionInv, PairsAreWhole, AnyToken
<1>3. /\ stored'.token = refresh.token /\ stored'.org = refresh.org /\ stored'.token # NoToken
      /\ stored' \in [token : AnyToken, org : AnyOrg]
  BY <1>1, <1>2, Types, SessionAssumption DEF AnyToken
<1>4. \A r \in Requests : /\ c(r) \in Calls /\ c(r).kind = Kind(r) /\ c(r).pc = "out"
                          /\ c(r).token = refresh.token /\ c(r).acts = req[r].acts
  BY <1>2, Types DEF Calls, Kind, AnyToken
<1>5. \A r \in Requests : \/ r \in Waiting /\ req'[r] = c(r)
                          \/ r \notin Waiting /\ req'[r] = req[r]
  BY <1>1
<1>6. refresh'.pc = "none"
      /\ refresh' \in [pc : {"none", "out", "back", "failed"}, org : AnyOrg, token : AnyToken]
  BY <1>1 DEF NoRefresh, AnyOrg, AnyToken
<1>7. \A r \in Requests : Kind(r)' = Kind(r)
  BY <1>4, <1>5 DEF Kind
<1>8. TypeOK'
  <2>1. req' \in [Requests -> Calls]
    BY <1>1, <1>4, Types
  <2> QED BY <1>1, <1>3, <1>6, <2>1, Types DEF TypeOK, serverVars
<1> HIDE DEF c
<1>9. PairsAreWhole' /\ WaitersHaveRenewal'
  <2>1. \A r \in Requests : req'[r].pc # "waits"
    BY <1>4, <1>5 DEF Waiting
  <2> QED BY <1>1, <1>2, <1>3, <1>6, <2>1 DEF PairsAreWhole, WaitersHaveRenewal, Waiting, Renewing, serverVars
<1>10. NoRequestActsTwice'
  <2>1. \A r \in Requests : /\ req'[r].acts = req[r].acts
                            /\ req'[r].pc \in {"out", "denied", "waits"} => req[r].pc \in {"out", "denied", "waits"}
    BY <1>4, <1>5 DEF Waiting
  <2> QED BY <2>1 DEF Inv, NoRequestActsTwice
<1>11. HoldsToken'
  <2>1. \A r \in Requests : /\ Kind(r) \in Profiles => req'[r].token \in Tokens
                            /\ Kind(r) \in {"login", "switch"} /\ req'[r].pc = "back" => req'[r].token \in Tokens
                            /\ Kind(r) = "none" => req'[r].pc = "none"
    BY <1>2, <1>4, <1>5 DEF Inv, HoldsToken, Waiting
  <2> QED BY <1>1, <1>7, <2>1 DEF Inv, HoldsToken
<1>12. Unmixed'
  <2> SUFFICES ASSUME ~mixed'
               PROVE  (OneOperation /\ RenewsStored /\ OperationKnows /\ OutHasNoTokens /\ ShownIsStored)'
    BY DEF Unmixed
  <2>1. OneOperation /\ OperationKnows /\ OutHasNoTokens /\ ShownIsStored
        /\ refresh.org = stored.org /\ stored.org # NoOrg
    BY <1>1 DEF Inv, Unmixed, RenewsStored
  <2>2. stored'.org = stored.org /\ stored.token # NoToken
    BY <1>3, <2>1 DEF Inv, SessionInv, PairsAreWhole
  <2>3. OneOperation' /\ RenewsStored'
    BY <1>6, <1>7, <2>1 DEF OneOperation, RenewsStored, Renewing
  <2>4. \A r \in Requests : ProfileKnows(r)'
    <3>1. \A r \in Requests : r \in Waiting => ProfileKnows(r)'
      BY <1>1, <1>2, <1>3, <1>4, <1>5 DEF ProfileKnows, serverVars
    <3>2. \A r \in Requests : r \notin Waiting => ProfileKnows(r)'
      BY <1>1, <1>5, <1>7, <2>1, <2>2 DEF OperationKnows, ProfileKnows, serverVars
    <3> QED BY <3>1, <3>2
  <2>5. OperationKnows'
    BY <1>1, <1>7, <2>1, <2>4 DEF OperationKnows
  <2>6. OutHasNoTokens' /\ ShownIsStored'
    <3>1. \A r \in Requests : HalfSwitched(r)' <=> HalfSwitched(r)
      BY <1>7 DEF HalfSwitched, Kind
    <3>2. stored # NoPair
      BY <2>2 DEF NoPair
    <3> QED BY <1>1, <1>7, <2>1, <2>2, <3>1, <3>2 DEF OutHasNoTokens, ShownIsStored
  <2> QED BY <2>3, <2>5, <2>6
<1> QED BY <1>8, <1>9, <1>10, <1>11, <1>12 DEF Inv, SessionInv

LEMMA RefreshGivenUpSafe ==
    ASSUME Inv, RefreshGivenUp
    PROVE  Inv'
<1>1. /\ stored' = NoPair /\ refresh' = NoRefresh /\ UNCHANGED serverVars
      /\ req' = [r \in Requests |-> IF r \in Waiting THEN Idle ELSE req[r]]
      /\ mixed' = (mixed \/ \E r \in Waiting : HalfSwitched(r))
  BY DEF RefreshGivenUp, ClearTokens
<1>2. \/ store' = store
      \/ store' = SignedOut /\ \E r \in Waiting : Kind(r) \in {"login", "loginProfile", "openProfile"}
  BY DEF RefreshGivenUp, Abandon, Kind
<1>3. stored'.token = NoToken /\ stored'.org = NoOrg /\ refresh'.pc = "none"
      /\ refresh' \in [pc : {"none", "out", "back", "failed"}, org : AnyOrg, token : AnyToken]
  BY <1>1 DEF NoPair, NoRefresh, AnyOrg, AnyToken
<1>4. \A r \in Requests : \/ r \in Waiting /\ req'[r] = Idle
                          \/ r \notin Waiting /\ req'[r] = req[r]
  BY <1>1
<1>5. TypeOK'
  <2>1. req' \in [Requests -> Calls]
    BY <1>1, IdleSafe, Types
  <2>2. store' \in [in : BOOLEAN, org : AnyOrg]
    BY <1>2, IdleSafe, Types
  <2> QED BY <1>1, <1>3, <2>1, <2>2, IdleSafe, Types DEF TypeOK, serverVars
<1>6. PairsAreWhole' /\ WaitersHaveRenewal'
  <2>1. \A r \in Requests : req'[r].pc # "waits"
    BY <1>4, IdleSafe DEF Waiting
  <2> QED BY <1>3, <2>1 DEF PairsAreWhole, WaitersHaveRenewal, Waiting, Renewing
<1>7. NoRequestActsTwice'
  <2>1. Idle.acts <= 1 /\ Idle.acts = 0
    BY IdleSafe
  <2> QED BY <1>4, <2>1 DEF Inv, NoRequestActsTwice
<1>8. HoldsToken'
  <2>1. \A r \in Requests : (Kind(r)' = "none" /\ req'[r].pc = "none") \/ req'[r] = req[r]
    BY <1>4, IdleSafe DEF Kind
  <2>2. \A r \in Requests : Kind(r)' = "none" \/ Kind(r)' = Kind(r)
    BY <2>1 DEF Kind
  <2> QED BY <1>2, <2>1, <2>2, Kinds DEF Inv, HoldsToken, Kind, SignedOut
<1>9. Unmixed'
  <2> SUFFICES ASSUME ~mixed'
               PROVE  (OneOperation /\ RenewsStored /\ OperationKnows /\ OutHasNoTokens /\ ShownIsStored)'
    BY DEF Unmixed
  <2>1. OneOperation /\ OperationKnows
    BY <1>1 DEF Inv, Unmixed
  <2>2. \A r \in Requests : Kind(r)' = IF r \in Waiting THEN "none" ELSE Kind(r)
    BY <1>4, IdleSafe DEF Kind
  <2>3. OneOperation' /\ RenewsStored'
    BY <1>3, <2>1, <2>2, Kinds DEF OneOperation, RenewsStored, Renewing
  <2>4. \A r \in Requests : ProfileKnows(r)'
    BY <1>3 DEF ProfileKnows
  <2>5. store' = store \/ \A r \in Requests : Kind(r)' \notin SessionOps
    <3>1. ASSUME NEW r \in Waiting, Kind(r) \in {"login", "loginProfile", "openProfile"}
          PROVE  \A q \in Requests : Kind(q)' \notin SessionOps
      BY <2>1, <2>2, <3>1, Kinds DEF OneOperation, Waiting
    <3> QED BY <1>2, <3>1
  <2>6. OperationKnows'
    BY <2>1, <2>2, <2>4, <2>5, Kinds DEF OperationKnows
  <2>7. OutHasNoTokens' /\ ShownIsStored'
    BY <1>1, <1>3 DEF OutHasNoTokens, ShownIsStored
  <2> QED BY <2>3, <2>6, <2>7
<1> QED BY <1>5, <1>6, <1>7, <1>8, <1>9 DEF Inv, SessionInv

(***************************************************************************)
(* The invariant                                                           *)
(***************************************************************************)
LEMMA InvInit == Init => Inv
<1> SUFFICES ASSUME Init PROVE Inv
  OBVIOUS
<1>1. \A r \in Requests : req[r] = Idle
  BY DEF Init
<1>2. stored.token = NoToken /\ stored.org = NoOrg /\ refresh.pc = "none" /\ ~store.in
  BY DEF Init, NoPair, NoRefresh, SignedOut
<1>3. TypeOK
  BY IdleSafe DEF Init, TypeOK, NoRefresh, AnyOrg, AnyToken
<1>4. PairsAreWhole /\ WaitersHaveRenewal
  BY <1>1, <1>2, IdleSafe DEF PairsAreWhole, WaitersHaveRenewal, Waiting, Renewing
<1>5. NoRequestActsTwice
  <2>1. Idle.acts <= 1 /\ Idle.acts = 0
    BY IdleSafe
  <2> QED BY <1>1, <2>1 DEF NoRequestActsTwice
<1>6. HoldsToken
  BY <1>1, IdleSafe, Kinds DEF Init, HoldsToken, Kind
<1>7. Unmixed
  <2>1. \A r \in Requests : Kind(r) = "none"
    BY <1>1, IdleSafe DEF Kind
  <2>2. stored = NoPair
    BY DEF Init
  <2> QED BY <1>2, <2>1, <2>2, Kinds DEF Unmixed, OneOperation, RenewsStored, Renewing, OperationKnows,
                             ProfileKnows, OutHasNoTokens, ShownIsStored
<1> QED BY <1>3, <1>4, <1>5, <1>6, <1>7 DEF Inv, SessionInv

LEMMA InvStep == Inv /\ [Next]_vars => Inv'
<1> SUFFICES ASSUME Inv, [Next]_vars PROVE Inv'
  OBVIOUS
<1>1. CASE UNCHANGED vars
  BY <1>1, StaysMoves, ServerSafe DEF vars, serverVars
<1>2. CASE \/ \E k \in Tokens : Expire(k)
           \/ \E o \in Orgs : RemoveMember(o) \/ Invite(o)
           \/ AcceptInvite
  BY <1>2, MembershipSafe
<1>3. ASSUME NEW k \in Tokens, RefreshServe(k)
      PROVE  Inv'
  BY <1>3, RefreshServeSafe
<1>4. ASSUME NEW r \in Sessions, Login(r) \/ OpenPage(r) \/ \E o \in Orgs : SwitchOrg(r, o)
      PROVE  Inv'
  <2>1. r \in Requests
    BY SessionAssumption
  <2> QED BY <1>4, <2>1, CallsSafe, OpenPageSafe
<1>5. ASSUME NEW r \in Requests,
             \/ Work(r) \/ Refuse(r) \/ ServeWork(r) \/ ServeProfile(r) \/ DenyTokens(r)
             \/ \E k \in Tokens, o \in Orgs : ServeTokens(r, k, o)
             \/ WorkBack(r) \/ TokensBack(r) \/ ProfileBack(r) \/ CallFailed(r) \/ LoseConnection(r)
             \/ Denied(r)
      PROVE  Inv'
  BY <1>5, CallsSafe, RefuseSafe, ServeWorkSafe, ServeProfileSafe, DenyTokensSafe, ServeTokensSafe,
     WorkBackSafe, TokensBackSafe, ProfileBackSafe, CallFailedSafe, LoseConnectionSafe, DeniedSafe
<1>6. CASE Logout \/ RefreshFails \/ RefreshBack \/ RefreshGivenUp
  BY <1>6, LogoutSafe, RefreshFailsSafe, RefreshBackSafe, RefreshGivenUpSafe
<1> QED BY <1>1, <1>2, <1>3, <1>4, <1>5, <1>6 DEF Next

LEMMA InvAlways == Spec => []Inv
<1>1. Init => Inv
  BY InvInit
<1>2. Inv /\ [Next]_vars => Inv'
  BY InvStep
<1> QED BY <1>1, <1>2, PTL DEF Spec

\* The two tokens belong together, and calls wait only for a renewal that runs.
THEOREM SessionIsSafe == Spec => []SessionInv
<1>1. Inv => SessionInv
  BY DEF Inv
<1> QED BY <1>1, InvAlways, PTL

\* No retry of the client makes the server do the same work twice.
THEOREM CallsActOnce == Spec => []NoRequestActsTwice
<1>1. Inv => NoRequestActsTwice
  BY DEF Inv
<1> QED BY <1>1, InvAlways, PTL

\* While session operations do not meet, the tab shows the organisation its
\* tokens are for.
THEOREM TabShowsItsTokens == Spec => []ShownOrgIsTokenOrg
<1>1. Inv => ShownOrgIsTokenOrg
  <2> SUFFICES ASSUME Inv, Settled, store.in, stored.token # NoToken, store.org # NoOrg
               PROVE  store.org = stored.org /\ store.org = orgOf[stored.token]
    BY DEF ShownOrgIsTokenOrg
  <2>1. \A r \in Requests : ~HalfSwitched(r)
    BY DEF Settled, Busy, HalfSwitched, SessionOps, Profiles
  <2>2. store.org = stored.org
    BY <2>1 DEF Inv, Unmixed, ShownIsStored, Settled
  <2> QED BY <2>2 DEF Inv, SessionInv, PairsAreWhole
<1> QED BY <1>1, InvAlways, PTL

\* A tab that shows no session, with no operation in flight and none that met
\* another or a renewal before, has neither tokens nor a renewal in flight that
\* could bring the session back: only stored tokens are renewed.
THEOREM TabForgetsTokens == Spec => []LoggedOutStaysOut
<1>1. Inv => LoggedOutStaysOut
  <2> SUFFICES ASSUME Inv, ~Busy, ~mixed, ~store.in PROVE stored = NoPair /\ ~Renewing
    BY DEF LoggedOutStaysOut
  <2>1. \A r \in Requests : Kind(r) # "loginProfile"
    BY DEF Busy, Kind, SessionOps, Profiles
  <2>2. stored = NoPair
    BY <2>1 DEF Inv, Unmixed, OutHasNoTokens
  <2>3. ~Renewing
    BY <2>2 DEF Inv, Unmixed, RenewsStored, NoPair
  <2> QED BY <2>2, <2>3
<1> QED BY <1>1, InvAlways, PTL
=============================================================================
