-------------------------- MODULE SubscriptionProofs --------------------------
(***************************************************************************)
(* What no order, repetition or loss of Paystack's events breaks, for      *)
(* every instance of Subscription.                                         *)
(***************************************************************************)
EXTENDS Subscription, TLAPS

\* A cancellation loads the code of a subscription, so the bookkeeping of
\* events holds only as long as that code was paid for.  Inv is inductive; with
\* it SubscriptionInv is, which also follows what is still to take effect.
Inv == EventsInv /\ PaidPlanWasPaid /\ CancelledIsDisabled

Organisations == [plan : Plans, trialUsed : BOOLEAN, code : 0 .. MaxSubs]
Subscriptions == [plan : Plans, st : {"none", "checkout", "active", "disabled"}, at : Nat]
Requests == [op : {"none", "verify", "cancel"} \union Events,
             pc : {"none", "record", "load", "ask", "commit"},
             sub : 0 .. MaxSubs, dirty : SUBSET {"plan", "trialUsed", "code"}]

LEMMA RequestFields ==
    ASSUME NEW r \in Requests
    PROVE  /\ r.op \in {"none", "verify", "cancel"} \union Events
           /\ r.pc \in {"none", "record", "load", "ask", "commit"}
           /\ r.sub \in 0 .. MaxSubs /\ r.dirty \in SUBSET {"plan", "trialUsed", "code"}
BY DEF Requests

LEMMA Types ==
    ASSUME TypeOK
    PROVE  /\ org \in Organisations /\ sub \in [Subs -> Subscriptions]
           /\ req \in [Workers -> Requests]
BY DEF TypeOK, Organisations, Subscriptions, Requests

\* What EventsHaveHappened, ChargesHandledOnce and TrialIsKnown ask of one handler.
Happened(r) ==
    /\ r.op \in Events => r.sub \in Subs /\ Paid(r.sub)
    /\ r.op = "verify" => r.sub \in Subs
    /\ r.op = "verify" /\ r.pc = "commit" => Paid(r.sub)
    /\ r.op = "cancel" /\ r.pc # "load" => r.sub \in Subs /\ Paid(r.sub)
    /\ r.op = "cancel" /\ r.pc = "commit" => sub[r.sub].st = "disabled"

TrialKnown(r) ==
    r.op \in {"charge", "create", "verify"} /\ r.pc \in {"ask", "commit"} /\ "trialUsed" \notin r.dirty
        => org.trialUsed

LEMMA IdleSafe == Idle \in Requests /\ Happened(Idle) /\ TrialKnown(Idle) /\ Idle.op = "none"
BY SubscriptionAssumption DEF Idle, Requests, Events, Happened, TrialKnown

\* A handler moves on and nothing else does, but events that are taken from
\* the queue, references recorded and what history remembers.
LEMMA SessionSafe ==
    ASSUME Inv, NEW w \in Workers, NEW r \in Requests,
           req' = [req EXCEPT ![w] = r],
           UNCHANGED <<org, paystackVars, cancelled>>,
           due' \subseteq due, history \subseteq history', took' = took,
           history' \subseteq Subs, \A s \in history' : Paid(s),
           over' \subseteq Subs, faults' \in 0 .. MaxFaults, disturbed' \in BOOLEAN,
           Happened(r), TrialKnown(r),
           r.op = "charge" /\ r.pc \in {"load", "commit"} =>
              /\ r.sub \in history'
              /\ (PastRecord(w) /\ req[w].sub = r.sub) \/ r.sub \notin history
    PROVE  Inv'
<1>1. req'[w] = r /\ \A v \in Workers \ {w} : req'[v] = req[v]
  BY DEF Inv, EventsInv, TypeOK
<1>2. TypeOK'
  BY DEF Inv, EventsInv, TypeOK, Requests, paystackVars
<1>3. StartedInOrder' /\ PaidPlanWasPaid' /\ CancelledIsDisabled'
  BY DEF Inv, EventsInv, StartedInOrder, PaidPlanWasPaid, CancelledIsDisabled, Paid, paystackVars
<1>4. EventsHaveHappened'
  BY <1>1 DEF Inv, EventsInv, EventsHaveHappened, Happened, Paid, At, paystackVars
<1>5. ChargesHandledOnce'
  BY <1>1 DEF Inv, EventsInv, ChargesHandledOnce, PastRecord
<1>6. TrialIsKnown'
  BY <1>1 DEF Inv, EventsInv, TrialIsKnown, TrialKnown, Writing
<1> QED BY <1>2, <1>3, <1>4, <1>5, <1>6 DEF Inv, EventsInv

(***************************************************************************)
(* Paystack, the pages and the queue                                       *)
(***************************************************************************)

\* What Paystack does leaves what was paid paid, and what was ended ended.
Grows ==
    /\ sub' \in [Subs -> Subscriptions]
    /\ due' \subseteq Events \X Subs
    /\ \A s \in Subs : Paid(s) => Paid(s)' /\ sub'[s].plan = sub[s].plan
    /\ \A s \in Subs : sub[s].st = "disabled" => sub'[s].st = "disabled"
    /\ \A d \in due' : Paid(d[2])'

LEMMA PaystackSafe ==
    ASSUME Inv, Grows, UNCHANGED <<org, history, req, faults, logVars>>,
           started' \in 0 .. MaxSubs, paid' \in Nat, StartedInOrder'
    PROVE  Inv'
<1>1. TypeOK'
  BY DEF Inv, EventsInv, TypeOK, Grows, Subscriptions, logVars
<1>2. EventsHaveHappened'
  BY DEF Inv, EventsInv, TypeOK, EventsHaveHappened, Grows, At, logVars
<1>3. ChargesHandledOnce' /\ TrialIsKnown'
  BY DEF Inv, EventsInv, ChargesHandledOnce, PastRecord, TrialIsKnown, Writing
<1>4. PaidPlanWasPaid'
  <2>1. org' = org /\ (org.code # 0 => org.code \in Subs)
    BY DEF Inv, EventsInv, TypeOK, Subs
  <2> QED BY <2>1 DEF Inv, PaidPlanWasPaid, Grows
<1>5. CancelledIsDisabled'
  BY DEF Inv, EventsInv, TypeOK, CancelledIsDisabled, Grows, logVars
<1> QED BY <1>1, <1>2, <1>3, <1>4, <1>5 DEF Inv, EventsInv

LEMMA PaySafe ==
    ASSUME Inv, NEW s \in Subs, Pay(s)
    PROVE  Inv'
<1> DEFINE old == {t \in Subs : sub[t].st = "active"}
<1>1. sub \in [Subs -> Subscriptions] /\ paid \in Nat
  BY Types DEF Inv, EventsInv, TypeOK
<1>2. /\ sub' = [t \in Subs |-> IF t = s THEN [sub[t] EXCEPT !.st = "active", !.at = paid + 1]
                                ELSE IF t \in old THEN [sub[t] EXCEPT !.st = "disabled"] ELSE sub[t]]
      /\ due' = due \union {<<"charge", s>>, <<"create", s>>} \union {<<"disable", t>> : t \in old}
      /\ sub[s].st = "checkout"
  BY DEF Pay
<1>3. \A t \in Subs : sub'[t] \in Subscriptions /\ sub'[t].plan = sub[t].plan
  <2>1. paid + 1 \in Nat
    BY <1>1
  <2>2. \A r \in Subscriptions, n \in Nat :
           /\ [r EXCEPT !.st = "active", !.at = n] \in Subscriptions
           /\ [r EXCEPT !.st = "active", !.at = n].plan = r.plan
           /\ [r EXCEPT !.st = "disabled"] \in Subscriptions
           /\ [r EXCEPT !.st = "disabled"].plan = r.plan
    BY DEF Subscriptions
  <2> QED BY <1>1, <1>2, <2>1, <2>2
<1>4. sub' \in [Subs -> Subscriptions]
  BY <1>2, <1>3
<1>5. sub'[s].st = "active"
  BY <1>1, <1>2 DEF Subscriptions
<1>6. \A t \in old : sub'[t].st = "disabled"
  BY <1>1, <1>2 DEF Subscriptions
<1>7. \A t \in Subs : t # s /\ t \notin old => sub'[t] = sub[t]
  BY <1>2
<1>8. \A t \in Subs : Paid(t) => Paid(t)'
  BY <1>2, <1>5, <1>6, <1>7 DEF Paid
<1>9. \A t \in Subs : sub[t].st = "disabled" => sub'[t].st = "disabled"
  BY <1>2, <1>7
<1>10. \A d \in due' : d \in Events \X Subs /\ Paid(d[2])'
  <2>1. \A d \in due : d \in Events \X Subs /\ Paid(d[2])'
    BY <1>8 DEF Inv, EventsInv, TypeOK, EventsHaveHappened
  <2>2. <<"charge", s>> \in Events \X Subs /\ <<"create", s>> \in Events \X Subs /\ Paid(s)'
    BY <1>5 DEF Events, Paid
  <2>3. \A t \in old : <<"disable", t>> \in Events \X Subs /\ Paid(t)'
    BY <1>6 DEF Events, Paid
  <2> HIDE DEF old
  <2>4. \A d \in due' : d \in due \/ d = <<"charge", s>> \/ d = <<"create", s>>
                           \/ \E t \in old : d = <<"disable", t>>
    BY <1>2
  <2>5. \A d, t : d = <<"disable", t>> => d[2] = t
    OBVIOUS
  <2>6. \A d : d = <<"charge", s>> \/ d = <<"create", s>> => d \in Events \X Subs /\ d[2] = s
    BY <2>2
  <2> QED BY <2>1, <2>2, <2>3, <2>4, <2>5, <2>6
<1>11. StartedInOrder'
  <2>1. \A t \in Subs : sub'[t].st = "none" <=> sub[t].st = "none"
    BY <1>2, <1>5, <1>6, <1>7
  <2> QED BY <2>1 DEF Pay, Inv, EventsInv, StartedInOrder
<1> HIDE DEF old
<1>12. Grows
  BY <1>3, <1>4, <1>8, <1>9, <1>10 DEF Grows
<1>13. started' = started /\ started \in 0 .. MaxSubs /\ paid' \in Nat
       /\ UNCHANGED <<org, history, req, faults, logVars>>
  <2>1. paid' \in Nat
    <3>1. paid' = paid + 1
      BY DEF Pay
    <3>2. paid \in Nat
      BY <1>1
    <3> QED BY <3>1, <3>2
  <2>2. started' = started /\ UNCHANGED <<org, history, req, faults, logVars>>
    BY DEF Pay
  <2>3. started \in 0 .. MaxSubs
    BY DEF Inv, EventsInv, TypeOK
  <2> QED BY <2>1, <2>2, <2>3
<1> QED BY <1>11, <1>12, <1>13, PaystackSafe

\* A subscription that ends.
LEMMA DisabledGrows ==
    ASSUME Inv, NEW s \in Subs, sub[s].st = "active", Disabled(s), started' = started
    PROVE  Grows /\ StartedInOrder' /\ sub'[s].st = "disabled"
<1>1. sub \in [Subs -> Subscriptions]
  BY Types DEF Inv, EventsInv
<1>2. sub' \in [Subs -> Subscriptions] /\ \A t \in Subs : sub'[t].plan = sub[t].plan
  BY <1>1 DEF Disabled, Subscriptions
<1>3. sub'[s].st = "disabled" /\ \A t \in Subs \ {s} : sub'[t] = sub[t]
  BY <1>1 DEF Disabled, Subscriptions
<1>4. \A t \in Subs : Paid(t) => Paid(t)'
  BY <1>3 DEF Paid
<1>5. \A d \in due' : d \in Events \X Subs /\ Paid(d[2])'
  <2>1. \A d \in due : d \in Events \X Subs /\ Paid(d[2])'
    BY <1>4 DEF Inv, EventsInv, TypeOK, EventsHaveHappened
  <2>2. <<"disable", s>> \in Events \X Subs /\ Paid(s)'
    BY <1>3 DEF Events, Paid
  <2> QED BY <2>1, <2>2 DEF Disabled
<1>6. StartedInOrder'
  BY <1>3 DEF Inv, EventsInv, StartedInOrder
<1> QED BY <1>2, <1>3, <1>4, <1>5, <1>6 DEF Grows

LEMMA EndSubscriptionSafe ==
    ASSUME Inv, NEW s \in Subs, EndSubscription(s)
    PROVE  Inv'
<1>1. started' = started /\ paid' = paid /\ started \in 0 .. MaxSubs /\ paid \in Nat
      /\ UNCHANGED <<org, history, req, faults, logVars>>
  BY DEF EndSubscription, Inv, EventsInv, TypeOK
<1> QED BY <1>1, DisabledGrows, PaystackSafe DEF EndSubscription

LEMMA HandleUpgradeSafe ==
    ASSUME Inv, NEW p \in PaidPlans, HandleUpgrade(p)
    PROVE  Inv'
<1> DEFINE s == started + 1
<1>1. sub \in [Subs -> Subscriptions] /\ started \in 0 .. MaxSubs /\ paid \in Nat
  BY Types DEF Inv, EventsInv, TypeOK
<1>2. s \in Subs /\ sub[s].st = "none" /\ started' = s /\ s \in 0 .. MaxSubs
  BY <1>1, SubscriptionAssumption DEF HandleUpgrade, Subs, Inv, EventsInv, StartedInOrder
<1>3. sub' = [sub EXCEPT ![s] = [plan |-> p, st |-> "checkout", at |-> 0]]
  BY DEF HandleUpgrade
<1>4. [plan |-> p, st |-> "checkout", at |-> 0] \in Subscriptions
  BY DEF Subscriptions, Plans
<1>5. sub' \in [Subs -> Subscriptions] /\ sub'[s].st = "checkout"
  BY <1>1, <1>2, <1>3, <1>4
<1>6. \A t \in Subs : t # s => sub'[t] = sub[t]
  BY <1>1, <1>3
<1>7. StartedInOrder'
  <2>1. \A t \in Subs : t <= s <=> t = s \/ t <= started
    BY <1>1 DEF Subs
  <2> HIDE DEF s
  <2> QED BY <1>2, <1>5, <1>6, <2>1 DEF Inv, EventsInv, StartedInOrder
<1> HIDE DEF s
<1>8. \A t \in Subs : Paid(t) => Paid(t)' /\ sub'[t] = sub[t]
  BY <1>2, <1>6 DEF Paid
<1>9. due' = due /\ UNCHANGED <<org, history, req, faults, logVars>> /\ paid' = paid
  BY DEF HandleUpgrade
<1>10. Grows
  BY <1>2, <1>5, <1>6, <1>8, <1>9 DEF Grows, Inv, EventsInv, TypeOK, EventsHaveHappened
<1> QED BY <1>1, <1>2, <1>7, <1>9, <1>10, PaystackSafe

\* A handler starts, whether the event that starts it stays in the queue or not.
LEMMA BeginSafe ==
    ASSUME Inv, NEW w \in Workers, NEW r \in Requests, Begin(w, r),
           UNCHANGED <<org, history, paystackVars, logVars>>,
           due' \subseteq due, faults' \in 0 .. MaxFaults,
           Happened(r), r.pc \in {"load", "record"}, r.op = "charge" => r.pc = "record"
    PROVE  Inv'
<1>1. /\ history \subseteq Subs /\ over \subseteq Subs /\ disturbed \in BOOLEAN
      /\ \A s \in history : Paid(s)
  BY DEF Inv, EventsInv, TypeOK, EventsHaveHappened
<1>2. TrialKnown(r)
  BY DEF TrialKnown
<1> QED BY <1>1, <1>2, SessionSafe DEF Begin, logVars

LEMMA VerifyCheckoutSafe ==
    ASSUME Inv, NEW w \in Workers, NEW s \in Subs, VerifyCheckout(w, s)
    PROVE  Inv'
<1> DEFINE r == [Idle EXCEPT !.op = "verify", !.pc = "load", !.sub = s]
<1>1. s \in 0 .. MaxSubs
  BY DEF Subs
<1>2. r \in Requests /\ r.op = "verify" /\ r.pc = "load" /\ r.sub = s
  BY <1>1, IdleSafe DEF Idle, Requests
<1>3. Begin(w, r) /\ UNCHANGED <<org, history, paystackVars, due, faults, logVars>>
  BY DEF VerifyCheckout
<1> HIDE DEF r
<1>4. Happened(r)
  BY <1>2 DEF Happened, Events
<1> QED BY <1>2, <1>3, <1>4, BeginSafe DEF Inv, EventsInv, TypeOK

LEMMA HandleCancelSubscriptionSafe ==
    ASSUME Inv, NEW w \in Workers, HandleCancelSubscription(w)
    PROVE  Inv'
<1> DEFINE r == [Idle EXCEPT !.op = "cancel", !.pc = "load"]
<1>1. r \in Requests /\ r.op = "cancel" /\ r.pc = "load"
  BY IdleSafe DEF Idle, Requests
<1>2. Begin(w, r) /\ UNCHANGED <<org, history, paystackVars, due, faults, logVars>>
  BY DEF HandleCancelSubscription
<1> HIDE DEF r
<1>3. Happened(r)
  BY <1>1 DEF Happened, Events
<1> QED BY <1>1, <1>2, <1>3, BeginSafe DEF Inv, EventsInv, TypeOK

LEMMA DeliverSafe ==
    ASSUME Inv, NEW w \in Workers, NEW e \in Events, NEW s \in Subs, Deliver(w, e, s)
    PROVE  Inv'
<1> DEFINE r == [Idle EXCEPT !.op = e, !.pc = IF e = "charge" THEN "record" ELSE "load", !.sub = s]
<1>1. s \in 0 .. MaxSubs
  BY DEF Subs
<1>2. /\ r \in Requests /\ r.op = e /\ r.pc = (IF e = "charge" THEN "record" ELSE "load")
      /\ r.sub = s
  BY <1>1, IdleSafe DEF Idle, Requests
<1>3. Begin(w, r) /\ UNCHANGED <<org, history, paystackVars, logVars>>
  BY DEF Deliver
<1>4. due' \subseteq due /\ faults' \in 0 .. MaxFaults
  BY SubscriptionAssumption DEF Deliver, Fault, Inv, EventsInv, TypeOK
<1>5. Paid(s)
  BY DEF Deliver, Inv, EventsInv, EventsHaveHappened
<1> HIDE DEF r
<1>6. Happened(r)
  BY <1>2, <1>5 DEF Happened, Events
<1> QED BY <1>2, <1>3, <1>4, <1>6, BeginSafe

(***************************************************************************)
(* Handlers before they commit                                             *)
(***************************************************************************)

\* What each handler makes of the organisation.
LEMMA BecomesWhat ==
    ASSUME TypeOK, NEW op, NEW s \in Subs
    PROVE  /\ Becomes(op, s) \in Organisations
           /\ op \in {"charge", "create", "verify"} =>
                 /\ Becomes(op, s).plan = sub[s].plan /\ Becomes(op, s).trialUsed = TRUE
                 /\ Becomes(op, s).code = IF op = "create" THEN s ELSE org.code
           /\ op \notin {"charge", "create", "verify"} =>
                 /\ Becomes(op, s).plan = "free" /\ Becomes(op, s).code = 0
                 /\ Becomes(op, s).trialUsed = org.trialUsed
<1>1. org \in Organisations /\ sub[s].plan \in Plans /\ s \in 0 .. MaxSubs /\ 0 \in 0 .. MaxSubs
      /\ "free" \in Plans
  BY Types, SubscriptionAssumption DEF Subscriptions, Subs, Plans
<1>2. Activated(org, s) \in Organisations /\ Downgraded(org) \in Organisations
  BY <1>1 DEF Activated, Downgraded, Organisations
<1>3. [Activated(org, s) EXCEPT !.code = s] \in Organisations
  BY <1>1, <1>2 DEF Organisations
<1>4. CASE op \in {"charge", "verify"}
  BY <1>1, <1>2, <1>4 DEF Becomes, Activated, Organisations
<1>5. CASE op = "create"
  BY <1>1, <1>3, <1>5 DEF Becomes, Activated, Organisations
<1>6. CASE op \notin {"charge", "create", "verify"}
  BY <1>1, <1>2, <1>6 DEF Becomes, Downgraded, Organisations
<1> QED BY <1>4, <1>5, <1>6

LEMMA OrgDomain ==
    ASSUME NEW o \in Organisations
    PROVE  DOMAIN o = {"plan", "trialUsed", "code"}
BY DEF Organisations

LEMMA LoadSafe ==
    ASSUME Inv, NEW w \in Workers, NEW s \in Subs, NEW next \in {"ask", "commit"}, Load(w, s, next),
           UNCHANGED <<org, history, paystackVars, due, faults, took, over, cancelled>>,
           req[w].op # "none",
           req[w].op # "verify" => Paid(s),
           req[w].op \in {"verify", "cancel"} => next = "ask",
           req[w].op = "charge" => PastRecord(w) /\ s = req[w].sub
    PROVE  Inv'
<1> DEFINE D == {a \in DOMAIN org : Becomes(req[w].op, s)[a] # org[a]}
           r == [req[w] EXCEPT !.pc = next, !.sub = s, !.dirty = D]
<1>1. TypeOK /\ req[w] \in Requests /\ org \in Organisations
  BY Types DEF Inv, EventsInv
<1>2. D \in SUBSET {"plan", "trialUsed", "code"}
  BY <1>1, OrgDomain
<1>3. /\ r \in Requests /\ r.op = req[w].op /\ r.pc = next /\ r.sub = s /\ r.dirty = D
  <2> HIDE DEF D
  <2>1. s \in 0 .. MaxSubs
    BY DEF Subs
  <2> QED BY <1>1, <1>2, <2>1 DEF Requests
<1>4. req' = [req EXCEPT ![w] = r]
  BY <1>1 DEF Load, TypeOK
<1>5. "trialUsed" \notin D => Becomes(req[w].op, s).trialUsed = org.trialUsed
  BY <1>1, OrgDomain DEF Organisations
<1>6. disturbed' \in BOOLEAN
  BY DEF Load
<1> HIDE DEF D, r
<1>7. TrialKnown(r)
  BY <1>1, <1>3, <1>5, BecomesWhat DEF TrialKnown
<1>8. Happened(r)
  BY <1>1, <1>3, RequestFields DEF Happened, Events
<1>9. /\ history \subseteq Subs /\ over \subseteq Subs /\ faults \in 0 .. MaxFaults
      /\ \A t \in history : Paid(t)
      /\ req[w].op = "charge" => s \in history
  BY DEF Inv, EventsInv, TypeOK, EventsHaveHappened, ChargesHandledOnce
<1> QED BY <1>3, <1>4, <1>6, <1>7, <1>8, <1>9, SessionSafe

\* A handler that stops where it is.
LEMMA EndSafe ==
    ASSUME Inv, NEW w \in Workers, End(w),
           UNCHANGED <<org, history, paystackVars, due, took, cancelled>>,
           over' \subseteq Subs, faults' \in 0 .. MaxFaults, disturbed' \in BOOLEAN
    PROVE  Inv'
<1>1. history \subseteq Subs /\ \A s \in history : Paid(s)
  BY DEF Inv, EventsInv, TypeOK, EventsHaveHappened
<1> QED BY <1>1, IdleSafe, SessionSafe DEF End

\* What a handler knows of its subscription.
LEMMA HandlerKnows ==
    ASSUME Inv, NEW w \in Workers
    PROVE  req[w] \in Requests /\ Happened(req[w]) /\ TrialKnown(req[w])
BY Types DEF Inv, EventsInv, EventsHaveHappened, TrialIsKnown, Happened, TrialKnown, At, Writing

\* The reference of a charge is recorded by one handler.
LEMMA ChargeRecordSafe ==
    ASSUME Inv, NEW w \in Workers, ChargeRecord(w)
    PROVE  Inv'
<1>1. req[w] \in Requests /\ Happened(req[w]) /\ At(w, "charge", "record")
  BY HandlerKnows DEF ChargeRecord
<1>2. over \subseteq Subs /\ faults \in 0 .. MaxFaults /\ disturbed \in BOOLEAN
  BY DEF Inv, EventsInv, TypeOK
<1>3. CASE End(w) /\ UNCHANGED history
  BY <1>2, <1>3, EndSafe DEF ChargeRecord, logVars
<1>4. CASE /\ req[w].sub \notin history
           /\ history' = history \union {req[w].sub}
           /\ req' = [req EXCEPT ![w].pc = "load"]
  <2> DEFINE r == [req[w] EXCEPT !.pc = "load"]
  <2>1. /\ r \in Requests /\ r.op = "charge" /\ r.pc = "load" /\ r.sub = req[w].sub
    BY <1>1 DEF Requests, At
  <2>2. req' = [req EXCEPT ![w] = r]
    BY <1>4 DEF Inv, EventsInv, TypeOK
  <2> HIDE DEF r
  <2>3. req[w].sub \in Subs /\ Paid(req[w].sub)
    BY <1>1 DEF Happened, At, Events
  <2>4. Happened(r) /\ TrialKnown(r)
    BY <2>1, <2>3 DEF Happened, TrialKnown, Events
  <2>5. history' \subseteq Subs /\ \A s \in history' : Paid(s)
    BY <1>4, <2>3 DEF Inv, EventsInv, TypeOK, EventsHaveHappened
  <2>6. UNCHANGED <<org, paystackVars, due, faults, took, over, cancelled, disturbed>>
    BY DEF ChargeRecord, logVars
  <2> QED BY <1>2, <1>4, <2>1, <2>2, <2>4, <2>5, <2>6, SessionSafe
<1> QED BY <1>3, <1>4 DEF ChargeRecord

LEMMA ChargeLoadSafe ==
    ASSUME Inv, NEW w \in Workers, ChargeLoad(w)
    PROVE  Inv'
<1>1. Happened(req[w]) /\ At(w, "charge", "load") /\ PastRecord(w)
  BY HandlerKnows DEF ChargeLoad, At, PastRecord
<1>2. req[w].op = "charge" /\ req[w].sub \in Subs /\ Paid(req[w].sub)
  BY <1>1 DEF Happened, At, Events
<1> QED BY <1>1, <1>2, LoadSafe DEF ChargeLoad

LEMMA SubscriptionCreateLoadSafe ==
    ASSUME Inv, NEW w \in Workers, SubscriptionCreateLoad(w)
    PROVE  Inv'
<1>1. Happened(req[w]) /\ At(w, "create", "load")
  BY HandlerKnows DEF SubscriptionCreateLoad
<1>2. req[w].op = "create" /\ req[w].sub \in Subs /\ Paid(req[w].sub)
  BY <1>1 DEF Happened, At, Events
<1> QED BY <1>2, LoadSafe DEF SubscriptionCreateLoad

LEMMA SubscriptionDisableLoadSafe ==
    ASSUME Inv, NEW w \in Workers, SubscriptionDisableLoad(w)
    PROVE  Inv'
<1>1. Happened(req[w]) /\ At(w, "disable", "load")
  BY HandlerKnows DEF SubscriptionDisableLoad
<1>2. req[w].op = "disable" /\ req[w].sub \in Subs /\ Paid(req[w].sub)
  BY <1>1 DEF Happened, At, Events
<1>3. CASE Replaced(req[w].sub)
  BY <1>2, <1>3, EndSafe DEF SubscriptionDisableLoad, Inv, EventsInv, TypeOK
<1>4. CASE ~Replaced(req[w].sub)
  BY <1>2, <1>4, LoadSafe DEF SubscriptionDisableLoad
<1> QED BY <1>3, <1>4

LEMMA VerifyLoadSafe ==
    ASSUME Inv, NEW w \in Workers, VerifyLoad(w)
    PROVE  Inv'
<1>1. Happened(req[w]) /\ At(w, "verify", "load")
  BY HandlerKnows DEF VerifyLoad
<1>2. req[w].op = "verify" /\ req[w].sub \in Subs
  BY <1>1 DEF Happened, At
<1> QED BY <1>2, LoadSafe DEF VerifyLoad

LEMMA VerifyAskSafe ==
    ASSUME Inv, NEW w \in Workers, VerifyAsk(w)
    PROVE  Inv'
<1>1. /\ req[w] \in Requests /\ Happened(req[w]) /\ TrialKnown(req[w])
      /\ req[w].op = "verify" /\ req[w].pc = "ask"
  BY HandlerKnows DEF VerifyAsk, At
<1>2. /\ over \subseteq Subs /\ faults \in 0 .. MaxFaults /\ disturbed \in BOOLEAN
      /\ history \subseteq Subs /\ \A s \in history : Paid(s)
  BY DEF Inv, EventsInv, TypeOK, EventsHaveHappened
<1>3. UNCHANGED <<org, history, paystackVars, due, faults, took, over, cancelled, disturbed>>
  BY DEF VerifyAsk, logVars
<1>4. CASE Paid(req[w].sub) /\ req' = [req EXCEPT ![w].pc = "commit"]
  <2> DEFINE r == [req[w] EXCEPT !.pc = "commit"]
  <2>1. /\ r \in Requests /\ r.op = "verify" /\ r.pc = "commit" /\ r.sub = req[w].sub
        /\ r.dirty = req[w].dirty
    BY <1>1 DEF Requests
  <2>2. req' = [req EXCEPT ![w] = r]
    BY <1>4 DEF Inv, EventsInv, TypeOK
  <2> HIDE DEF r
  <2>3. Happened(r) /\ TrialKnown(r)
    BY <1>1, <1>4, <2>1 DEF Happened, TrialKnown, Events
  <2> QED BY <1>2, <1>3, <2>1, <2>2, <2>3, SessionSafe
<1>5. CASE End(w)
  BY <1>2, <1>3, <1>5, EndSafe
<1> QED BY <1>4, <1>5 DEF VerifyAsk

\* A code that is stored was paid for, so it can be cancelled.
LEMMA CancelLoadSafe ==
    ASSUME Inv, NEW w \in Workers, CancelLoad(w)
    PROVE  Inv'
<1>1. req[w].op = "cancel"
  BY DEF CancelLoad, At
<1>2. CASE org.code = 0
  BY <1>1, <1>2, EndSafe DEF CancelLoad, Inv, EventsInv, TypeOK
<1>3. CASE org.code # 0
  <2>1. org.code \in Subs /\ Paid(org.code)
    BY <1>3 DEF Inv, EventsInv, TypeOK, PaidPlanWasPaid, Subs
  <2> QED BY <1>1, <1>3, <2>1, LoadSafe DEF CancelLoad
<1> QED BY <1>2, <1>3

LEMMA CrashSafe ==
    ASSUME Inv, NEW w \in Workers, Crash(w)
    PROVE  Inv'
<1>1. faults' \in 0 .. MaxFaults /\ over' \subseteq Subs /\ disturbed' \in BOOLEAN
  BY SubscriptionAssumption DEF Crash, Fault, Inv, EventsInv, TypeOK
<1> QED BY <1>1, EndSafe DEF Crash

\* Paystack ends the subscription before the handler commits.
LEMMA CancelAskSafe ==
    ASSUME Inv, NEW w \in Workers, CancelAsk(w)
    PROVE  Inv'
<1>1. /\ req[w] \in Requests /\ Happened(req[w]) /\ req[w].op = "cancel" /\ req[w].pc = "ask"
      /\ req[w].sub \in Subs
  BY HandlerKnows DEF CancelAsk, At, Happened
<1>2. UNCHANGED <<org, history, started, paid, faults, took, over, cancelled, disturbed>>
  BY DEF CancelAsk, logVars
<1>3. CASE /\ sub[req[w].sub].st = "active"
           /\ Disabled(req[w].sub)
           /\ req' = [req EXCEPT ![w].pc = "commit"]
  <2>0. PICK r : r = [req[w] EXCEPT !.pc = "commit"]
    OBVIOUS
  <2>1. /\ r \in Requests /\ r.op = "cancel" /\ r.pc = "commit" /\ r.sub = req[w].sub
        /\ r.dirty = req[w].dirty
    BY <1>1, <2>0 DEF Requests
  <2>2. req' = [req EXCEPT ![w] = r]
    BY <1>3, <2>0 DEF Inv, EventsInv, TypeOK
  <2>3. req'[w] = r /\ \A v \in Workers \ {w} : req'[v] = req[v]
    BY <2>2 DEF Inv, EventsInv, TypeOK
  <2>4. Grows /\ StartedInOrder' /\ sub'[req[w].sub].st = "disabled"
    BY <1>1, <1>2, <1>3, DisabledGrows
  <2>5. TypeOK'
    BY <1>2, <2>1, <2>2, <2>4 DEF Inv, EventsInv, TypeOK, Grows, Subscriptions, Requests
  <2>6. EventsHaveHappened'
    <3>1. \A t \in Subs : Paid(t) => sub'[t].st \in {"active", "disabled"}
      BY <2>4 DEF Grows, Paid
    <3>2. r.sub \in Subs /\ sub'[r.sub].st = "disabled"
      BY <1>1, <2>1, <2>4
    <3>3. \A v \in Workers :
             /\ req'[v].op \in Events =>
                   req'[v].sub \in Subs /\ sub'[req'[v].sub].st \in {"active", "disabled"}
             /\ req'[v].op = "verify" => req'[v].sub \in Subs
             /\ req'[v].op = "verify" /\ req'[v].pc = "commit" =>
                   sub'[req'[v].sub].st \in {"active", "disabled"}
             /\ req'[v].op = "cancel" /\ req'[v].pc # "load" =>
                   req'[v].sub \in Subs /\ sub'[req'[v].sub].st \in {"active", "disabled"}
             /\ req'[v].op = "cancel" /\ req'[v].pc = "commit" => sub'[req'[v].sub].st = "disabled"
      <4>1. ASSUME NEW v \in Workers \ {w}
            PROVE  Happened(req[v]) /\ req'[v] = req[v]
        BY <2>3, HandlerKnows
      <4> QED BY <2>1, <2>3, <2>4, <3>1, <3>2, <4>1 DEF Happened, Grows, Events
    <3>4. /\ \A d \in due' : Paid(d[2])'
          /\ \A s \in history' \union took' : Paid(s)'
      BY <1>2, <2>4 DEF Inv, EventsInv, TypeOK, EventsHaveHappened, Grows
    <3> QED BY <3>3, <3>4 DEF EventsHaveHappened, At, Paid
  <2>7. ChargesHandledOnce' /\ TrialIsKnown'
    BY <1>2, <2>1, <2>3 DEF Inv, EventsInv, ChargesHandledOnce, PastRecord, TrialIsKnown, Writing
  <2>8. PaidPlanWasPaid'
    <3>1. org' = org /\ (org.code # 0 => org.code \in Subs)
      BY <1>2 DEF Inv, EventsInv, TypeOK, Subs
    <3> QED BY <2>4, <3>1 DEF Inv, PaidPlanWasPaid, Grows
  <2>9. CancelledIsDisabled'
    BY <1>2, <2>4 DEF Inv, EventsInv, TypeOK, CancelledIsDisabled, Grows
  <2> QED BY <2>4, <2>5, <2>6, <2>7, <2>8, <2>9 DEF Inv, EventsInv
<1>4. CASE End(w) /\ UNCHANGED <<sub, due>>
  BY <1>2, <1>4, EndSafe DEF paystackVars, Inv, EventsInv, TypeOK
<1> QED BY <1>3, <1>4 DEF CancelAsk

(***************************************************************************)
(* Handlers that commit                                                    *)
(***************************************************************************)

\* The attributes a commit leaves behind, one by one.
LEMMA CommitWrites ==
    ASSUME TypeOK, NEW w \in Workers, Commit(w), req[w].sub \in Subs,
           NEW n, n = Becomes(req[w].op, req[w].sub)
    PROVE  /\ org' \in Organisations
           /\ org'.plan = IF "plan" \in req[w].dirty THEN n.plan ELSE org.plan
           /\ org'.trialUsed = IF "trialUsed" \in req[w].dirty THEN n.trialUsed ELSE org.trialUsed
           /\ org'.code = IF "code" \in req[w].dirty THEN n.code ELSE org.code
<1>1. org \in Organisations /\ n \in Organisations
  BY Types, BecomesWhat
<1>2. DOMAIN org = {"plan", "trialUsed", "code"}
  BY <1>1, OrgDomain
<1>3. org' = [a \in {"plan", "trialUsed", "code"} |-> IF a \in req[w].dirty THEN n[a] ELSE org[a]]
  BY <1>2 DEF Commit
<1>4. org' = [plan |-> IF "plan" \in req[w].dirty THEN n.plan ELSE org.plan,
              trialUsed |-> IF "trialUsed" \in req[w].dirty THEN n.trialUsed ELSE org.trialUsed,
              code |-> IF "code" \in req[w].dirty THEN n.code ELSE org.code]
  BY <1>3
<1> QED BY <1>1, <1>4 DEF Organisations

\* Whatever was loaded before and written since, a commit leaves an
\* organisation whose plan was paid for.
LEMMA CommitSafe ==
    ASSUME Inv, NEW w \in Workers, Commit(w), req[w].op # "none", req[w].pc = "commit",
           UNCHANGED <<history, paystackVars, due, faults>>,
           took' \subseteq took \union {s \in Subs : Paid(s)}, over' \subseteq Subs,
           cancelled' \subseteq cancelled \union {s \in Subs : sub[s].st = "disabled"},
           disturbed' \in BOOLEAN
    PROVE  Inv'
<1> DEFINE s == req[w].sub
           n == Becomes(req[w].op, s)
<1>1. TypeOK /\ PaidPlanWasPaid
  BY DEF Inv, EventsInv
<1>2. req[w].op \in {"verify", "cancel"} \union Events
  BY HandlerKnows, RequestFields
<1>3. s \in Subs /\ Paid(s)
  BY <1>2, HandlerKnows DEF Happened, Events
<1>4. org \in Organisations /\ n \in Organisations
  BY <1>1, <1>3, Types, BecomesWhat
<1>5. /\ org' \in Organisations
      /\ org'.plan = IF "plan" \in req[w].dirty THEN n.plan ELSE org.plan
      /\ org'.trialUsed = IF "trialUsed" \in req[w].dirty THEN n.trialUsed ELSE org.trialUsed
      /\ org'.code = IF "code" \in req[w].dirty THEN n.code ELSE org.code
  BY <1>1, <1>3, CommitWrites
<1>6. /\ PaidPlanWasPaid'
      /\ org.trialUsed => org'.trialUsed
  <2>1. \A t \in Subs : Paid(t)' <=> Paid(t)
    BY DEF Paid, paystackVars
  <2>2. sub' = sub /\ (org.code # 0 => org.code \in Subs)
    BY <1>1 DEF TypeOK, Subs, paystackVars
  <2>3. CASE req[w].op \in {"charge", "create", "verify"}
    <3>0. /\ n.plan = sub[s].plan /\ n.trialUsed = TRUE
          /\ n.code = IF req[w].op = "create" THEN s ELSE org.code
      <4>1. TypeOK /\ s \in Subs
        BY <1>1, <1>3
      <4> HIDE DEF s
      <4> QED BY <2>3, <4>1, BecomesWhat
    <3>1. n.plan = sub[s].plan /\ n.trialUsed = TRUE /\ n.code \in {s, org.code}
      <4> HIDE DEF s, n
      <4> QED BY <3>0
    <3>2. "trialUsed" \notin req[w].dirty => org.trialUsed
      BY <2>3, HandlerKnows DEF TrialKnown
    <3> HIDE DEF s, n
    <3>3. org'.trialUsed
      BY <1>5, <3>1, <3>2
    <3>4. org'.plan # "free" => \E t \in Subs : Paid(t) /\ sub[t].plan = org'.plan
      BY <1>1, <1>3, <1>5, <3>1 DEF PaidPlanWasPaid
    <3>5. org'.code # 0 => org'.code \in Subs /\ Paid(org'.code)
      BY <1>1, <1>3, <1>5, <2>2, <3>1 DEF PaidPlanWasPaid
    <3> QED BY <2>1, <2>2, <3>3, <3>4, <3>5 DEF PaidPlanWasPaid
  <2>4. CASE req[w].op \notin {"charge", "create", "verify"}
    <3>1. n.plan = "free" /\ n.code = 0 /\ n.trialUsed = org.trialUsed
      <4>1. TypeOK /\ s \in Subs
        BY <1>1, <1>3
      <4> HIDE DEF s
      <4> QED BY <2>4, <4>1, BecomesWhat
    <3> HIDE DEF s, n
    <3>2. /\ org'.trialUsed = org.trialUsed /\ org'.plan \in {"free", org.plan}
          /\ org'.code \in {0, org.code}
      BY <1>5, <3>1
    <3> QED BY <1>1, <2>1, <2>2, <3>2 DEF PaidPlanWasPaid
  <2> QED BY <2>3, <2>4
<1> HIDE DEF s, n
<1>7. req' = [req EXCEPT ![w] = Idle] /\ Idle \in Requests /\ Idle.op = "none" /\ Idle.pc = "none"
  BY IdleSafe DEF Commit, Idle
<1>8. req'[w] = Idle /\ \A v \in Workers \ {w} : req'[v] = req[v]
  BY <1>1, <1>7 DEF TypeOK
<1>9. TypeOK'
  BY <1>1, <1>5, <1>7 DEF TypeOK, Organisations, Requests, paystackVars
<1>10. StartedInOrder' /\ CancelledIsDisabled'
  BY DEF Inv, EventsInv, StartedInOrder, CancelledIsDisabled, paystackVars
<1>11. EventsHaveHappened'
  BY <1>7, <1>8 DEF Inv, EventsInv, EventsHaveHappened, Paid, At, Events, paystackVars
<1>12. ChargesHandledOnce'
  BY <1>7, <1>8 DEF Inv, EventsInv, ChargesHandledOnce, PastRecord
<1>13. TrialIsKnown'
  BY <1>6, <1>7, <1>8 DEF Inv, EventsInv, TrialIsKnown, Writing
<1> QED BY <1>6, <1>9, <1>10, <1>11, <1>12, <1>13 DEF Inv, EventsInv

LEMMA CommitsSafe ==
    ASSUME Inv, NEW w \in Workers,
           \/ ChargeCommit(w) \/ SubscriptionCreateCommit(w) \/ VerifyCommit(w)
           \/ SubscriptionDisableCommit(w) \/ CancelCommit(w)
    PROVE  Inv'
<1>1. Happened(req[w]) /\ took \subseteq Subs /\ over \subseteq Subs /\ disturbed \in BOOLEAN
  BY HandlerKnows DEF Inv, EventsInv, TypeOK
<1>2. CASE ChargeCommit(w) \/ SubscriptionCreateCommit(w) \/ VerifyCommit(w)
  <2>1. req[w].op \in {"charge", "create", "verify"} /\ req[w].pc = "commit"
    BY <1>2 DEF ChargeCommit, SubscriptionCreateCommit, VerifyCommit, At
  <2>2. req[w].sub \in Subs /\ Paid(req[w].sub)
    BY <1>1, <2>1 DEF Happened, Events
  <2>3. Activate(w) /\ UNCHANGED <<history, paystackVars, due, faults>>
    BY <1>2 DEF ChargeCommit, SubscriptionCreateCommit, VerifyCommit
  <2> QED BY <1>1, <2>1, <2>2, <2>3, CommitSafe DEF Activate
<1>3. CASE SubscriptionDisableCommit(w) \/ CancelCommit(w)
  <2>1. req[w].op \in {"disable", "cancel"} /\ req[w].pc = "commit"
    BY <1>3 DEF SubscriptionDisableCommit, CancelCommit, At
  <2>2. req[w].sub \in Subs /\ (req[w].op = "cancel" => sub[req[w].sub].st = "disabled")
    BY <1>1, <2>1 DEF Happened, Events
  <2>3. /\ Commit(w) /\ over' = over \union {req[w].sub}
        /\ UNCHANGED <<history, paystackVars, due, faults, took, disturbed>>
        /\ \/ cancelled' = cancelled
           \/ req[w].op = "cancel" /\ cancelled' = cancelled \union {req[w].sub}
    BY <1>3 DEF SubscriptionDisableCommit, CancelCommit, Downgrade, At
  <2> QED BY <1>1, <2>1, <2>2, <2>3, CommitSafe
<1> QED BY <1>2, <1>3

(***************************************************************************)
(* The kinds of step there are, as far as payments and plans go            *)
(***************************************************************************)
Outside ==
    /\ UNCHANGED <<org, history, req, faults, took, over, disturbed>>
    /\ \/ UNCHANGED <<sub, paid, due>>
       \/ \E s \in Subs : Pay(s)
       \/ \E s \in Subs : sub[s].st = "active" /\ Disabled(s) /\ paid' = paid
       \/ \E p \in PaidPlans : HandleUpgrade(p)

\* A handler starts.  An event leaves the queue only for its handler.
Starts(w, r) ==
    /\ r \in Requests /\ req' = [req EXCEPT ![w] = r]
    /\ req[w].op = "none" /\ r.op # "none" /\ r.pc \in {"load", "record"}
    /\ r.op = "charge" => r.pc = "record"
    /\ r.op \in Events => <<r.op, r.sub>> \in due
    /\ r.op = "verify" => sub[r.sub].st # "none"
    /\ due' \subseteq due /\ \A d \in due : d \in due' \/ (d = <<r.op, r.sub>> /\ r.op \in Events)
    /\ faults' \in {faults, faults + 1}
    /\ UNCHANGED <<org, history, sub, paid, took, over, disturbed>>

\* It goes on with what it holds.
Moves(w, r) ==
    /\ r \in Requests /\ req' = [req EXCEPT ![w] = r]
    /\ r.op = req[w].op /\ r.sub = req[w].sub /\ r.dirty = req[w].dirty
    /\ \/ /\ r.op = "charge" /\ req[w].pc = "record" /\ r.pc = "load"
          /\ r.sub \notin history /\ history' = history \union {r.sub}
       \/ /\ r.op = "verify" /\ req[w].pc = "ask" /\ r.pc = "commit"
          /\ history' = history
    /\ UNCHANGED <<org, sub, paid, due, faults, took, over, disturbed>>

Cancels(w, r) ==
    /\ r \in Requests /\ req' = [req EXCEPT ![w] = r]
    /\ r.op = "cancel" /\ req[w].op = "cancel" /\ r.sub = req[w].sub /\ r.dirty = req[w].dirty
    /\ req[w].pc = "ask" /\ r.pc = "commit"
    /\ r.sub \in Subs /\ sub[r.sub].st = "active" /\ Disabled(r.sub)
    /\ UNCHANGED <<org, history, paid, faults, took, over, disturbed>>

\* It loads the organisation.
Loads(w, r) ==
    /\ r \in Requests /\ req' = [req EXCEPT ![w] = r]
    /\ r.op = req[w].op /\ r.op # "none" /\ req[w].pc = "load" /\ r.pc \in {"ask", "commit"}
    /\ r.sub \in Subs
    /\ r.op = "cancel" => r.sub = org.code
    /\ r.op # "cancel" => r.sub = req[w].sub
    /\ r.op = "disable" => ~Replaced(r.sub)
    /\ r.op \in Events => r.pc = "commit"
    /\ Knows(r)
    /\ disturbed' = (disturbed \/ Races(w, r.sub))
    /\ UNCHANGED <<org, history, sub, paid, due, faults, took, over>>

\* It ends and has written nothing.
Stops(w) ==
    /\ req' = [req EXCEPT ![w] = Idle] /\ req[w].op # "none"
    /\ \/ /\ faults' = faults + 1 /\ over' = over
          /\ disturbed' = (disturbed \/ req[w].op \in Events)
       \/ req[w].op \in {"verify", "cancel"} /\ UNCHANGED <<faults, over, disturbed>>
       \/ /\ req[w].op = "charge" /\ req[w].pc = "record" /\ req[w].sub \in history
          /\ UNCHANGED <<faults, over, disturbed>>
       \/ /\ req[w].op = "disable" /\ Replaced(req[w].sub)
          /\ over' = over \union {req[w].sub} /\ UNCHANGED <<faults, disturbed>>
    /\ UNCHANGED <<org, history, sub, paid, due, took>>

\* It commits.
Writes(w) ==
    /\ Commit(w) /\ req[w].pc = "commit" /\ req[w].op # "none"
    /\ \/ /\ ~Ends(req[w].op) /\ took' = took \union {req[w].sub} /\ over' = over
          /\ disturbed' = (disturbed \/ OutOfDate(req[w].sub))
       \/ /\ Ends(req[w].op) /\ over' = over \union {req[w].sub}
          /\ UNCHANGED <<took, disturbed>>
    /\ UNCHANGED <<history, sub, paid, due, faults>>

\* Loading the organisation tells what will not have to be written.
LEMMA LoadLearns ==
    ASSUME Inv, NEW w \in Workers, NEW s \in Subs, NEW next \in {"ask", "commit"}, Load(w, s, next),
           req[w].op # "none", req[w].pc = "load",
           req[w].op = "cancel" => s = org.code,
           req[w].op # "cancel" => s = req[w].sub,
           req[w].op = "disable" => ~Replaced(s),
           req[w].op \in Events => next = "commit",
           UNCHANGED <<org, history, paystackVars, due, faults, took, over>>
    PROVE  \E r : Loads(w, r)
<1> DEFINE D == {a \in DOMAIN org : Becomes(req[w].op, s)[a] # org[a]}
           r == [req[w] EXCEPT !.pc = next, !.sub = s, !.dirty = D]
<1>1. TypeOK /\ req[w] \in Requests /\ org \in Organisations
  BY Types DEF Inv, EventsInv
<1>2. D \in SUBSET {"plan", "trialUsed", "code"}
  BY <1>1, OrgDomain
<1>3. /\ r \in Requests /\ r.op = req[w].op /\ r.pc = next /\ r.sub = s /\ r.dirty = D
  <2> HIDE DEF D
  <2>1. s \in 0 .. MaxSubs
    BY DEF Subs
  <2> QED BY <1>1, <1>2, <2>1 DEF Requests
<1>4. req' = [req EXCEPT ![w] = r] /\ disturbed' = (disturbed \/ Races(w, s))
  BY <1>1 DEF Load, TypeOK
<1>5. /\ "plan" \notin D => Becomes(req[w].op, s).plan = org.plan
      /\ "code" \notin D => Becomes(req[w].op, s).code = org.code
  BY <1>1, OrgDomain
<1>6. req[w].op \in {"verify", "cancel"} \union Events
  BY <1>1, RequestFields
<1> HIDE DEF D, r
<1>7. PICK op : op = req[w].op
  OBVIOUS
<1>8. /\ op \in {"charge", "create", "verify"} =>
            /\ Becomes(op, s).plan = sub[s].plan
            /\ Becomes(op, s).code = IF op = "create" THEN s ELSE org.code
      /\ op \notin {"charge", "create", "verify"} =>
            Becomes(op, s).plan = "free" /\ Becomes(op, s).code = 0
  BY <1>1, BecomesWhat
<1>9. Knows(r)
  <2>1. CASE op \in {"charge", "create", "verify"}
    BY <1>3, <1>5, <1>7, <1>8, <2>1 DEF Knows, Ends
  <2>2. CASE op \in {"disable", "cancel"}
    BY <1>3, <1>5, <1>7, <1>8, <2>2 DEF Knows, Ends
  <2> QED BY <1>6, <1>7, <2>1, <2>2 DEF Events
<1> QED BY <1>3, <1>4, <1>9 DEF Loads, paystackVars

LEMMA StartKinds ==
    ASSUME Inv, NEW w \in Workers,
           \/ HandleCancelSubscription(w)
           \/ \E s \in Subs : VerifyCheckout(w, s)
           \/ \E e \in Events, s \in Subs : Deliver(w, e, s)
    PROVE  \E r : Starts(w, r)
<1>1. ASSUME HandleCancelSubscription(w)
      PROVE  \E r : Starts(w, r)
  <2> DEFINE r == [Idle EXCEPT !.op = "cancel", !.pc = "load"]
  <2>1. r \in Requests /\ r.op = "cancel" /\ r.pc = "load"
    BY IdleSafe DEF Idle, Requests
  <2>2. Begin(w, r) /\ UNCHANGED <<org, history, paystackVars, due, faults, logVars>>
    BY <1>1 DEF HandleCancelSubscription
  <2> HIDE DEF r
  <2>3. Starts(w, r)
    BY <2>1, <2>2 DEF Starts, Begin, paystackVars, logVars, Events
  <2> QED BY <2>3
<1>2. ASSUME NEW s \in Subs, VerifyCheckout(w, s)
      PROVE  \E r : Starts(w, r)
  <2> DEFINE r == [Idle EXCEPT !.op = "verify", !.pc = "load", !.sub = s]
  <2>0. s \in 0 .. MaxSubs
    BY DEF Subs
  <2>1. r \in Requests /\ r.op = "verify" /\ r.pc = "load" /\ r.sub = s
    BY <2>0, IdleSafe DEF Idle, Requests
  <2>2. Begin(w, r) /\ UNCHANGED <<org, history, paystackVars, due, faults, logVars>> /\ sub[s].st # "none"
    BY <1>2 DEF VerifyCheckout
  <2> HIDE DEF r
  <2>3. Starts(w, r)
    BY <2>1, <2>2 DEF Starts, Begin, paystackVars, logVars, Events
  <2> QED BY <2>3
<1>3. ASSUME NEW e \in Events, NEW s \in Subs, Deliver(w, e, s)
      PROVE  \E r : Starts(w, r)
  <2> DEFINE r == [Idle EXCEPT !.op = e, !.pc = IF e = "charge" THEN "record" ELSE "load", !.sub = s]
  <2>0. s \in 0 .. MaxSubs
    BY DEF Subs
  <2>1. /\ r \in Requests /\ r.op = e /\ r.pc = (IF e = "charge" THEN "record" ELSE "load")
        /\ r.sub = s
    BY <2>0, IdleSafe DEF Idle, Requests
  <2>2. Begin(w, r) /\ UNCHANGED <<org, history, paystackVars, logVars>>
    BY <1>3 DEF Deliver
  <2>3. <<e, s>> \in due /\ due' \in {due, due \ {<<e, s>>}} /\ faults' \in {faults, faults + 1}
    BY <1>3 DEF Deliver, Fault
  <2>4. e \notin {"none", "verify", "cancel"}
    BY DEF Events
  <2> HIDE DEF r
  <2>5. req' = [req EXCEPT ![w] = r] /\ req[w].op = "none"
    BY <2>2 DEF Begin
  <2>6. due' \subseteq due /\ \A d \in due : d \in due' \/ d = <<e, s>>
    BY <2>3
  <2>7. UNCHANGED <<org, history, sub, paid, took, over, disturbed>>
    BY <2>2 DEF paystackVars, logVars
  <2>8. Starts(w, r)
    BY <2>1, <2>3, <2>4, <2>5, <2>6, <2>7 DEF Starts
  <2> QED BY <2>8
<1> QED BY <1>1, <1>2, <1>3

LEMMA HandlerKinds ==
    ASSUME Inv, NEW w \in Workers, Handle(w) \/ Crash(w)
    PROVE  Stops(w) \/ Writes(w) \/ \E r : Moves(w, r) \/ Cancels(w, r) \/ Loads(w, r)
<1>1. req[w] \in Requests /\ Happened(req[w]) /\ req \in [Workers -> Requests]
  BY HandlerKnows, Types DEF Inv, EventsInv
<1>2. CASE ChargeRecord(w)
  <2>1. At(w, "charge", "record") /\ UNCHANGED <<org, paystackVars, due, faults, logVars>>
    BY <1>2 DEF ChargeRecord
  <2>2. CASE req[w].sub \in history /\ End(w) /\ UNCHANGED history
    BY <2>1, <2>2 DEF Stops, At, End, paystackVars, logVars
  <2>3. CASE /\ req[w].sub \notin history
             /\ history' = history \union {req[w].sub}
             /\ req' = [req EXCEPT ![w].pc = "load"]
    <3> DEFINE r == [req[w] EXCEPT !.pc = "load"]
    <3>1. /\ r \in Requests /\ r.op = "charge" /\ r.pc = "load" /\ r.sub = req[w].sub
          /\ r.dirty = req[w].dirty
      BY <1>1, <2>1 DEF Requests, At
    <3>2. req' = [req EXCEPT ![w] = r]
      BY <1>1, <2>3
    <3> HIDE DEF r
    <3>3. Moves(w, r)
      BY <2>1, <2>3, <3>1, <3>2 DEF Moves, At, paystackVars, logVars
    <3> QED BY <3>3
  <2> QED BY <1>2, <2>2, <2>3 DEF ChargeRecord
<1>3. CASE ChargeLoad(w) \/ SubscriptionCreateLoad(w) \/ VerifyLoad(w)
  <2>1. req[w].op \in {"charge", "create", "verify"} /\ req[w].pc = "load" /\ req[w].sub \in Subs
    BY <1>1, <1>3 DEF ChargeLoad, SubscriptionCreateLoad, VerifyLoad, At, Happened, Events
  <2>2. \E next \in {"ask", "commit"} :
           Load(w, req[w].sub, next) /\ (req[w].op \in Events => next = "commit")
    BY <1>3 DEF ChargeLoad, SubscriptionCreateLoad, VerifyLoad, At, Events
  <2>3. UNCHANGED <<org, history, paystackVars, due, faults, took, over>>
    BY <1>3 DEF ChargeLoad, SubscriptionCreateLoad, VerifyLoad
  <2> QED BY <2>1, <2>2, <2>3, LoadLearns
<1>4. CASE SubscriptionDisableLoad(w)
  <2>1. /\ req[w].op = "disable" /\ req[w].pc = "load" /\ req[w].sub \in Subs
        /\ UNCHANGED <<org, history, paystackVars, due, faults, took>>
    BY <1>1, <1>4 DEF SubscriptionDisableLoad, At, Happened, Events
  <2>2. CASE Replaced(req[w].sub)
    BY <1>4, <2>1, <2>2 DEF SubscriptionDisableLoad, Stops, End, paystackVars
  <2>3. CASE ~Replaced(req[w].sub)
    BY <1>4, <2>1, <2>3, LoadLearns DEF SubscriptionDisableLoad
  <2> QED BY <2>2, <2>3
<1>5. CASE VerifyAsk(w)
  <2>1. At(w, "verify", "ask") /\ UNCHANGED <<org, history, paystackVars, due, faults, logVars>>
    BY <1>5 DEF VerifyAsk
  <2>2. CASE End(w)
    BY <2>1, <2>2 DEF Stops, At, End, paystackVars, logVars
  <2>3. CASE req' = [req EXCEPT ![w].pc = "commit"]
    <3> DEFINE r == [req[w] EXCEPT !.pc = "commit"]
    <3>1. /\ r \in Requests /\ r.op = "verify" /\ r.pc = "commit" /\ r.sub = req[w].sub
          /\ r.dirty = req[w].dirty
      BY <1>1, <2>1 DEF Requests, At
    <3>2. req' = [req EXCEPT ![w] = r]
      BY <1>1, <2>3
    <3> HIDE DEF r
    <3>3. Moves(w, r)
      BY <2>1, <3>1, <3>2 DEF Moves, At, paystackVars, logVars
    <3> QED BY <3>3
  <2> QED BY <1>5, <2>2, <2>3 DEF VerifyAsk
<1>6. CASE CancelLoad(w)
  <2>1. /\ req[w].op = "cancel" /\ req[w].pc = "load"
        /\ UNCHANGED <<org, history, paystackVars, due, faults, took, over>>
    BY <1>6 DEF CancelLoad, At
  <2>2. CASE org.code = 0
    BY <1>6, <2>1, <2>2 DEF CancelLoad, Stops, End, paystackVars
  <2>3. CASE org.code # 0
    <3>1. org.code \in Subs
      BY <2>3 DEF Inv, EventsInv, TypeOK, Subs
    <3> QED BY <1>6, <2>1, <2>3, <3>1, LoadLearns DEF CancelLoad, Events
  <2> QED BY <2>2, <2>3
<1>7. CASE CancelAsk(w)
  <2>1. /\ req[w].op = "cancel" /\ req[w].pc = "ask" /\ req[w].sub \in Subs
        /\ UNCHANGED <<org, history, started, paid, faults, logVars>>
    BY <1>1, <1>7 DEF CancelAsk, At, Happened
  <2>2. CASE End(w) /\ UNCHANGED <<sub, due>>
    BY <2>1, <2>2 DEF Stops, End, logVars
  <2>3. CASE /\ sub[req[w].sub].st = "active"
             /\ Disabled(req[w].sub)
             /\ req' = [req EXCEPT ![w].pc = "commit"]
    <3> DEFINE r == [req[w] EXCEPT !.pc = "commit"]
    <3>1. /\ r \in Requests /\ r.op = "cancel" /\ r.pc = "commit" /\ r.sub = req[w].sub
          /\ r.dirty = req[w].dirty
      BY <1>1, <2>1 DEF Requests
    <3>2. req' = [req EXCEPT ![w] = r]
      BY <1>1, <2>3
    <3> HIDE DEF r
    <3>3. Cancels(w, r)
      BY <2>1, <2>3, <3>1, <3>2 DEF Cancels, logVars
    <3> QED BY <3>3
  <2> QED BY <1>7, <2>2, <2>3 DEF CancelAsk
<1>8. CASE \/ ChargeCommit(w) \/ SubscriptionCreateCommit(w) \/ VerifyCommit(w)
           \/ SubscriptionDisableCommit(w) \/ CancelCommit(w)
  BY <1>8 DEF ChargeCommit, SubscriptionCreateCommit, VerifyCommit, SubscriptionDisableCommit,
     CancelCommit, Activate, Downgrade, Writes, Ends, At, paystackVars
<1>9. CASE Crash(w)
  BY <1>9 DEF Crash, Fault, Stops, End, paystackVars
<1> QED BY <1>2, <1>3, <1>4, <1>5, <1>6, <1>7, <1>8, <1>9 DEF Handle

LEMMA StepKinds ==
    ASSUME Inv, [Next]_vars
    PROVE  \/ Outside
           \/ \E w \in Workers : Stops(w) \/ Writes(w)
           \/ \E w \in Workers : \E r : Starts(w, r) \/ Moves(w, r) \/ Cancels(w, r) \/ Loads(w, r)
<1>1. CASE UNCHANGED vars
  BY <1>1 DEF vars, paystackVars, logVars, Outside
<1>2. ASSUME NEW s \in Subs, Pay(s) \/ EndSubscription(s)
      PROVE  Outside
  <2>1. UNCHANGED <<org, history, req, faults, logVars>>
    BY <1>2 DEF Pay, EndSubscription
  <2> QED BY <1>2, <2>1 DEF EndSubscription, Outside, logVars
<1>3. ASSUME NEW p \in PaidPlans, HandleUpgrade(p)
      PROVE  Outside
  <2>1. UNCHANGED <<org, history, req, faults, logVars>>
    BY <1>3 DEF HandleUpgrade
  <2> QED BY <1>3, <2>1 DEF Outside, logVars
<1> QED BY <1>1, <1>2, <1>3, StartKinds, HandlerKinds DEF Next

(***************************************************************************)
(* What the steps of Paystack change                                       *)
(***************************************************************************)
LEMMA Shapes ==
    ASSUME Inv
    PROVE  /\ req \in [Workers -> Requests] /\ org \in Organisations
           /\ paid \in Nat /\ faults \in Nat /\ due \subseteq Events \X Subs
           /\ \A s \in Subs : /\ sub[s].at \in Nat
                              /\ sub[s].st \in {"none", "checkout", "active", "disabled"}
           /\ history \subseteq Subs /\ took \subseteq Subs /\ over \subseteq Subs
           /\ \A s \in history \union took : Paid(s)
<1>1. sub \in [Subs -> Subscriptions] /\ req \in [Workers -> Requests] /\ org \in Organisations
  BY Types DEF Inv, EventsInv
<1>2. \A r \in Subscriptions : r.at \in Nat /\ r.st \in {"none", "checkout", "active", "disabled"}
  BY DEF Subscriptions
<1>3. faults \in Nat
  BY SubscriptionAssumption DEF Inv, EventsInv, TypeOK
<1> QED BY <1>1, <1>2, <1>3 DEF Inv, EventsInv, TypeOK, EventsHaveHappened

LEMMA PayChanges ==
    ASSUME Inv, NEW s \in Subs, Pay(s)
    PROVE  /\ sub[s].st = "checkout" /\ sub'[s].st = "active" /\ sub'[s].at = paid + 1
           /\ paid' = paid + 1
           /\ \A t \in Subs : sub'[t].plan = sub[t].plan
           /\ \A t \in Subs : t # s =>
                 /\ sub'[t].at = sub[t].at
                 /\ sub'[t].st = IF sub[t].st = "active" THEN "disabled" ELSE sub[t].st
           /\ due \subseteq due' /\ <<"charge", s>> \in due' /\ <<"create", s>> \in due'
           /\ \A t \in Subs : sub[t].st = "active" => <<"disable", t>> \in due'
           /\ \A t \in Subs : <<"disable", t>> \in due' =>
                 <<"disable", t>> \in due \/ sub[t].st = "active"
<1> DEFINE old == {t \in Subs : sub[t].st = "active"}
<1>1. sub \in [Subs -> Subscriptions] /\ paid \in Nat
  BY Types DEF Inv, EventsInv, TypeOK
<1>2. /\ sub' = [t \in Subs |-> IF t = s THEN [sub[t] EXCEPT !.st = "active", !.at = paid + 1]
                                ELSE IF t \in old THEN [sub[t] EXCEPT !.st = "disabled"] ELSE sub[t]]
      /\ due' = due \union {<<"charge", s>>, <<"create", s>>} \union {<<"disable", t>> : t \in old}
      /\ sub[s].st = "checkout" /\ paid' = paid + 1
  BY DEF Pay
<1>3. \A r \in Subscriptions : \A n :
         /\ [r EXCEPT !.st = "active", !.at = n].st = "active"
         /\ [r EXCEPT !.st = "active", !.at = n].at = n
         /\ [r EXCEPT !.st = "active", !.at = n].plan = r.plan
         /\ [r EXCEPT !.st = "disabled"].st = "disabled"
         /\ [r EXCEPT !.st = "disabled"].at = r.at
         /\ [r EXCEPT !.st = "disabled"].plan = r.plan
  BY DEF Subscriptions
<1>4. sub'[s].st = "active" /\ sub'[s].at = paid + 1 /\ sub'[s].plan = sub[s].plan
  <2>1. sub'[s] = [sub[s] EXCEPT !.st = "active", !.at = paid + 1] /\ sub[s] \in Subscriptions
    BY <1>1, <1>2
  <2> QED BY <1>3, <2>1
<1>5. ASSUME NEW t \in Subs, t # s
      PROVE  /\ sub'[t].at = sub[t].at /\ sub'[t].plan = sub[t].plan
             /\ sub'[t].st = IF sub[t].st = "active" THEN "disabled" ELSE sub[t].st
  <2>1. CASE t \in old
    <3>1. sub'[t] = [sub[t] EXCEPT !.st = "disabled"] /\ sub[t] \in Subscriptions
      BY <1>1, <1>2, <1>5, <2>1
    <3> QED BY <1>3, <2>1, <3>1
  <2>2. CASE t \notin old
    BY <1>1, <1>2, <1>5, <2>2
  <2> QED BY <2>1, <2>2
<1>6. \A t \in old : <<"disable", t>> \in due'
  <2> HIDE DEF old
  <2> QED BY <1>2
<1>7. ASSUME NEW t \in Subs, <<"disable", t>> \in due'
      PROVE  <<"disable", t>> \in due \/ t \in old
  <2> HIDE DEF old
  <2>1. \/ <<"disable", t>> \in due
        \/ <<"disable", t>> \in {<<"charge", s>>, <<"create", s>>}
        \/ \E u \in old : <<"disable", t>> = <<"disable", u>>
    BY <1>2, <1>7
  <2>2. \A u : <<"disable", t>> = <<"disable", u>> => t = u
    OBVIOUS
  <2>3. <<"disable", t>> \notin {<<"charge", s>>, <<"create", s>>}
    OBVIOUS
  <2> QED BY <2>1, <2>2, <2>3
<1>8. due \subseteq due' /\ <<"charge", s>> \in due' /\ <<"create", s>> \in due'
  <2> HIDE DEF old
  <2> QED BY <1>2
<1> QED BY <1>2, <1>4, <1>5, <1>6, <1>7, <1>8

LEMMA DisabledChanges ==
    ASSUME Inv, NEW s \in Subs, Disabled(s)
    PROVE  /\ sub'[s].st = "disabled" /\ \A t \in Subs : t # s => sub'[t] = sub[t]
           /\ \A t \in Subs : sub'[t].plan = sub[t].plan /\ sub'[t].at = sub[t].at
           /\ due' = due \union {<<"disable", s>>}
<1>1. sub \in [Subs -> Subscriptions] /\ sub' = [sub EXCEPT ![s].st = "disabled"]
  BY Types DEF Inv, EventsInv, Disabled
<1>2. \A r \in Subscriptions :
         /\ [r EXCEPT !.st = "disabled"].st = "disabled"
         /\ [r EXCEPT !.st = "disabled"].at = r.at
         /\ [r EXCEPT !.st = "disabled"].plan = r.plan
  BY DEF Subscriptions
<1>3. sub' = [sub EXCEPT ![s] = [sub[s] EXCEPT !.st = "disabled"]]
  BY <1>1
<1> QED BY <1>1, <1>2, <1>3 DEF Disabled

LEMMA UpgradeChanges ==
    ASSUME Inv, NEW p \in PaidPlans, HandleUpgrade(p)
    PROVE  \E s \in Subs :
              /\ sub[s].st = "none" /\ sub'[s].st = "checkout" /\ sub'[s].at = 0
              /\ \A t \in Subs : t # s => sub'[t] = sub[t]
              /\ due' = due /\ paid' = paid
<1> DEFINE s == started + 1
<1>1. sub \in [Subs -> Subscriptions] /\ started \in 0 .. MaxSubs
  BY Types DEF Inv, EventsInv, TypeOK
<1>2. s \in Subs /\ sub[s].st = "none"
  BY <1>1, SubscriptionAssumption DEF HandleUpgrade, Subs, Inv, EventsInv, StartedInOrder
<1>3. sub' = [sub EXCEPT ![s] = [plan |-> p, st |-> "checkout", at |-> 0]] /\ due' = due /\ paid' = paid
  BY DEF HandleUpgrade
<1> HIDE DEF s
<1> QED BY <1>1, <1>2, <1>3

LEMMA OneHandler ==
    ASSUME Inv, NEW w \in Workers, NEW r, req' = [req EXCEPT ![w] = r]
    PROVE  req'[w] = r /\ \A v \in Workers : v # w => req'[v] = req[v]
BY DEF Inv, EventsInv, TypeOK

\* Where the handlers of events and verifications stand.
LEMMA HandlersFit ==
    ASSUME Inv, EndsHaveHappened, NEW w \in Workers
    PROVE  /\ req[w].op \in {"none", "verify", "cancel"} \union Events
           /\ req[w].op \in Events => req[w].sub \in Subs /\ Paid(req[w].sub)
           /\ req[w].op = "verify" => req[w].sub \in Subs /\ sub[req[w].sub].st # "none"
           /\ req[w].op = "disable" => sub[req[w].sub].st = "disabled"
           /\ req[w].op = "cancel" /\ req[w].pc # "load" => req[w].sub \in Subs
           /\ req[w].op = "cancel" /\ req[w].pc = "commit" => sub[req[w].sub].st = "disabled"
           /\ req[w].op # "none" /\ req[w].pc = "commit" => req[w].sub \in Subs /\ Paid(req[w].sub)
           /\ Writing(w) => req[w].op # "none" /\ req[w].sub \in Subs
BY HandlerKnows, RequestFields DEF EndsHaveHappened, Happened, Events, Writing

(***************************************************************************)
(* Subscriptions follow each other, and ends have happened                 *)
(***************************************************************************)
LEMMA TimesStep ==
    ASSUME Inv, TimesFit, [Next]_vars
    PROVE  TimesFit'
<1>1. /\ paid \in Nat
      /\ \A s \in Subs : /\ sub[s].at \in Nat
                         /\ sub[s].st \in {"none", "checkout", "active", "disabled"}
  BY Shapes
<1>2. CASE UNCHANGED <<sub, paid>>
  BY <1>2 DEF TimesFit, Paid
<1>3. ASSUME NEW s \in Subs, Pay(s)
      PROVE  TimesFit'
  <2>1. /\ sub[s].st = "checkout" /\ sub'[s].st = "active" /\ sub'[s].at = paid + 1
        /\ paid' = paid + 1
        /\ \A t \in Subs : t # s =>
              /\ sub'[t].at = sub[t].at
              /\ sub'[t].st = IF sub[t].st = "active" THEN "disabled" ELSE sub[t].st
    BY <1>3, PayChanges
  <2>2. \A t \in Subs : sub'[t].st = "active" <=> t = s
    BY <2>1
  <2>3. \A t \in Subs : Paid(t)' <=> Paid(t) \/ t = s
    BY <2>1 DEF Paid
  <2>4. \A t \in Subs : t # s => sub'[t].at <= paid
    BY <2>1 DEF TimesFit
  <2>5. paid + 1 \in Nat /\ paid + 1 # 0 /\ \A n \in Nat : n <= paid => n <= paid + 1 /\ n # paid + 1
    BY <1>1
  <2>6. \A t \in Subs : sub'[t].at <= paid' /\ (Paid(t)' <=> sub'[t].at # 0)
    BY <1>1, <2>1, <2>3, <2>4, <2>5 DEF TimesFit
  <2>7. \A t, u \in Subs : Paid(t)' /\ sub'[t].at = sub'[u].at => t = u
    BY <1>1, <2>1, <2>3, <2>4, <2>5 DEF TimesFit
  <2> QED BY <2>1, <2>2, <2>6, <2>7 DEF TimesFit
<1>4. ASSUME NEW s \in Subs, sub[s].st = "active", Disabled(s), paid' = paid
      PROVE  TimesFit'
  <2>1. /\ sub'[s].st = "disabled" /\ \A t \in Subs : t # s => sub'[t] = sub[t]
        /\ \A t \in Subs : sub'[t].at = sub[t].at
    BY <1>4, DisabledChanges
  <2>2. \A t \in Subs : (Paid(t)' <=> Paid(t)) /\ (sub'[t].st = "active" => sub[t].st = "active")
    BY <1>4, <2>1 DEF Paid
  <2> QED BY <1>4, <2>1, <2>2 DEF TimesFit
<1>5. ASSUME NEW p \in PaidPlans, HandleUpgrade(p)
      PROVE  TimesFit'
  <2>1. PICK s \in Subs :
           /\ sub[s].st = "none" /\ sub'[s].st = "checkout" /\ sub'[s].at = 0
           /\ \A t \in Subs : t # s => sub'[t] = sub[t]
           /\ due' = due /\ paid' = paid
    BY <1>5, UpgradeChanges
  <2>2. \A t \in Subs : (Paid(t)' <=> Paid(t)) /\ (sub'[t].st = "active" => sub[t].st = "active")
    BY <2>1 DEF Paid
  <2>3. sub[s].at = 0
    BY <2>1 DEF TimesFit, Paid
  <2>4. \A t \in Subs : sub'[t].at = sub[t].at
    BY <2>1, <2>3
  <2> QED BY <2>1, <2>2, <2>4 DEF TimesFit
<1>6. ASSUME NEW w \in Workers, NEW r, Cancels(w, r)
      PROVE  TimesFit'
  BY <1>4, <1>6 DEF Cancels
<1>7. CASE Outside
  BY <1>2, <1>3, <1>4, <1>5, <1>7 DEF Outside
<1>8. ASSUME NEW w \in Workers,
             \/ Stops(w) \/ Writes(w)
             \/ \E r : Starts(w, r) \/ Moves(w, r) \/ Loads(w, r)
      PROVE  TimesFit'
  BY <1>2, <1>8 DEF Stops, Writes, Starts, Moves, Loads
<1> QED BY <1>6, <1>7, <1>8, StepKinds

\* What was ended stays ended, what was started stays started, and an end is
\* announced when there is one.
LEMMA EndsGrow ==
    ASSUME Inv, EndsHaveHappened,
           \/ Outside
           \/ \E s \in Subs : sub[s].st = "active" /\ Disabled(s)
    PROVE  /\ \A s \in Subs : sub[s].st = "disabled" => sub'[s].st = "disabled"
           /\ \A s \in Subs : sub[s].st # "none" => sub'[s].st # "none" /\ sub'[s].plan = sub[s].plan
           /\ \A s \in Subs : <<"disable", s>> \in due' => sub'[s].st = "disabled"
<1>1. ASSUME NEW s \in Subs, Disabled(s)
      PROVE  /\ \A t \in Subs : sub[t].st = "disabled" => sub'[t].st = "disabled"
             /\ \A t \in Subs : sub[t].st # "none" => sub'[t].st # "none" /\ sub'[t].plan = sub[t].plan
             /\ \A t \in Subs : <<"disable", t>> \in due' => sub'[t].st = "disabled"
  BY <1>1, DisabledChanges DEF EndsHaveHappened
<1>2. ASSUME NEW s \in Subs, Pay(s)
      PROVE  /\ \A t \in Subs : sub[t].st = "disabled" => sub'[t].st = "disabled"
             /\ \A t \in Subs : sub[t].st # "none" => sub'[t].st # "none" /\ sub'[t].plan = sub[t].plan
             /\ \A t \in Subs : <<"disable", t>> \in due' => sub'[t].st = "disabled"
  <2>1. /\ sub[s].st = "checkout" /\ sub'[s].st = "active"
        /\ \A t \in Subs : sub'[t].plan = sub[t].plan
        /\ \A t \in Subs : t # s =>
              sub'[t].st = IF sub[t].st = "active" THEN "disabled" ELSE sub[t].st
        /\ \A t \in Subs : <<"disable", t>> \in due' => <<"disable", t>> \in due \/ sub[t].st = "active"
    BY <1>2, PayChanges
  <2> QED BY <2>1 DEF EndsHaveHappened
<1>3. ASSUME NEW p \in PaidPlans, HandleUpgrade(p)
      PROVE  /\ \A t \in Subs : sub[t].st = "disabled" => sub'[t].st = "disabled"
             /\ \A t \in Subs : sub[t].st # "none" => sub'[t].st # "none" /\ sub'[t].plan = sub[t].plan
             /\ \A t \in Subs : <<"disable", t>> \in due' => sub'[t].st = "disabled"
  BY <1>3, UpgradeChanges DEF EndsHaveHappened
<1>4. CASE UNCHANGED <<sub, due>>
  BY <1>4 DEF EndsHaveHappened
<1> QED BY <1>1, <1>2, <1>3, <1>4 DEF Outside

LEMMA EndsStep ==
    ASSUME Inv, EndsHaveHappened, [Next]_vars
    PROVE  EndsHaveHappened'
<1>1. \A w \in Workers : req[w].op \in {"disable", "verify"} => req[w].sub \in Subs
  BY HandlersFit DEF Events
<1>2. ASSUME \A s \in Subs : sub[s].st = "disabled" => sub'[s].st = "disabled",
             \A s \in Subs : sub[s].st # "none" => sub'[s].st # "none",
             \A s \in Subs : <<"disable", s>> \in due' => sub'[s].st = "disabled",
             \A w \in Workers :
                \/ req'[w].op \notin {"disable", "verify", "none"}
                \/ req'[w].op = req[w].op /\ req'[w].sub = req[w].sub /\ req'[w].op # "none"
                \/ req'[w] = req[w]
                \/ req'[w] = Idle
                \/ /\ req'[w].op = "disable" => sub'[req'[w].sub].st = "disabled"
                   /\ req'[w].op = "verify" => sub'[req'[w].sub].st # "none"
                   /\ req'[w].op # "none"
      PROVE  EndsHaveHappened'
  <2>1. Idle.op = "none" /\ Idle.pc = "none"
    BY DEF Idle
  <2> QED BY <1>1, <1>2, <2>1 DEF EndsHaveHappened
<1>3. CASE Outside
  BY <1>2, <1>3, EndsGrow DEF Outside
<1>4. ASSUME NEW w \in Workers, NEW r, Cancels(w, r)
      PROVE  EndsHaveHappened'
  BY <1>2, <1>4, EndsGrow, OneHandler DEF Cancels
<1>5. ASSUME NEW w \in Workers, NEW r, Starts(w, r)
      PROVE  EndsHaveHappened'
  <2>1. sub' = sub /\ due' \subseteq due /\ req'[w] = r /\ \A v \in Workers : v # w => req'[v] = req[v]
    BY <1>5, OneHandler DEF Starts
  <2>2. (r.op = "disable" => <<"disable", r.sub>> \in due) /\ r.op # "none"
    BY <1>5 DEF Starts, Events
  <2>3. r.op = "disable" => r.sub \in Subs
    BY <2>2, Shapes
  <2>4. r.op = "disable" => sub[r.sub].st = "disabled"
    BY <2>2, <2>3 DEF EndsHaveHappened
  <2>5. r.op = "verify" => sub[r.sub].st # "none"
    BY <1>5 DEF Starts
  <2> QED BY <1>2, <2>1, <2>2, <2>4, <2>5 DEF EndsHaveHappened
<1>6. ASSUME NEW w \in Workers, NEW r, Moves(w, r) \/ Loads(w, r)
      PROVE  EndsHaveHappened'
  <2>1. sub' = sub /\ due' = due /\ req'[w] = r /\ \A v \in Workers : v # w => req'[v] = req[v]
    BY <1>6, OneHandler DEF Moves, Loads
  <2>2. r.op = req[w].op /\ r.op # "none" /\ (r.op # "cancel" => r.sub = req[w].sub)
    BY <1>6 DEF Moves, Loads
  <2> QED BY <1>2, <2>1, <2>2 DEF EndsHaveHappened
<1>7. ASSUME NEW w \in Workers, Stops(w) \/ Writes(w)
      PROVE  EndsHaveHappened'
  <2>1. sub' = sub /\ due' = due /\ req'[w] = Idle /\ \A v \in Workers : v # w => req'[v] = req[v]
    BY <1>7, OneHandler DEF Stops, Writes, Commit
  <2> QED BY <1>2, <2>1, IdleSafe DEF EndsHaveHappened
<1> QED BY <1>3, <1>4, <1>5, <1>6, <1>7, StepKinds

(***************************************************************************)
(* A payment that has no effect yet will have one                          *)
(***************************************************************************)

\* Only a fault takes something away that a payment waits for, and a fault
\* takes one thing.
LEMMA EffectsKept ==
    ASSUME Inv, EffectsAwait,
           faults' \in {faults, faults + 1},
           \A s \in Subs : Paid(s)' /\ s \notin took' =>
              \/ /\ Paid(s) /\ s \notin took
                 /\ \/ /\ ChargeOutstanding(s) => ChargeOutstanding(s)'
                       /\ Outstanding("create", s) => Outstanding("create", s)'
                    \/ /\ faults' = faults + 1
                       /\ \/ ChargeOutstanding(s) => ChargeOutstanding(s)'
                          \/ Outstanding("create", s) => Outstanding("create", s)'
              \/ ChargeOutstanding(s)' /\ Outstanding("create", s)'
    PROVE  EffectsAwait'
<1> SUFFICES ASSUME NEW s \in Subs, Paid(s)', s \notin took'
             PROVE  /\ ChargeOutstanding(s)' \/ faults' >= 1
                    /\ Outstanding("create", s)' \/ faults' >= 1
                    /\ ChargeOutstanding(s)' \/ Outstanding("create", s)' \/ faults' >= 2
  BY DEF EffectsAwait
<1>1. faults \in Nat
  BY Shapes
<1> QED BY <1>1 DEF EffectsAwait

LEMMA OutsideEffects ==
    ASSUME Inv, EffectsAwait, Outside
    PROVE  EffectsAwait'
<1>1. UNCHANGED <<history, req, faults, took>>
  BY DEF Outside
<1>2. ASSUME due \subseteq due', NEW s \in Subs
      PROVE  /\ ChargeOutstanding(s) => ChargeOutstanding(s)'
             /\ Outstanding("create", s) => Outstanding("create", s)'
  BY <1>1, <1>2 DEF ChargeOutstanding, Outstanding, Handling, PastRecord
<1>3. ASSUME due \subseteq due', \A s \in Subs : Paid(s)' => Paid(s)
      PROVE  EffectsAwait'
  BY <1>1, <1>2, <1>3, EffectsKept
<1>4. ASSUME NEW s \in Subs, Pay(s)
      PROVE  EffectsAwait'
  <2>1. /\ due \subseteq due' /\ <<"charge", s>> \in due' /\ <<"create", s>> \in due'
        /\ sub[s].st = "checkout"
        /\ \A t \in Subs : t # s => sub'[t].st = IF sub[t].st = "active" THEN "disabled" ELSE sub[t].st
    BY <1>4, PayChanges
  <2>2. s \notin history
    BY <2>1, Shapes DEF Paid
  <2>3. ChargeOutstanding(s)' /\ Outstanding("create", s)'
    BY <1>1, <2>1, <2>2 DEF ChargeOutstanding, Outstanding
  <2>4. \A t \in Subs : t # s /\ Paid(t)' => Paid(t)
    BY <2>1 DEF Paid
  <2> QED BY <1>1, <1>2, <2>1, <2>3, <2>4, EffectsKept
<1>5. ASSUME NEW s \in Subs, sub[s].st = "active", Disabled(s)
      PROVE  EffectsAwait'
  <2>1. due \subseteq due' /\ \A t \in Subs : Paid(t)' => Paid(t)
    BY <1>5, DisabledChanges DEF Paid
  <2> QED BY <1>3, <2>1
<1>6. ASSUME NEW p \in PaidPlans, HandleUpgrade(p)
      PROVE  EffectsAwait'
  <2>1. due' = due /\ \A t \in Subs : Paid(t)' => Paid(t)
    BY <1>6, UpgradeChanges DEF Paid
  <2> QED BY <1>3, <2>1
<1>7. CASE UNCHANGED <<sub, due>>
  BY <1>3, <1>7 DEF Paid
<1> QED BY <1>4, <1>5, <1>6, <1>7 DEF Outside

LEMMA StartsEffects ==
    ASSUME Inv, EffectsAwait, NEW w \in Workers, NEW r, Starts(w, r)
    PROVE  EffectsAwait'
<1>1. req'[w] = r /\ \A v \in Workers : v # w => req'[v] = req[v]
  BY OneHandler DEF Starts
<1>2. /\ req[w].op = "none" /\ UNCHANGED <<history, sub, took>>
      /\ \A d \in due : d \in due' \/ d = <<r.op, r.sub>>
      /\ faults' \in {faults, faults + 1}
  BY DEF Starts
<1>3. \A e \in Events, s \in Subs : Outstanding(e, s) => Outstanding(e, s)'
  <2> SUFFICES ASSUME NEW e \in Events, NEW s \in Subs, Outstanding(e, s)
               PROVE  <<e, s>> \in due' \/ \E v \in Workers : req'[v].op = e /\ req'[v].sub = s
    BY DEF Outstanding, Handling
  <2>1. CASE <<e, s>> \in due
    <3>1. <<e, s>> \in due' \/ (e = r.op /\ s = r.sub)
      BY <1>2, <2>1
    <3> QED BY <1>1, <3>1
  <2>2. ASSUME NEW v \in Workers, req[v].op = e, req[v].sub = s
        PROVE  v # w
    BY <1>2, <2>2 DEF Events
  <2> QED BY <1>1, <2>1, <2>2 DEF Outstanding, Handling
<1>4. \A s \in Subs : ChargeOutstanding(s) => ChargeOutstanding(s)'
  <2>1. \A s \in Subs : Outstanding("charge", s) => Outstanding("charge", s)'
    BY <1>3 DEF Events
  <2>2. \A v \in Workers : PastRecord(v) => PastRecord(v)' /\ req'[v] = req[v]
    BY <1>1, <1>2 DEF PastRecord
  <2> QED BY <1>2, <2>1, <2>2 DEF ChargeOutstanding
<1>5. \A s \in Subs : Outstanding("create", s) => Outstanding("create", s)'
  BY <1>3 DEF Events
<1>6. (\A s \in Subs : Paid(s)' => Paid(s)) /\ took' = took
  BY <1>2 DEF Paid
<1> QED BY <1>2, <1>4, <1>5, <1>6, EffectsKept

\* A handler that goes on, and one that loads, keeps what it is there for.
LEMMA GoesOnEffects ==
    ASSUME Inv, EffectsAwait, NEW w \in Workers, NEW r, Moves(w, r) \/ Cancels(w, r) \/ Loads(w, r)
    PROVE  EffectsAwait'
<1>1. req'[w] = r /\ \A v \in Workers : v # w => req'[v] = req[v]
  BY OneHandler DEF Moves, Cancels, Loads
<1>2. /\ r.op = req[w].op /\ (r.op # "cancel" => r.sub = req[w].sub)
      /\ UNCHANGED <<faults, took>>
  BY DEF Moves, Cancels, Loads
<1>3. due \subseteq due' /\ \A s \in Subs : Paid(s)' => Paid(s)
  <2>1. CASE UNCHANGED <<sub, due>>
    BY <2>1 DEF Paid
  <2>2. CASE Cancels(w, r)
    <3>1. r.sub \in Subs /\ sub[r.sub].st = "active" /\ Disabled(r.sub)
      BY <2>2 DEF Cancels
    <3> QED BY <3>1, DisabledChanges DEF Paid
  <2> QED BY <2>1, <2>2 DEF Moves, Loads
<1>4. \A e \in Events, s \in Subs : Outstanding(e, s) => Outstanding(e, s)'
  BY <1>1, <1>2, <1>3 DEF Outstanding, Handling, Events
<1>5. \A s \in Subs : Outstanding("create", s) => Outstanding("create", s)'
  BY <1>4 DEF Events
<1>6. \A s \in Subs : Outstanding("charge", s) => Outstanding("charge", s)'
  BY <1>4 DEF Events
<1>7. \A v \in Workers : PastRecord(v) => PastRecord(v)' /\ req'[v].sub = req[v].sub
  <2>1. PastRecord(w) => r.op = "charge" /\ r.pc \in {"load", "commit"}
    BY DEF PastRecord, Moves, Cancels, Loads, Events
  <2> QED BY <1>1, <1>2, <2>1 DEF PastRecord
<1>8. \A s \in Subs : s \in history' => s \in history \/ \E v \in Workers : PastRecord(v)' /\ req'[v].sub = s
  BY <1>1 DEF PastRecord, Moves, Cancels, Loads
<1>9. \A s \in Subs : ChargeOutstanding(s) => ChargeOutstanding(s)'
  BY <1>6, <1>7, <1>8 DEF ChargeOutstanding
<1> QED BY <1>2, <1>3, <1>5, <1>9, EffectsKept

LEMMA StopsEffects ==
    ASSUME Inv, EffectsAwait, NEW w \in Workers, Stops(w)
    PROVE  EffectsAwait'
<1>1. \A v \in Workers : v # w => req'[v] = req[v]
  BY OneHandler DEF Stops
<1>2. UNCHANGED <<history, sub, due, took>> /\ req[w].op # "none" /\ \A s \in Subs : Paid(s)' => Paid(s)
  BY DEF Stops, Paid
<1>3. ASSUME NEW e, NEW s, e # req[w].op \/ s # req[w].sub, Outstanding(e, s)
      PROVE  Outstanding(e, s)'
  BY <1>1, <1>2, <1>3 DEF Outstanding, Handling
<1>4. ASSUME NEW s \in Subs, ChargeOutstanding(s), "charge" # req[w].op \/ s # req[w].sub
      PROVE  ChargeOutstanding(s)'
  <2>1. Outstanding("charge", s) => Outstanding("charge", s)'
    BY <1>3, <1>4
  <2>2. ASSUME NEW v \in Workers, PastRecord(v), req[v].sub = s
        PROVE  PastRecord(v)' /\ req'[v].sub = s
    BY <1>1, <1>4, <2>2 DEF PastRecord
  <2> QED BY <1>2, <1>4, <2>1, <2>2 DEF ChargeOutstanding
<1>5. CASE faults' = faults + 1
  <2>1. req[w].op = "charge" => \A s \in Subs : Outstanding("create", s) => Outstanding("create", s)'
    BY <1>3
  <2>2. req[w].op # "charge" => \A s \in Subs : ChargeOutstanding(s) => ChargeOutstanding(s)'
    BY <1>4
  <2> QED BY <1>2, <1>5, <2>1, <2>2, EffectsKept
<1>6. CASE faults' = faults /\ req[w].op \in {"verify", "cancel", "disable"}
  <2>1. \A s \in Subs : ChargeOutstanding(s) => ChargeOutstanding(s)'
    BY <1>4, <1>6
  <2>2. \A s \in Subs : Outstanding("create", s) => Outstanding("create", s)'
    BY <1>3, <1>6
  <2> QED BY <1>2, <1>6, <2>1, <2>2, EffectsKept
<1>7. CASE faults' = faults /\ req[w].op = "charge" /\ req[w].pc = "record" /\ req[w].sub \in history
  <2>1. ASSUME NEW s \in Subs, ChargeOutstanding(s)
        PROVE  ChargeOutstanding(s)'
    <3>1. CASE s # req[w].sub
      BY <1>4, <2>1, <3>1
    <3>2. CASE s = req[w].sub
      <4>1. PICK v \in Workers : PastRecord(v) /\ req[v].sub = s
        BY <1>7, <2>1, <3>2 DEF ChargeOutstanding
      <4>2. v # w
        BY <1>7, <4>1 DEF PastRecord
      <4>3. PastRecord(v)' /\ req'[v].sub = s
        BY <1>1, <4>1, <4>2 DEF PastRecord
      <4> QED BY <4>3 DEF ChargeOutstanding
    <3> QED BY <3>1, <3>2
  <2>2. \A s \in Subs : Outstanding("create", s) => Outstanding("create", s)'
    BY <1>3, <1>7
  <2> QED BY <1>2, <1>7, <2>1, <2>2, EffectsKept
<1> QED BY <1>5, <1>6, <1>7 DEF Stops

LEMMA WritesEffects ==
    ASSUME Inv, EffectsAwait, NEW w \in Workers, Writes(w)
    PROVE  EffectsAwait'
<1>1. \A v \in Workers : v # w => req'[v] = req[v]
  BY OneHandler DEF Writes, Commit
<1>2. UNCHANGED <<history, sub, due, faults>> /\ \A s \in Subs : Paid(s)' => Paid(s)
  BY DEF Writes, Paid
<1>3. took \subseteq took' /\ (req[w].op \in {"charge", "create"} => req[w].sub \in took')
  BY DEF Writes, Ends
<1>4. ASSUME NEW e \in {"charge", "create"}, NEW s \in Subs, s \notin took', Outstanding(e, s)
      PROVE  Outstanding(e, s)'
  BY <1>1, <1>2, <1>3, <1>4 DEF Outstanding, Handling
<1>5. ASSUME NEW s \in Subs, s \notin took', ChargeOutstanding(s)
      PROVE  ChargeOutstanding(s)'
  <2>1. Outstanding("charge", s) => Outstanding("charge", s)'
    BY <1>4, <1>5
  <2>2. ASSUME NEW v \in Workers, PastRecord(v), req[v].sub = s
        PROVE  PastRecord(v)' /\ req'[v].sub = s
    <3>1. v # w
      BY <1>3, <1>5, <2>2 DEF PastRecord
    <3> QED BY <1>1, <2>2, <3>1 DEF PastRecord
  <2> QED BY <1>2, <1>5, <2>1, <2>2 DEF ChargeOutstanding
<1> QED BY <1>2, <1>3, <1>4, <1>5, EffectsKept

LEMMA EffectsStep ==
    ASSUME Inv, EffectsAwait, [Next]_vars
    PROVE  EffectsAwait'
BY StepKinds, OutsideEffects, StartsEffects, GoesOnEffects, StopsEffects, WritesEffects

(***************************************************************************)
(* The plan of the latest subscription prevails                            *)
(***************************************************************************)
Calm == WritersAgree /\ WritersKnow /\ LatestPrevails

\* Clause by clause, what LatestPrevails asks of one subscription.
Prevails(s) ==
    /\ ~Outstanding("create", s) => s \in took /\ org.code \in {0, s}
    /\ ~Outstanding("create", s) /\ sub[s].st = "active" =>
          /\ org.plan = sub[s].plan /\ org.code = s
          /\ \A w \in Workers : Writing(w) /\ Ends(req[w].op) => req[w].sub = s
    /\ sub[s].st = "disabled" /\ ~Outstanding("disable", s) =>
          /\ s \in over
          /\ ~Outstanding("create", s) => org.plan = "free" /\ org.code = 0

\* An end is announced before it has to be handled.
LEMMA DisabledCalm ==
    ASSUME Inv, LatestPrevails, NEW s \in Subs, sub[s].st = "active", Disabled(s),
           UNCHANGED <<org, paid, took, over>>,
           \A e, t : Handling(e, t)' <=> Handling(e, t),
           \A w \in Workers : Writing(w)' /\ Ends(req[w].op)' =>
              Writing(w) /\ Ends(req[w].op) /\ req'[w].sub = req[w].sub
    PROVE  LatestPrevails'
<1>1. /\ sub'[s].st = "disabled" /\ \A t \in Subs : t # s => sub'[t] = sub[t]
      /\ \A t \in Subs : sub'[t].plan = sub[t].plan /\ sub'[t].at = sub[t].at
      /\ due' = due \union {<<"disable", s>>}
  BY DisabledChanges
<1>2. \A t \in Subs : Latest(t)' => Latest(t)
  BY <1>1 DEF Latest, Paid
<1>3. \A t \in Subs : Outstanding("create", t)' <=> Outstanding("create", t)
  BY <1>1 DEF Outstanding
<1>4. Outstanding("disable", s)' /\ \A t \in Subs : Outstanding("disable", t) => Outstanding("disable", t)'
  BY <1>1 DEF Outstanding
<1> SUFFICES ASSUME NEW t \in Subs, Latest(t), Prevails(t)
             PROVE  Prevails(t)'
  BY <1>2 DEF LatestPrevails, Prevails
<1>5. CASE t = s
  BY <1>1, <1>3, <1>4, <1>5 DEF Prevails
<1>6. CASE t # s
  BY <1>1, <1>3, <1>4, <1>6 DEF Prevails
<1> QED BY <1>5, <1>6

\* Nobody writes differently and the organisation is as it was.
LEMMA OutsideCalm ==
    ASSUME Inv, TimesFit, EndsHaveHappened, Calm, Outside
    PROVE  Calm'
<1>1. UNCHANGED <<org, req, took, over>>
  BY DEF Outside
<1>2. WritersAgree'
  BY <1>1 DEF Calm, WritersAgree, Writing
<1>3. WritersKnow'
  <2>1. \A s \in Subs : sub[s].st # "none" => sub'[s].plan = sub[s].plan
    BY EndsGrow
  <2>2. ASSUME NEW w \in Workers, Writing(w)
        PROVE  Knows(req[w])'
    <3>1. Ends(req[w].op) \/ sub'[req[w].sub].plan = sub[req[w].sub].plan
      BY <2>1, <2>2, HandlersFit DEF Ends, Events, Paid
    <3>2. Knows(req[w])
      BY <2>2 DEF Calm, WritersKnow
    <3> QED BY <1>1, <3>1, <3>2 DEF Knows
  <2> QED BY <1>1, <2>2 DEF WritersKnow, Writing
<1>4. ASSUME UNCHANGED <<sub, paid, due>>
      PROVE  LatestPrevails'
  BY <1>1, <1>4 DEF Calm, LatestPrevails, Latest, Paid, Outstanding, Handling, Writing
<1>5. ASSUME NEW s \in Subs, Pay(s)
      PROVE  LatestPrevails'
  <2>1. /\ sub'[s].st = "active" /\ paid' = paid + 1 /\ <<"create", s>> \in due'
        /\ \A t \in Subs : t # s => sub'[t].at = sub[t].at
    BY <1>5, PayChanges
  <2>2. \A t \in Subs : Latest(t)' => t = s
    BY <2>1, Shapes DEF TimesFit, Latest
  <2>3. Prevails(s)'
    BY <2>1 DEF Prevails, Outstanding
  <2> QED BY <2>2, <2>3 DEF LatestPrevails, Prevails
<1>6. ASSUME NEW s \in Subs, sub[s].st = "active", Disabled(s), paid' = paid
      PROVE  LatestPrevails'
  BY <1>1, <1>6, DisabledCalm DEF Calm, Handling, Writing
<1>7. ASSUME NEW p \in PaidPlans, HandleUpgrade(p)
      PROVE  LatestPrevails'
  <2>1. PICK s \in Subs :
           /\ sub[s].st = "none" /\ sub'[s].st = "checkout" /\ sub'[s].at = 0
           /\ \A t \in Subs : t # s => sub'[t] = sub[t]
           /\ due' = due /\ paid' = paid
    BY <1>7, UpgradeChanges
  <2>2. \A t \in Subs : Latest(t)' => Latest(t) /\ sub'[t] = sub[t]
    BY <2>1 DEF Latest, Paid
  <2>3. \A e, t : Outstanding(e, t)' <=> Outstanding(e, t)
    BY <1>1, <2>1 DEF Outstanding, Handling
  <2> QED BY <1>1, <2>2, <2>3 DEF Calm, LatestPrevails, Writing
<1> QED BY <1>2, <1>3, <1>4, <1>5, <1>6, <1>7 DEF Outside, Calm

LEMMA StartsCalm ==
    ASSUME Inv, Calm, NEW w \in Workers, NEW r, Starts(w, r)
    PROVE  Calm'
<1>1. req'[w] = r /\ \A v \in Workers : v # w => req'[v] = req[v]
  BY OneHandler DEF Starts
<1>2. /\ req[w].op = "none" /\ r.pc \in {"load", "record"} /\ UNCHANGED <<org, sub, paid, took, over>>
      /\ due' \subseteq due /\ \A d \in due : d \in due' \/ d = <<r.op, r.sub>>
      /\ r.op \in Events => <<r.op, r.sub>> \in due
  BY DEF Starts
<1>3. \A v \in Workers : Writing(v)' => v # w
  BY <1>1, <1>2 DEF Writing
<1>4. \A v \in Workers : Writing(v)' => Writing(v) /\ req'[v] = req[v]
  BY <1>1, <1>3 DEF Writing
<1>5. WritersAgree' /\ WritersKnow'
  BY <1>2, <1>4 DEF Calm, WritersAgree, WritersKnow, Knows
<1>6. ASSUME NEW e \in Events, NEW s \in Subs
      PROVE  Outstanding(e, s)' <=> Outstanding(e, s)
  <2>1. CASE e = r.op /\ s = r.sub
    BY <1>1, <1>2, <2>1 DEF Outstanding, Handling
  <2>2. CASE e # r.op \/ s # r.sub
    <3>1. <<e, s>> \in due' <=> <<e, s>> \in due
      BY <1>2, <2>2
    <3>2. Handling(e, s)' <=> Handling(e, s)
      BY <1>1, <1>2, <2>2 DEF Handling, Events
    <3> QED BY <3>1, <3>2 DEF Outstanding
  <2> QED BY <2>1, <2>2
<1>7. \A s \in Subs : /\ Outstanding("create", s)' <=> Outstanding("create", s)
                      /\ Outstanding("disable", s)' <=> Outstanding("disable", s)
                      /\ Latest(s)' <=> Latest(s)
  BY <1>2, <1>6 DEF Events, Latest, Paid
<1>8. LatestPrevails'
  BY <1>2, <1>4, <1>7 DEF Calm, LatestPrevails
<1> QED BY <1>5, <1>8 DEF Calm

\* What is handled is the same, before and after.
LEMMA SameHandled ==
    ASSUME NEW w \in Workers, NEW r, req'[w] = r, \A v \in Workers : v # w => req'[v] = req[v],
           r.op = req[w].op, r.op # "cancel" => r.sub = req[w].sub,
           NEW e \in Events, NEW s
    PROVE  Handling(e, s)' <=> Handling(e, s)
BY DEF Handling, Events

LEMMA MovesCalm ==
    ASSUME Inv, EndsHaveHappened, Calm, NEW w \in Workers, NEW r, Moves(w, r) \/ Cancels(w, r)
    PROVE  Calm'
<1>1. req'[w] = r /\ \A v \in Workers : v # w => req'[v] = req[v]
  BY OneHandler DEF Moves, Cancels
<1>2. /\ r.op = req[w].op /\ r.sub = req[w].sub /\ r.dirty = req[w].dirty
      /\ r.pc \in {"ask", "commit"} => req[w].pc \in {"ask", "commit"}
      /\ UNCHANGED <<org, paid, took, over>>
  BY DEF Moves, Cancels
<1>3. \A v \in Workers : Writing(v)' =>
         /\ Writing(v) /\ req'[v].op = req[v].op /\ req'[v].sub = req[v].sub
         /\ req'[v].dirty = req[v].dirty
  BY <1>1, <1>2 DEF Writing
<1>4. WritersAgree'
  BY <1>3 DEF Calm, WritersAgree
<1>5. \A s, e : e \in Events => (Handling(e, s)' <=> Handling(e, s))
  BY <1>1, <1>2, SameHandled
<1>6. CASE Moves(w, r)
  <2>1. UNCHANGED <<sub, due>>
    BY <1>6 DEF Moves
  <2>2. WritersKnow'
    BY <1>2, <1>3, <2>1 DEF Calm, WritersKnow, Knows
  <2>3. \A s \in Subs : /\ Outstanding("create", s)' <=> Outstanding("create", s)
                        /\ Outstanding("disable", s)' <=> Outstanding("disable", s)
                        /\ Latest(s)' <=> Latest(s)
    BY <1>2, <1>5, <2>1 DEF Outstanding, Events, Latest, Paid
  <2>4. LatestPrevails'
    BY <1>2, <1>3, <2>1, <2>3 DEF Calm, LatestPrevails
  <2> QED BY <1>4, <2>2, <2>4 DEF Calm
<1>7. CASE Cancels(w, r)
  <2>1. r.sub \in Subs /\ sub[r.sub].st = "active" /\ Disabled(r.sub)
    BY <1>7 DEF Cancels
  <2>2. \A s \in Subs : sub'[s].plan = sub[s].plan
    BY <2>1, DisabledChanges
  <2>3. WritersKnow'
    <3>1. \A v \in Workers : Writing(v) => req[v].sub \in Subs
      BY HandlersFit
    <3> QED BY <1>2, <1>3, <2>2, <3>1 DEF Calm, WritersKnow, Knows
  <2>4. LatestPrevails'
    <3>1. \A e, s : Handling(e, s)' <=> Handling(e, s)
      BY <1>1, <1>2 DEF Handling
    <3>2. \A v \in Workers : Writing(v)' /\ Ends(req[v].op)' =>
             Writing(v) /\ Ends(req[v].op) /\ req'[v].sub = req[v].sub
      BY <1>3
    <3> QED BY <1>2, <2>1, <3>1, <3>2, DisabledCalm DEF Calm
  <2> QED BY <1>4, <2>3, <2>4 DEF Calm
<1> QED BY <1>6, <1>7

LEMMA LoadsCalm ==
    ASSUME Inv, Calm, NEW w \in Workers, NEW r, Loads(w, r), ~disturbed'
    PROVE  Calm'
<1>1. req'[w] = r /\ \A v \in Workers : v # w => req'[v] = req[v]
  BY OneHandler DEF Loads
<1>2. /\ r.op = req[w].op /\ (r.op # "cancel" => r.sub = req[w].sub) /\ Knows(r) /\ r.sub \in Subs
      /\ ~Races(w, r.sub) /\ UNCHANGED <<org, sub, paid, due, took, over>>
  BY DEF Loads
<1>3. \A v \in Workers : v # w /\ Writing(v) =>
         req[v].sub = r.sub /\ ~Ends(req[v].op) /\ ~Ends(r.op)
  BY <1>2 DEF Races
<1>4. \A v \in Workers : v # w => (Writing(v)' <=> Writing(v))
  BY <1>1 DEF Writing
<1>5. WritersAgree'
  BY <1>1, <1>3, <1>4 DEF Calm, WritersAgree
<1>6. WritersKnow'
  BY <1>1, <1>2, <1>4 DEF Calm, WritersKnow, Knows
<1>7. \A s, e : e \in Events => (Handling(e, s)' <=> Handling(e, s))
  BY <1>1, <1>2, SameHandled
<1>8. \A s \in Subs : /\ Outstanding("create", s)' <=> Outstanding("create", s)
                      /\ Outstanding("disable", s)' <=> Outstanding("disable", s)
                      /\ Latest(s)' <=> Latest(s)
  BY <1>2, <1>7 DEF Outstanding, Events, Latest, Paid
<1>9. ASSUME NEW s \in Subs, org.code = s, Ends(r.op)
      PROVE  r.sub = s
  <2>1. s # 0
    BY DEF Subs
  <2> QED BY <1>9, <2>1 DEF Loads, Replaced, Ends
<1>10. LatestPrevails'
  <2> SUFFICES ASSUME NEW s \in Subs, Latest(s), Prevails(s)
               PROVE  Prevails(s)'
    BY <1>8 DEF Calm, LatestPrevails, Prevails
  <2>1. \A v \in Workers : Writing(v)' /\ Ends(req'[v].op) /\ org.code = s =>
           \/ v = w /\ req'[v].sub = s
           \/ Writing(v) /\ req'[v] = req[v]
    BY <1>1, <1>4, <1>9
  <2> QED BY <1>2, <1>8, <2>1 DEF Prevails
<1> QED BY <1>5, <1>6, <1>10 DEF Calm

LEMMA StopsCalm ==
    ASSUME Inv, EndsHaveHappened, Calm, NEW w \in Workers, Stops(w), ~disturbed'
    PROVE  Calm'
<1>1. req'[w] = Idle /\ \A v \in Workers : v # w => req'[v] = req[v]
  BY OneHandler DEF Stops
<1>2. UNCHANGED <<org, sub, paid, due, took>> /\ over \subseteq over'
  BY DEF Stops
<1>3. \A v \in Workers : Writing(v)' => Writing(v) /\ req'[v] = req[v]
  BY <1>1 DEF Writing, Idle
<1>4. WritersAgree' /\ WritersKnow'
  BY <1>2, <1>3 DEF Calm, WritersAgree, WritersKnow, Knows
<1>5. ASSUME NEW e \in {"create", "disable"}, NEW s, e # req[w].op \/ s # req[w].sub
      PROVE  Outstanding(e, s)' <=> Outstanding(e, s)
  <2>1. Idle.op = "none"
    BY IdleSafe
  <2> QED BY <1>1, <1>2, <1>5, <2>1 DEF Outstanding, Handling
<1>6. \/ req[w].op \notin {"create", "disable"}
      \/ req[w].op = "disable" /\ Replaced(req[w].sub) /\ req[w].sub \in over'
  BY DEF Stops, Events
<1>7. \A s \in Subs : Latest(s)' <=> Latest(s)
  BY <1>2 DEF Latest, Paid
<1>8. LatestPrevails'
  <2> SUFFICES ASSUME NEW s \in Subs, Latest(s), Prevails(s)
               PROVE  Prevails(s)'
    BY <1>7 DEF Calm, LatestPrevails, Prevails
  <2>1. Outstanding("create", s)' <=> Outstanding("create", s)
    BY <1>5, <1>6
  <2>2. CASE req[w].op = "disable" /\ Replaced(s) /\ s \in over'
    BY <1>2, <1>3, <2>1, <2>2 DEF Prevails, Replaced
  <2>3. CASE req[w].op # "disable" \/ s # req[w].sub
    <3>1. Outstanding("disable", s)' <=> Outstanding("disable", s)
      BY <1>5, <2>3
    <3> QED BY <1>2, <1>3, <2>1, <3>1 DEF Prevails
  <2> QED BY <1>6, <2>2, <2>3
<1> QED BY <1>4, <1>8 DEF Calm

\* What a commit makes of the organisation when its session still knew it.
LEMMA CommitMakes ==
    ASSUME Inv, WritersKnow, NEW w \in Workers, Commit(w), Writing(w), req[w].sub \in Subs,
           req[w].op \in {"verify", "cancel"} \union Events
    PROVE  /\ Ends(req[w].op) => org'.plan = "free" /\ org'.code = 0
           /\ ~Ends(req[w].op) =>
                 /\ org'.plan = sub[req[w].sub].plan
                 /\ org'.code = IF req[w].op = "create" THEN req[w].sub ELSE org.code
<1> DEFINE s == req[w].sub
<1>1. PICK op, n : op = req[w].op /\ n = Becomes(op, s)
  OBVIOUS
<1>2. TypeOK
  BY DEF Inv, EventsInv
<1>3. /\ op \in {"charge", "create", "verify"} =>
            /\ n.plan = sub[s].plan
            /\ n.code = IF op = "create" THEN s ELSE org.code
      /\ op \notin {"charge", "create", "verify"} =>
            n.plan = "free" /\ n.code = 0
  BY <1>1, <1>2, BecomesWhat
<1>4. /\ org'.plan = IF "plan" \in req[w].dirty THEN n.plan ELSE org.plan
      /\ org'.code = IF "code" \in req[w].dirty THEN n.code ELSE org.code
  BY <1>1, <1>2, CommitWrites
<1>5. Knows(req[w])
  BY DEF WritersKnow
<1>6. CASE op \in {"charge", "create", "verify"}
  BY <1>1, <1>3, <1>4, <1>5, <1>6 DEF Knows, Ends
<1>7. CASE op \in {"disable", "cancel"}
  BY <1>1, <1>3, <1>4, <1>5, <1>7 DEF Knows, Ends
<1> QED BY <1>1, <1>6, <1>7 DEF Events

\* A session that has the organisation to itself, or shares it with sessions
\* of the same aim, leaves it as the latest subscription wants it.
LEMMA WritesCalm ==
    ASSUME Inv, TimesFit, EndsHaveHappened, Calm, NEW w \in Workers, Writes(w), ~disturbed'
    PROVE  Calm'
<1> DEFINE s1 == req[w].sub
<1>1. req'[w] = Idle /\ \A v \in Workers : v # w => req'[v] = req[v]
  BY OneHandler DEF Writes, Commit
<1>2. UNCHANGED <<sub, paid, due>> /\ Commit(w) /\ Writing(w)
  BY DEF Writes, Writing
<1>3. s1 \in Subs /\ Paid(s1) /\ req[w].op \in {"verify", "cancel"} \union Events
      /\ (Ends(req[w].op) => sub[s1].st = "disabled")
  BY HandlersFit DEF Writes, Ends
<1>4. /\ Ends(req[w].op) => org'.plan = "free" /\ org'.code = 0
      /\ ~Ends(req[w].op) =>
            /\ org'.plan = sub[s1].plan
            /\ org'.code = IF req[w].op = "create" THEN s1 ELSE org.code
  BY <1>2, <1>3, CommitMakes DEF Calm
<1>5. \A v \in Workers : Writing(v)' =>
         /\ Writing(v) /\ req'[v] = req[v] /\ req[v].sub = s1
         /\ ~Ends(req[v].op) /\ ~Ends(req[w].op)
  <2>1. \A v \in Workers : Writing(v)' => v # w /\ Writing(v) /\ req'[v] = req[v]
    BY <1>1 DEF Writing, Idle
  <2> QED BY <1>2, <2>1 DEF Calm, WritersAgree
<1>6. WritersAgree'
  BY <1>5 DEF WritersAgree
<1>7. WritersKnow'
  <2> SUFFICES ASSUME NEW v \in Workers, Writing(v)'
               PROVE  Knows(req[v])'
    BY DEF WritersKnow
  <2>1. Knows(req[v]) /\ req'[v] = req[v] /\ req[v].sub = s1 /\ ~Ends(req[v].op) /\ ~Ends(req[w].op)
    BY <1>5 DEF Calm, WritersKnow
  <2> QED BY <1>2, <1>4, <2>1 DEF Knows
<1>8. ASSUME NEW e \in {"create", "disable"}, NEW s, e # req[w].op \/ s # s1
      PROVE  Outstanding(e, s)' <=> Outstanding(e, s)
  <2>1. Idle.op = "none"
    BY IdleSafe
  <2> QED BY <1>1, <1>2, <1>8, <2>1 DEF Outstanding, Handling
<1>9. \A s \in Subs : Latest(s)' <=> Latest(s)
  BY <1>2 DEF Latest, Paid
<1> SUFFICES ASSUME NEW s \in Subs, Latest(s), Prevails(s)
             PROVE  Prevails(s)'
  BY <1>6, <1>7, <1>9 DEF Calm, LatestPrevails, Prevails
<1>10. CASE ~Ends(req[w].op)
  <2>1. /\ took' = took \union {s1} /\ over' = over /\ ~OutOfDate(s1)
        /\ req[w].op # "disable"
    BY <1>10 DEF Writes, Ends
  <2>2. Outstanding("disable", s)' <=> Outstanding("disable", s)
    BY <1>8, <2>1
  <2>3. s \notin over \/ s1 # s
    BY <2>1 DEF OutOfDate
  <2>4. CASE s1 = s
    <3>1. req[w].op = "create" \/ (Outstanding("create", s)' <=> Outstanding("create", s))
      BY <1>8
    <3>2. ~(sub[s].st = "disabled" /\ ~Outstanding("disable", s)')
      BY <2>2, <2>3, <2>4 DEF Prevails
    <3>3. \A v \in Workers : Writing(v)' => ~Ends(req'[v].op)
      BY <1>5
    <3> QED BY <1>2, <1>4, <1>10, <2>1, <2>4, <3>1, <3>2, <3>3 DEF Prevails
  <2>5. CASE s1 # s
    <3>1. ~(sub[s].at <= sub[s1].at)
      BY <1>3, <2>5, Shapes DEF TimesFit, Latest
    <3>2. s \notin took /\ s \notin over
      BY <2>1, <3>1, <1>3, Shapes DEF OutOfDate
    <3>3. Outstanding("create", s)'
      BY <1>8, <2>5, <3>2 DEF Prevails
    <3>4. ~(sub[s].st = "disabled" /\ ~Outstanding("disable", s)')
      BY <2>2, <3>2 DEF Prevails
    <3> QED BY <1>2, <3>3, <3>4 DEF Prevails
  <2> QED BY <2>4, <2>5
<1>11. CASE Ends(req[w].op)
  <2>1. took' = took /\ over' = over \union {s1} /\ req[w].op # "create"
    BY <1>11 DEF Writes, Ends
  <2>2. Outstanding("create", s)' <=> Outstanding("create", s)
    BY <1>8, <2>1
  <2>3. ~(~Outstanding("create", s) /\ sub[s].st = "active")
    BY <1>2, <1>3, <1>11 DEF Prevails
  <2>4. s1 = s \/ (Outstanding("disable", s)' <=> Outstanding("disable", s))
    BY <1>8
  <2> QED BY <1>2, <1>4, <1>11, <2>1, <2>2, <2>3, <2>4 DEF Prevails
<1> QED BY <1>10, <1>11

(***************************************************************************)
(* The theorems                                                            *)
(***************************************************************************)
LEMMA InvInit == Init => Inv
<1> SUFFICES ASSUME Init PROVE Inv
  OBVIOUS
<1>1. 0 \in 0 .. MaxSubs /\ 0 \in 0 .. MaxFaults /\ "free" \in Plans
  BY SubscriptionAssumption DEF Plans
<1>2. TypeOK
  <2>1. NewOrg \in Organisations
    BY <1>1 DEF NewOrg, Organisations
  <2>2. [plan |-> "free", st |-> "none", at |-> 0] \in Subscriptions
    BY <1>1 DEF Subscriptions
  <2> QED BY <1>1, <2>1, <2>2, IdleSafe DEF Init, TypeOK, Organisations, Subscriptions, Requests
<1>3. \A w \in Workers : req[w].op = "none"
  BY IdleSafe DEF Init
<1>4. EventsHaveHappened /\ ChargesHandledOnce /\ TrialIsKnown
  BY <1>3 DEF Init, EventsHaveHappened, ChargesHandledOnce, TrialIsKnown, At, PastRecord, Events
<1>5. StartedInOrder
  BY DEF Init, StartedInOrder, Subs
<1>6. PaidPlanWasPaid /\ CancelledIsDisabled
  BY DEF Init, NewOrg, PaidPlanWasPaid, CancelledIsDisabled
<1> QED BY <1>2, <1>4, <1>5, <1>6 DEF Inv, EventsInv

LEMMA InvStep == Inv /\ [Next]_vars => Inv'
<1> SUFFICES ASSUME Inv, [Next]_vars PROVE Inv'
  OBVIOUS
<1>1. CASE UNCHANGED vars
  <2>1. Grows /\ StartedInOrder' /\ started' \in 0 .. MaxSubs /\ paid' \in Nat
    BY <1>1, Types DEF vars, paystackVars, Grows, Paid, Inv, EventsInv, TypeOK, EventsHaveHappened, StartedInOrder
  <2> QED BY <1>1, <2>1, PaystackSafe DEF vars
<1>2. ASSUME NEW s \in Subs, Pay(s) \/ EndSubscription(s)
      PROVE  Inv'
  BY <1>2, PaySafe, EndSubscriptionSafe
<1>3. ASSUME NEW p \in PaidPlans, HandleUpgrade(p)
      PROVE  Inv'
  BY <1>3, HandleUpgradeSafe
<1>4. ASSUME NEW w \in Workers, HandleCancelSubscription(w) \/ \E s \in Subs : VerifyCheckout(w, s)
      PROVE  Inv'
  BY <1>4, HandleCancelSubscriptionSafe, VerifyCheckoutSafe
<1>5. ASSUME NEW w \in Workers, NEW e \in Events, NEW s \in Subs, Deliver(w, e, s)
      PROVE  Inv'
  BY <1>5, DeliverSafe
<1>6. ASSUME NEW w \in Workers, Handle(w) \/ Crash(w)
      PROVE  Inv'
  BY <1>6, ChargeRecordSafe, ChargeLoadSafe, SubscriptionCreateLoadSafe, SubscriptionDisableLoadSafe,
     VerifyLoadSafe, VerifyAskSafe, CancelLoadSafe, CancelAskSafe, CommitsSafe, CrashSafe DEF Handle
<1> QED BY <1>1, <1>2, <1>3, <1>4, <1>5, <1>6 DEF Next

\* Nothing undoes that events were disturbed; without it the plan is right.
LEMMA CalmStep ==
    ASSUME Inv, TimesFit, EndsHaveHappened, ~disturbed => Calm, [Next]_vars, ~disturbed'
    PROVE  Calm'
<1>1. ~disturbed
  BY StepKinds DEF Outside, Stops, Writes, Starts, Moves, Cancels, Loads
<1> QED BY <1>1, StepKinds, OutsideCalm, StartsCalm, MovesCalm, LoadsCalm, StopsCalm, WritesCalm

LEMMA FullInit == Init => Inv /\ SubscriptionInv
<1> SUFFICES ASSUME Init PROVE SubscriptionInv
  BY InvInit
<1>1. Inv
  BY InvInit
<1>2. /\ paid = 0 /\ due = {} /\ faults = 0 /\ history = {} /\ took = {}
      /\ \A s \in Subs : sub[s].st = "none" /\ sub[s].at = 0
      /\ \A w \in Workers : req[w] = Idle
  BY DEF Init
<1>3. Idle.op = "none" /\ Idle.pc = "none"
  BY DEF Idle
<1>4. \A s \in Subs : ~Paid(s)
  BY <1>2 DEF Paid
<1>5. TimesFit
  BY <1>2, <1>4 DEF TimesFit
<1>6. EndsHaveHappened
  BY <1>2, <1>3 DEF EndsHaveHappened
<1>7. EffectsAwait
  BY <1>4 DEF EffectsAwait
<1>8. WritersAgree /\ WritersKnow /\ LatestPrevails
  BY <1>2, <1>3, <1>4 DEF WritersAgree, WritersKnow, LatestPrevails, Writing, Latest
<1> QED BY <1>1, <1>5, <1>6, <1>7, <1>8 DEF SubscriptionInv, Inv

LEMMA FullStep == Inv /\ SubscriptionInv /\ [Next]_vars => (Inv /\ SubscriptionInv)'
<1> SUFFICES ASSUME Inv, SubscriptionInv, [Next]_vars PROVE (Inv /\ SubscriptionInv)'
  OBVIOUS
<1>1. Inv'
  BY InvStep
<1>2. TimesFit /\ EndsHaveHappened /\ EffectsAwait /\ (~disturbed => Calm)
  BY DEF SubscriptionInv, Calm
<1>3. TimesFit' /\ EndsHaveHappened' /\ EffectsAwait' /\ (~disturbed' => Calm')
  BY <1>2, TimesStep, EndsStep, EffectsStep, CalmStep
<1> QED BY <1>1, <1>3 DEF SubscriptionInv, Inv, Calm

LEMMA InvAlways == Spec => [](Inv /\ SubscriptionInv)
<1>1. Init => Inv /\ SubscriptionInv
  BY FullInit
<1>2. Inv /\ SubscriptionInv /\ [Next]_vars => (Inv /\ SubscriptionInv)'
  BY FullStep
<1> QED BY <1>1, <1>2, PTL DEF Spec

\* Every event in the queue and every handler is about a payment that
\* happened, a charge is handled once however often it is delivered, and what
\* the subscription made last wants of the organisation is done or under way.
THEOREM SubscriptionIsSafe == Spec => []SubscriptionInv
BY InvAlways, PTL

\* A paid plan, and a subscription to cancel, were paid for.
THEOREM PaidPlansArePaid == Spec => []PaidPlanWasPaid
<1>1. Inv => PaidPlanWasPaid
  BY DEF Inv
<1> QED BY <1>1, InvAlways, PTL

\* What the page reports cancelled is ended at Paystack.
THEOREM CancellationsAreReal == Spec => []CancelledIsDisabled
<1>1. Inv => CancelledIsDisabled
  BY DEF Inv
<1> QED BY <1>1, InvAlways, PTL

\* When no event is left, the organisation has the plan that is paid for.
THEOREM PlansFollowPaystack == Spec => []PlanFollowsPaystack
<1>1. Inv /\ SubscriptionInv => PlanFollowsPaystack
  <2> SUFFICES ASSUME Inv, SubscriptionInv, AllHandled, ~disturbed
               PROVE  /\ \A s \in ActiveSubs : org.plan = sub[s].plan /\ org.code = s
                      /\ ActiveSubs = {} => org.plan = "free" /\ org.code = 0
    BY DEF PlanFollowsPaystack
  <2>1. TimesFit /\ LatestPrevails /\ PaidPlanWasPaid
    BY DEF SubscriptionInv, Inv
  <2>2. \A e \in Events : \A s : ~Outstanding(e, s)
    BY DEF AllHandled, Outstanding, Handling, Events
  <2>3. \A s \in Subs : ~Outstanding("create", s) /\ ~Outstanding("disable", s)
    BY <2>2 DEF Events
  <2>4. ASSUME NEW s \in ActiveSubs
        PROVE  org.plan = sub[s].plan /\ org.code = s
    <3>1. s \in Subs /\ sub[s].st = "active" /\ Latest(s)
      BY <2>1, <2>4 DEF ActiveSubs, TimesFit, Latest, Paid
    <3> QED BY <2>1, <2>3, <3>1 DEF LatestPrevails
  <2>5. ASSUME ActiveSubs = {}
        PROVE  org.plan = "free" /\ org.code = 0
    <3>1. CASE paid = 0
      <4>1. \A s \in Subs : ~Paid(s)
        BY <2>1, <3>1, Shapes DEF TimesFit
      <4>2. org.code # 0 => org.code \in Subs
        BY DEF Inv, EventsInv, TypeOK, Subs
      <4> QED BY <2>1, <4>1, <4>2 DEF PaidPlanWasPaid
    <3>2. CASE paid # 0
      <4>1. PICK s \in Subs : sub[s].at = paid
        BY <2>1, <3>2 DEF TimesFit
      <4>2. Paid(s) /\ sub[s].st = "disabled" /\ Latest(s)
        BY <2>1, <2>5, <3>2, <4>1 DEF TimesFit, ActiveSubs, Paid, Latest
      <4> QED BY <2>1, <2>3, <4>2 DEF LatestPrevails
    <3> QED BY <3>1, <3>2
  <2> QED BY <2>4, <2>5
<1> QED BY <1>1, InvAlways, PTL

\* One fault does not cost a customer what was paid for.
THEOREM PaymentsTakeEffect == Spec => []EveryPaymentTakesEffect
<1>1. Inv => faults \in Nat
  BY Shapes
<1>2. Inv /\ SubscriptionInv => EveryPaymentTakesEffect
  <2> SUFFICES ASSUME Inv, SubscriptionInv, AllHandled, faults <= 1,
                      NEW s \in Subs, Paid(s)
               PROVE  s \in took
    BY DEF EveryPaymentTakesEffect
  <2>1. ~ChargeOutstanding(s) /\ ~Outstanding("create", s)
    BY DEF AllHandled, ChargeOutstanding, Outstanding, Handling, PastRecord
  <2> QED BY <1>1, <2>1 DEF SubscriptionInv, EffectsAwait
<1> QED BY <1>2, InvAlways, PTL
=============================================================================
