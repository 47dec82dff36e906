---------------------------- MODULE Subscription ----------------------------
(***************************************************************************)
(* An organisation's subscription: the checkout and the cancellation on    *)
(* billing-page.tsx, the handlers of billing_service.py, and the webhook   *)
(* events that Paystack sends, in any order and more than once, to         *)
(* webhooks.py, which answers before it handles them.  Every handler is a  *)
(* session that loads the organisation and writes what then differs; only  *)
(* the recording of a charge is protected, by a unique reference.          *)
(* Paystack is external.  A subscription stands for its checkout, its      *)
(* reference and its first charge; renewals are not modelled.  All         *)
(* checkouts are of the customer that create_checkout stored first (the    *)
(* events of another administrator's customer would find no organisation). *)
(***************************************************************************)
EXTENDS Naturals

CONSTANTS
    PaidPlans,       \* PLAN_FEATURES without free and trial: "pro", "agency"
    MaxSubs,         \* bound: checkouts that are started
    Workers,         \* handlers that run at a time
    MaxFaults        \* bound: handlers that die, and events that are sent once more

ASSUME SubscriptionAssumption ==
    /\ "free" \notin PaidPlans
    /\ MaxSubs \in Nat
    /\ MaxFaults \in Nat

VARIABLES
    org,         \* Organisation.plan, trial_used and paystack_subscription_code (0 for none)
    history,     \* references in billing_transactions
    sub,         \* Paystack: the plan, the state and the rank in time of a subscription
    started,     \* number of checkouts started
    paid,        \* number of them that were paid
    due,         \* Paystack: events to be delivered
    req,         \* per worker: its handler, and the organisation it loaded
    faults,
    took,        \* history: subscriptions whose plan the organisation was given
    over,        \* history: subscriptions whose end was handled
    cancelled,   \* history: subscriptions a page reported cancelled
    disturbed    \* history: an event was lost, handled when it was out of date, or
                 \* by a handler that ran at once with one of another aim

paystackVars == <<sub, started, paid>>
logVars == <<took, over, cancelled, disturbed>>
vars == <<org, history, paystackVars, due, req, faults, logVars>>

Subs == 1 .. MaxSubs
Plans == {"free"} \union PaidPlans
Events == {"charge", "create", "disable"}

NewOrg == [plan |-> "free", trialUsed |-> FALSE, code |-> 0]
Idle == [op |-> "none", pc |-> "none", sub |-> 0, dirty |-> {}]

Init ==
    /\ org = NewOrg
    /\ history = {}
    /\ sub = [s \in Subs |-> [plan |-> "free", st |-> "none", at |-> 0]]
    /\ started = 0
    /\ paid = 0
    /\ due = {}
    /\ req = [w \in Workers |-> Idle]
    /\ faults = 0
    /\ took = {}
    /\ over = {}
    /\ cancelled = {}
    /\ disturbed = FALSE

(***************************************************************************)
(* Paystack.                                                               *)
(***************************************************************************)
Paid(s) == sub[s].st \in {"active", "disabled"}

\* The customer pays: the subscription begins, and one it replaces ends.
Pay(s) ==
    /\ sub[s].st = "checkout"
    /\ LET old == {t \in Subs : sub[t].st = "active"} IN
       /\ sub' = [t \in Subs |-> IF t = s THEN [sub[t] EXCEPT !.st = "active", !.at = paid + 1]
                                 ELSE IF t \in old THEN [sub[t] EXCEPT !.st = "disabled"] ELSE sub[t]]
       /\ due' = due \union {<<"charge", s>>, <<"create", s>>} \union {<<"disable", t>> : t \in old}
    /\ paid' = paid + 1
    /\ UNCHANGED <<org, history, started, req, faults, logVars>>

Disabled(s) ==
    /\ sub' = [sub EXCEPT ![s].st = "disabled"]
    /\ due' = due \union {<<"disable", s>>}

\* A renewal fails for good.
EndSubscription(s) ==
    /\ sub[s].st = "active"
    /\ Disabled(s)
    /\ UNCHANGED <<org, history, started, paid, req, faults, logVars>>

(***************************************************************************)
(* The pages of the organisation's administrators.  What each of them      *)
(* shows may be of any age, and offers any plan above the one it shows.    *)
(***************************************************************************)
\* create_checkout starts a transaction; the window asks for the payment.
HandleUpgrade(p) ==
    /\ started < MaxSubs
    /\ started' = started + 1
    /\ sub' = [sub EXCEPT ![started + 1] = [plan |-> p, st |-> "checkout", at |-> 0]]
    /\ UNCHANGED <<org, history, paid, due, req, faults, logVars>>

Begin(w, r) ==
    /\ req[w].op = "none"
    /\ req' = [req EXCEPT ![w] = r]

\* The callback of the payment window: whether it was paid, Paystack will say.
VerifyCheckout(w, s) ==
    /\ sub[s].st # "none"
    /\ Begin(w, [Idle EXCEPT !.op = "verify", !.pc = "load", !.sub = s])
    /\ UNCHANGED <<org, history, paystackVars, due, faults, logVars>>

HandleCancelSubscription(w) ==
    /\ Begin(w, [Idle EXCEPT !.op = "cancel", !.pc = "load"])
    /\ UNCHANGED <<org, history, paystackVars, due, faults, logVars>>

Fault ==
    /\ faults < MaxFaults
    /\ faults' = faults + 1

\* paystack_webhook answers 200 and leaves the event to a background task.
\* Paystack sends the event again if it misses that answer.
Deliver(w, e, s) ==
    /\ <<e, s>> \in due
    /\ Begin(w, [Idle EXCEPT !.op = e, !.pc = IF e = "charge" THEN "record" ELSE "load", !.sub = s])
    /\ \/ /\ due' = due \ {<<e, s>>}
          /\ UNCHANGED faults
       \/ /\ Fault
          /\ UNCHANGED due
    /\ UNCHANGED <<org, history, paystackVars, logVars>>

(***************************************************************************)
(* Handlers.  History: sessions race when they are to write different      *)
(* things; an event is out of date when a later subscription had one       *)
(* handled, or its own subscription was ended.                             *)
(***************************************************************************)
At(w, op, pc) == req[w].op = op /\ req[w].pc = pc
End(w) == req' = [req EXCEPT ![w] = Idle]

Ends(op) == op \in {"disable", "cancel"}
Writing(v) == req[v].pc \in {"ask", "commit"}
Races(w, s) ==
    \E v \in Workers \ {w} :
        Writing(v) /\ (req[v].sub # s \/ Ends(req[v].op) \/ Ends(req[w].op))

\* What a handler makes of the organisation.  An attribute that had its new
\* value when it was loaded is not written.
Activated(o, s) == [o EXCEPT !.plan = sub[s].plan, !.trialUsed = TRUE]
Downgraded(o) == [o EXCEPT !.plan = "free", !.code = 0]

Becomes(op, s) ==
    CASE op \in {"charge", "verify"} -> Activated(org, s)
      [] op = "create" -> [Activated(org, s) EXCEPT !.code = s]
      [] OTHER -> Downgraded(org)

Load(w, s, next) ==
    /\ req' = [req EXCEPT ![w] = [@ EXCEPT !.pc = next, !.sub = s,
                  !.dirty = {a \in DOMAIN org : Becomes(req[w].op, s)[a] # org[a]}]]
    /\ disturbed' = (disturbed \/ Races(w, s))

OutOfDate(s) == s \in over \/ \E t \in took \union over : sub[t].at > sub[s].at

Commit(w) ==
    /\ org' = [a \in DOMAIN org |->
                  IF a \in req[w].dirty THEN Becomes(req[w].op, req[w].sub)[a] ELSE org[a]]
    /\ req' = [req EXCEPT ![w] = Idle]

\* The session of w gives the organisation the plan of its subscription.
Activate(w) ==
    /\ Commit(w)
    /\ took' = took \union {req[w].sub}
    /\ disturbed' = (disturbed \/ OutOfDate(req[w].sub))
    /\ UNCHANGED <<over, cancelled>>

\* Mutant: a charge that was recorded before is handled again.
ChargeRecordAgain(w) ==
    /\ At(w, "charge", "record")
    /\ history' = history \union {req[w].sub}
    /\ req' = [req EXCEPT ![w].pc = "load"]
    /\ UNCHANGED <<org, paystackVars, due, faults, logVars>>

\* handle_charge_success: the reference is unique, and the row is committed
\* before the plan is touched.
ChargeRecord(w) ==
    /\ At(w, "charge", "record")
    /\ \/ /\ req[w].sub \in history
          /\ End(w)
          /\ UNCHANGED history
       \/ /\ req[w].sub \notin history
          /\ history' = history \union {req[w].sub}
          /\ req' = [req EXCEPT ![w].pc = "load"]
    /\ UNCHANGED <<org, paystackVars, due, faults, logVars>>

ChargeLoad(w) ==
    /\ At(w, "charge", "load")
    /\ Load(w, req[w].sub, "commit")
    /\ UNCHANGED <<org, history, paystackVars, due, faults, took, over, cancelled>>

ChargeCommit(w) ==
    /\ At(w, "charge", "commit")
    /\ Activate(w)
    /\ UNCHANGED <<history, paystackVars, due, faults>>

SubscriptionCreateLoad(w) ==
    /\ At(w, "create", "load")
    /\ Load(w, req[w].sub, "commit")
    /\ UNCHANGED <<org, history, paystackVars, due, faults, took, over, cancelled>>

\* Mutant: the event only stores the code.
SubscriptionCreateCodeOnly(w) ==
    /\ At(w, "create", "commit")
    /\ org' = [org EXCEPT !.code = req[w].sub]
    /\ End(w)
    /\ UNCHANGED <<took, over, cancelled, disturbed, history, paystackVars, due, faults>>

SubscriptionCreateCommit(w) ==
    /\ At(w, "create", "commit")
    /\ Activate(w)
    /\ UNCHANGED <<history, paystackVars, due, faults>>

\* Mutant: every event ends the subscription.
NeverReplaced(s) == FALSE

\* An event for a subscription that another has replaced is left alone.
Replaced(s) == org.code # 0 /\ org.code # s

SubscriptionDisableLoad(w) ==
    /\ At(w, "disable", "load")
    /\ IF Replaced(req[w].sub)
       THEN /\ over' = over \union {req[w].sub}
            /\ End(w)
            /\ UNCHANGED disturbed
       ELSE /\ Load(w, req[w].sub, "commit")
            /\ UNCHANGED over
    /\ UNCHANGED <<org, history, paystackVars, due, faults, took, cancelled>>

\* The organisation is left on the free plan.
Downgrade(w) ==
    /\ Commit(w)
    /\ over' = over \union {req[w].sub}

SubscriptionDisableCommit(w) ==
    /\ At(w, "disable", "commit")
    /\ Downgrade(w)
    /\ UNCHANGED <<history, paystackVars, due, faults, took, cancelled, disturbed>>

(***************************************************************************)
(* verify_transaction and cancel_subscription ask Paystack in between.     *)
(***************************************************************************)
VerifyLoad(w) ==
    /\ At(w, "verify", "load")
    /\ Load(w, req[w].sub, "ask")
    /\ UNCHANGED <<org, history, paystackVars, due, faults, took, over, cancelled>>

\* Mutant: any answer of Paystack will do.
VerifyAskAnswered(w) ==
    /\ At(w, "verify", "ask")
    /\ req' = [req EXCEPT ![w].pc = "commit"]
    /\ UNCHANGED <<org, history, paystackVars, due, faults, logVars>>

VerifyAsk(w) ==
    /\ At(w, "verify", "ask")
    /\ \/ Paid(req[w].sub) /\ req' = [req EXCEPT ![w].pc = "commit"]
       \/ End(w)
    /\ UNCHANGED <<org, history, paystackVars, due, faults, logVars>>

VerifyCommit(w) ==
    /\ At(w, "verify", "commit")
    /\ Activate(w)
    /\ UNCHANGED <<history, paystackVars, due, faults>>

CancelLoad(w) ==
    /\ At(w, "cancel", "load")
    /\ IF org.code = 0 THEN End(w) /\ UNCHANGED disturbed ELSE Load(w, org.code, "ask")
    /\ UNCHANGED <<org, history, paystackVars, due, faults, took, over, cancelled>>

\* Mutant: the organisation is downgraded whatever Paystack answers.
CancelAskUnheard(w) ==
    /\ At(w, "cancel", "ask")
    /\ req' = [req EXCEPT ![w].pc = "commit"]
    /\ \/ sub[req[w].sub].st = "active" /\ Disabled(req[w].sub)
       \/ UNCHANGED <<sub, due>>
    /\ UNCHANGED <<org, history, started, paid, faults, logVars>>

CancelAsk(w) ==
    /\ At(w, "cancel", "ask")
    /\ \/ /\ sub[req[w].sub].st = "active"
          /\ Disabled(req[w].sub)
          /\ req' = [req EXCEPT ![w].pc = "commit"]
       \/ /\ End(w)
          /\ UNCHANGED <<sub, due>>
    /\ UNCHANGED <<org, history, started, paid, faults, logVars>>

\* The page reports the cancellation.
CancelCommit(w) ==
    /\ At(w, "cancel", "commit")
    /\ Downgrade(w)
    /\ cancelled' = cancelled \union {req[w].sub}
    /\ UNCHANGED <<history, paystackVars, due, faults, took, disturbed>>

\* A handler dies between two steps.  Paystack had its answer and will not
\* send the event again; the page reports an error.
Crash(w) ==
    /\ req[w].op # "none"
    /\ Fault
    /\ disturbed' = (disturbed \/ req[w].op \in Events)
    /\ End(w)
    /\ UNCHANGED <<org, history, paystackVars, due, took, over, cancelled>>

Handle(w) ==
    \/ ChargeRecord(w) \/ ChargeLoad(w) \/ ChargeCommit(w)
    \/ SubscriptionCreateLoad(w) \/ SubscriptionCreateCommit(w)
    \/ SubscriptionDisableLoad(w) \/ SubscriptionDisableCommit(w)
    \/ VerifyLoad(w) \/ VerifyAsk(w) \/ VerifyCommit(w)
    \/ CancelLoad(w) \/ CancelAsk(w) \/ CancelCommit(w)

Next ==
    \/ \E s \in Subs : Pay(s) \/ EndSubscription(s)
    \/ \E p \in PaidPlans : HandleUpgrade(p)
    \/ \E w \in Workers : HandleCancelSubscription(w) \/ \E s \in Subs : VerifyCheckout(w, s)
    \/ \E w \in Workers, e \in Events, s \in Subs : Deliver(w, e, s)
    \/ \E w \in Workers : Handle(w) \/ Crash(w)

Spec == Init /\ [][Next]_vars

(***************************************************************************)
(* Properties                                                              *)
(***************************************************************************)
TypeOK ==
    /\ org \in [plan : Plans, trialUsed : BOOLEAN, code : 0 .. MaxSubs]
    /\ history \subseteq Subs
    /\ sub \in [Subs -> [plan : Plans, st : {"none", "checkout", "active", "disabled"},
                     at : Nat]]
    /\ started \in 0 .. MaxSubs
    /\ paid \in Nat
    /\ due \subseteq Events \X Subs
    /\ req \in [Workers -> [op : {"none", "verify", "cancel"} \union Events,
                            pc : {"none", "record", "load", "ask", "commit"},
                            sub : 0 .. MaxSubs, dirty : SUBSET {"plan", "trialUsed", "code"}]]
    /\ faults \in 0 .. MaxFaults
    /\ took \subseteq Subs
    /\ over \subseteq Subs
    /\ cancelled \subseteq Subs
    /\ disturbed \in BOOLEAN

\* Checkouts are numbered in the order they start.
StartedInOrder == \A s \in Subs : s <= started <=> sub[s].st # "none"

\* What is on its way, recorded or being handled has happened at Paystack.
EventsHaveHappened ==
    /\ \A d \in due : Paid(d[2])
    /\ \A s \in history \union took : Paid(s)
    /\ \A w \in Workers :
          /\ req[w].op \in Events => req[w].sub \in Subs /\ Paid(req[w].sub)
          /\ req[w].op = "verify" => req[w].sub \in Subs
          /\ At(w, "verify", "commit") => Paid(req[w].sub)
          /\ req[w].op = "cancel" /\ req[w].pc # "load" => req[w].sub \in Subs /\ Paid(req[w].sub)
          /\ At(w, "cancel", "commit") => sub[req[w].sub].st = "disabled"

\* A charge is handled once, however often it is delivered.
PastRecord(w) == req[w].op = "charge" /\ req[w].pc \in {"load", "commit"}

ChargesHandledOnce ==
    \A v, w \in Workers :
        /\ PastRecord(v) => req[v].sub \in history
        /\ PastRecord(v) /\ PastRecord(w) /\ req[v].sub = req[w].sub => v = w

\* A session that will not write trial_used loaded it when it was set.
TrialIsKnown ==
    \A w \in Workers :
        req[w].op \in {"charge", "create", "verify"} /\ Writing(w) /\ "trialUsed" \notin req[w].dirty
            => org.trialUsed

EventsInv == TypeOK /\ StartedInOrder /\ EventsHaveHappened /\ ChargesHandledOnce /\ TrialIsKnown

\* Subscriptions follow each other, and the last one may be active.
TimesFit ==
    /\ \A s \in Subs : sub[s].at <= paid /\ (Paid(s) <=> sub[s].at # 0)
    /\ \A s \in Subs : sub[s].st = "active" => sub[s].at = paid
    /\ \A s, t \in Subs : Paid(s) /\ sub[s].at = sub[t].at => s = t
    /\ paid # 0 => \E s \in Subs : sub[s].at = paid

EndsHaveHappened ==
    /\ \A s \in Subs : <<"disable", s>> \in due => sub[s].st = "disabled"
    /\ \A w \in Workers :
          /\ req[w].op = "disable" => sub[req[w].sub].st = "disabled"
          /\ req[w].op = "verify" => sub[req[w].sub].st # "none"
          /\ req[w].op = "none" => req[w].pc = "none"

\* A payment that has no effect yet has its charge and its creation before
\* it, and each fault takes one of them away.
Handling(op, s) == \E w \in Workers : req[w].op = op /\ req[w].sub = s
Outstanding(op, s) == <<op, s>> \in due \/ Handling(op, s)

ChargeOutstanding(s) ==
    \/ s \notin history /\ Outstanding("charge", s)
    \/ \E w \in Workers : PastRecord(w) /\ req[w].sub = s

EffectsAwait ==
    \A s \in Subs : Paid(s) /\ s \notin took =>
        /\ ChargeOutstanding(s) \/ faults >= 1
        /\ Outstanding("create", s) \/ faults >= 1
        /\ ChargeOutstanding(s) \/ Outstanding("create", s) \/ faults >= 2

\* Sessions that write at once give the organisation the same plan, and an
\* attribute that a session will not write still has the value it is to have.
WritersAgree ==
    \A v, w \in Workers : Writing(v) /\ Writing(w) /\ v # w =>
        req[v].sub = req[w].sub /\ ~Ends(req[v].op)

Knows(r) ==
    /\ "plan" \notin r.dirty => org.plan = IF Ends(r.op) THEN "free" ELSE sub[r.sub].plan
    /\ "code" \notin r.dirty => (Ends(r.op) => org.code = 0) /\ (r.op = "create" => org.code = r.sub)

WritersKnow == \A w \in Workers : Writing(w) => Knows(req[w])

\* What the last subscription made of the organisation, as far as its
\* creation and its end are handled.
Latest(s) == Paid(s) /\ sub[s].at = paid

LatestPrevails ==
    \A s \in Subs : Latest(s) =>
        /\ ~Outstanding("create", s) => s \in took /\ org.code \in {0, s}
        /\ ~Outstanding("create", s) /\ sub[s].st = "active" =>
              /\ org.plan = sub[s].plan /\ org.code = s
              /\ \A w \in Workers : Writing(w) /\ Ends(req[w].op) => req[w].sub = s
        /\ sub[s].st = "disabled" /\ ~Outstanding("disable", s) =>
              /\ s \in over
              /\ ~Outstanding("create", s) => org.plan = "free" /\ org.code = 0

SubscriptionInv ==
    /\ EventsInv /\ TimesFit /\ EndsHaveHappened /\ EffectsAwait
    /\ ~disturbed => WritersAgree /\ WritersKnow /\ LatestPrevails

\* An organisation is on a paid plan, or has a subscription to cancel, only
\* after Paystack was paid for that plan, however verification, webhooks,
\* cancellation and crashes overlap; and its trial is over then.
PaidPlanWasPaid ==
    /\ org.plan # "free" => org.trialUsed /\ \E s \in Subs : Paid(s) /\ sub[s].plan = org.plan
    /\ org.code # 0 => Paid(org.code)

\* A cancellation the page reported has ended the subscription at Paystack:
\* nobody goes on paying for what the application calls cancelled.
CancelledIsDisabled == \A s \in cancelled : sub[s].st = "disabled"

\* When every event is handled, the organisation has the plan and the code of
\* the subscription that is active at Paystack, and is on the free plan if
\* there is none.  The end of a replaced subscription may be announced before
\* or after the charge and the creation of its successor, and any event
\* twice.  Excepted are events a crash lost, events handled after they were
\* out of date, and handlers that wrote different things at once.
AllHandled == due = {} /\ \A w \in Workers : req[w].op = "none"
ActiveSubs == {s \in Subs : sub[s].st = "active"}

PlanFollowsPaystack ==
    AllHandled /\ ~disturbed =>
        /\ \A s \in ActiveSubs : org.plan = sub[s].plan /\ org.code = s
        /\ ActiveSubs = {} => org.plan = "free" /\ org.code = 0

\* Every payment has taken effect when all events are handled, even if a
\* handler died on the way: the charge, which is not handled again once it is
\* recorded, and the creation of the subscription each suffice.
EveryPaymentTakesEffect ==
    AllHandled /\ faults <= 1 => \A s \in Subs : Paid(s) => s \in took
=============================================================================
