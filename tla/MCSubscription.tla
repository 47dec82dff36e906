---------------------------- MODULE MCSubscription ----------------------------
(***************************************************************************)
(* Small instances of Subscription.                                        *)
(***************************************************************************)
EXTENDS Subscription, TLC

CONSTANT FirstPlan    \* the plan of the first checkout, one of PaidPlans

\* Handlers are interchangeable; no property is a liveness property.
HandlerSymmetry == Permutations(Workers)

\* Bound: the second checkout is of another plan than the first, so that what
\* one handler writes is seen to differ from what another one writes.  Which
\* plan comes first makes no difference, since only the page orders them.
CheckoutsDiffer ==
    \A s \in Subs : sub[s].st # "none" => (sub[s].plan = FirstPlan <=> s = 1)

\* Bound: everything overlaps until there is a fault; after it a handler that a
\* page has called overlaps with events of its own subscription only.
FaultsComeLast ==
    faults = 0 \/ \A v, w \in Workers :
        v # w /\ req[v].op \in {"verify", "cancel"} =>
            req[w].op = "none" \/ (req[w].op \in Events /\ req[v].sub \in {0, req[w].sub})
=============================================================================
