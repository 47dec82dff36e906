SPECIFICATION Spec
CONSTANTS
    PaidPlans = {pro, agency}
    FirstPlan = pro
    MaxSubs = 2
    Workers = {w1, w2}
    MaxFaults = 1
SYMMETRY HandlerSymmetry
CONSTRAINTS
    CheckoutsDiffer
    FaultsComeLast
INVARIANTS
    SubscriptionInv
    
    CancelledIsDisabled
    PlanFollowsPaystack
    EveryPaymentTakesEffect
