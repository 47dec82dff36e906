SPECIFICATION LiveSpec
CONSTANTS
    Invoices = {i1}
    References = {r1, r2}
    Nets = {1, 2}
    BillsOfCharges = {i1}
    Workers = {w1, w2}
    Sweepers = {s1}
    MaxYear = 1
    Covers <- MCCovers
    NoInvoice = NoInvoice
    NoReference = NoReference
    NoNet = NoNet
    NoWorker = NoWorker
INVARIANTS
    LedgerInv
    NoPaymentLost
    StatusFollowsPayments
PROPERTIES
    IssuedIsFinal
    SweepCatchesUp
    ImplementsAtomicLedger
\* Nothing is left to do once every invoice of the instance is deleted.
CHECK_DEADLOCK FALSE
