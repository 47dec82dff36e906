SPECIFICATION Spec
CONSTANTS
    Invoices = {i1, i2}
    References = {}
    Nets = {0}
    BillsOfCharges = {}
    Workers = {w1, w2}
    Sweepers = {}
    MaxYear = 1
    Covers <- MCCovers
    NoInvoice = NoInvoice
    NoReference = NoReference
    NoNet = NoNet
    NoWorker = NoWorker
INVARIANTS
    NumberIsFresh
\* Nothing is left to do once every invoice of the instance is deleted.
CHECK_DEADLOCK FALSE
