SPECIFICATION Spec
CONSTANTS
    Invoices = {i1, i2}
    References = {r1}
    Nets = {1}
    BillsOfCharges = {}
    Workers = {w1, w2}
    Sweepers = {s1}
    MaxYear = 2
    Covers <- MCCovers
    NoInvoice = NoInvoice
    NoReference = NoReference
    NoNet = NoNet
    NoWorker = NoWorker
SYMMETRY MCSymmetry
INVARIANTS
    NoDoubleCredit
    NumbersHaveNoGap
    CountedNumberIsFree
\* Nothing is left to do once every invoice of the instance is deleted.
CHECK_DEADLOCK FALSE
