SPECIFICATION Spec
CONSTANTS
    Invoices = {i1}
    Lines = {l1, l2}
    Amounts = {a1, a2}
    Disbursements = {}
    Keys = {}
    Workers = {w1, w2}
    Taxes = {vat, novat}
    Overrides = {override}
    Synced = {i1}
    NoInvoice = NoInvoice
    NoLine = NoLine
    NoAmount = NoAmount
    NoDisbursement = NoDisbursement
    NoKey = NoKey
    NoTax = NoTax
SYMMETRY MCSymmetry
INVARIANTS
    TotalsAreDerived
PROPERTIES
    IssuedIsFrozen
\* Nothing is left to do once every key of the instance is used up.
CHECK_DEADLOCK FALSE
