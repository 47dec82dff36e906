SPECIFICATION Spec
CONSTANTS
    Invoices = {i1}
    Lines = {l1}
    Amounts = {a1}
    Disbursements = {}
    Keys = {}
    Workers = {w1}
    Taxes = {vat}
    Overrides = {}
    Synced = {i1}
    NoInvoice = NoInvoice
    NoLine = NoLine
    NoAmount = NoAmount
    NoDisbursement = NoDisbursement
    NoKey = NoKey
    NoTax = NoTax
INVARIANTS
    PushKeepsTotals
\* Nothing is left to do once every key of the instance is used up.
CHECK_DEADLOCK FALSE
