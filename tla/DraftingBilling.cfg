SPECIFICATION Spec
CONSTANTS
    Invoices = {i1, i2}
    Lines = {l1, l2}
    Amounts = {a1}
    Disbursements = {d1}
    Keys = {k1}
    Workers = {w1, w2}
    Taxes = {vat}
    Overrides = {}
    Synced = {}
    NoInvoice = NoInvoice
    NoLine = NoLine
    NoAmount = NoAmount
    NoDisbursement = NoDisbursement
    NoKey = NoKey
    NoTax = NoTax
SYMMETRY MCSymmetry
INVARIANTS
    DraftingInv
    OneInvoicePerKey
    BilledOnce
PROPERTIES
    InvoicedIsFrozen
\* Nothing is left to do once every key of the instance is used up.
CHECK_DEADLOCK FALSE
