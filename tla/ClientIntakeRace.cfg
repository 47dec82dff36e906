SPECIFICATION Spec
CONSTANTS
    Clients = {c1, c2}
    Matters = {m1, m2}
    Forms = {f1}
    Workers = {w1, w2}
    Plans = {1, 2}
    MaxKeys = 3
    NoClient = NoClient
    NoMatter = NoMatter
    NoWorker = NoWorker
SYMMETRY RowSymmetry
CONSTRAINT PlanIsAskedFor
INVARIANTS
    IntakeInv
    MattersHaveClient
    OneRowPerMount
    ReferencesAreUnique
PROPERTIES
    LimitHolds
