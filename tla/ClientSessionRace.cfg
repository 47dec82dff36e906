SPECIFICATION Spec
CONSTANTS
    Orgs = {o1, o2}
    Requests = {r1, r2}
    Sessions = {r1}
    Tokens = {k1, k2}
    NoOrg = NoOrg
    NoToken = NoToken
INVARIANTS
    SessionInv
    NoRequestActsTwice
    ShownOrgIsTokenOrg
    LoggedOutStaysOut
PROPERTIES
    RemovedIsShutOut
