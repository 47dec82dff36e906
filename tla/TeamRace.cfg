SPECIFICATION Spec
CONSTANTS
    Users = {u1, u2}
    Orgs = {o1, o2}
    NoUser = NoUser
    NoOrg = NoOrg
    Workers = {w1, w2}
    Plans = {1, 2}
    MaxLinks = 3
SYMMETRY TeamSymmetry
CONSTRAINT PlanShrinksUnderInvitation
INVARIANTS
    TeamInv
    EntryFitsMembership
PROPERTIES
    SeatsAreLimited
    InviteLeadsHome
    ShownIsJoined
