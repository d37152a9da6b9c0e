\* Two concurrent requests of the account handlers.
CONSTANTS
    Reqs = {p, q}
    Names = {alice, bob}
    MaxId <- MCMaxId
    MaxTime = 2
    AccessTTL = 1
    RefreshTTL = 2
    InviteTTL = 1
SPECIFICATION SpecAccounts
INVARIANTS
    AccountsTypeOK
    InviteAdmitsOne
    IdleSessionDies
    DeletedAccountDies
    NoInheritedIdentity
PROPERTY
    RevocationPermanent
SYMMETRY MCSymmetry
CHECK_DEADLOCK FALSE
