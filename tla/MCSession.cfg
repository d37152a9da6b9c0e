SPECIFICATION Spec
CONSTANTS
    Kinds = {"desktop", "router"}
    Users = {u, v}
    Names = {"a"}
    FaultKinds = {"net", "server", "save", "cache", "delete", "power"}
    Bound <- Bounds
SYMMETRY Accounts
INVARIANTS
    SessionTypeOK
    IdentityIntact
    NoSilentLeftover
    LoggedOutIsClean
PROPERTIES
    PromptJustified
CHECK_DEADLOCK FALSE
