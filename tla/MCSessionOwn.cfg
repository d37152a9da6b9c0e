SPECIFICATION Spec
CONSTANTS
    Kinds = {"desktop"}
    Users = {u, v}
    Names = {"a"}
    FaultKinds = {}
    Bound <- Bounds
PROPERTIES
    OwnNodeOnly
CHECK_DEADLOCK FALSE
