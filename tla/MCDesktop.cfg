\* The button, both loops and a log-out, with a failing call.
CONSTANTS
    Clicks = {c}
    Blocks = {b}
    MaxPresses = 2
    MaxEvents = 1
    MaxFaults = 1
SPECIFICATION SpecDesktop
INVARIANTS
    ConnectedIsLive
    DesktopTypeOK
    NoForgottenRoute
    NoSilentOrphan
PROPERTY
    SelfHeals
CHECK_DEADLOCK FALSE
