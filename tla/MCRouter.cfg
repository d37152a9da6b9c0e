\* The daemon, its reconcile loop and one command at a time.
CONSTANTS
    Mine = {m}
    Others = {o}
    Zones = {z}
    MaxEvents = 2
    MaxFaults = 1
SPECIFICATION SpecRouter
INVARIANTS
    RouterTypeOK
    RoutesAccounted
CHECK_DEADLOCK FALSE
PROPERTIES
    NatConverges
    RoutesConverge
    TunnelConverges
