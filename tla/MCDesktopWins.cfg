\* The button and the health loop, without failing calls.
CONSTANTS
    Clicks = {c}
    Blocks = {}
    MaxPresses = 2
    MaxEvents = 1
    MaxFaults = 0
SPECIFICATION SpecDesktop
INVARIANT UserWins
CHECK_DEADLOCK FALSE
