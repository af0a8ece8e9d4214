SPECIFICATION Spec
CONSTANTS
    Timeout = 475
    Ticks <- MCTicks
    Skews <- MCSkews
INVARIANTS
    IInv
    ClockNeverRefuses
