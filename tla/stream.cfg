CONSTANTS
    World = 3
    MaxLen = 4
    Idle = Idle
SPECIFICATION StreamSpec
INVARIANT
    StreamIntact
