CONSTANTS
    a = a
    b = b
    a1 = a1
    b1 = b1
    b2 = b2
    u = u
    v = v
    Off = Off
    TpRanks = {1, 2}
    Tensors = {"w1", "w2"}
    Checkpoints = {"home", "other"}
    HomePath = "home"
    UpdateGroups = {"g"}
    MaxFromDisk = 3
    MaxSent = 2
    None = None
    Calls = {a, b}
    Reqs = {a1, b1, b2}
    Owner <- MCOwner
    Streaming = {a}
    Updates = {u, v}
    MaxTok = 2
    Setups <- MCSetups
SPECIFICATION MCSpec
INVARIANTS
    Drains
    WeightsWhole
    StreamIsAnswer
PROPERTY
    AllEnd
CHECK_DEADLOCK FALSE
