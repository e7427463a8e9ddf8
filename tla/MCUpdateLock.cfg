SPECIFICATION Spec
CONSTANTS
    Updates = {u1, u2, u3}
    NoUpdate = NoUpdate
INVARIANTS
    OwnerKeepsKey
    SerialTurns
CHECK_DEADLOCK FALSE
