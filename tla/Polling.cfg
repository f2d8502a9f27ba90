SPECIFICATION Spec
CONSTANTS
    Games = {g1, g2}
    None = None
    SameInstant = FALSE
    Slots = {1, 2}
    MaxChanges = 2
    MaxClicks = 4
INVARIANTS TypeOK Watching NoMoveUnseen BlinksWhileNotified
PROPERTIES CatchesUp
CHECK_DEADLOCK FALSE
