SPECIFICATION TakeoverSpec
CONSTANTS
    Edges = {1, 2}
    SlotDevices = {"car_1", "car_2"}
    MaxLinks = 3
INVARIANT BackInItsPosition
CHECK_DEADLOCK FALSE
