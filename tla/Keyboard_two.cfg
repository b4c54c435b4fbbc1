SPECIFICATION Spec
CONSTANTS
    Processes = {p1, p2}
    NUTTLE_KEYBOARD_MAX_BUFFER = 3
    Presses = 6
    ControllerMax = 2
INVARIANTS
    RingInv
    KeysInOrder
PROPERTIES
    QueuesSpec
