SPECIFICATION Spec
CONSTANTS
    c1 = c1
    Conn = {c1}
    Mode = {"forward", "socks", "connect"}
    Slots = 1
    Room = 1
    MaxSent = 1
    Tries = 2
    MaxLost = 2
INVARIANTS TCPInv Complete
PROPERTY Ends
CHECK_DEADLOCK FALSE
