SPECIFICATION ListenerSpec
CONSTANTS
    t1 = t1  t2 = t2  u1 = u1  c1 = c1  c2 = c2  a1 = a1  All = All  NoPort = NoPort
    TCPPort = {t1, t2}
    UDPPort = {u1}
    ServedTCP = {t1}
    ServedUDP = {}
    OnUDP = FALSE
    MaxListeners = 3
    Conn = {c1, c2}
    Acceptor = {a1}
INVARIANT ListenerInv
PROPERTY Disposed
CHECK_DEADLOCK FALSE
