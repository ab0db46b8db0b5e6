SPECIFICATION ServiceSpec
CONSTANTS
    f1 = f1  f2 = f2  Off = Off
    Inbound = {f1, f2}
    MaxServiceFlows = 1
    Timeout = 2
INVARIANT ServiceInv
PROPERTIES NotClosedEarly FlowsEnd
CHECK_DEADLOCK FALSE
