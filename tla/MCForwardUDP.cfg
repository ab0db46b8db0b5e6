SPECIFICATION Spec
CONSTANTS
    app1 = app1  app2 = app2  NoFlow = NoFlow
    Source = {app1, app2}
    MaxUDPFlows = 1
    QueueDepth = 2
    MaxPackets = 4
    MaxFlows = 3
INVARIANT ForwardInv
PROPERTIES QueueKept Returns
CHECK_DEADLOCK FALSE
