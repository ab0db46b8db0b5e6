---- MODULE MCForwardUDP ----
EXTENDS ForwardUDP
CONSTANTS app1, app2
====
