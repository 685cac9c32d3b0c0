SPECIFICATION Spec
CONSTANTS
  c1 = c1
  c2 = c2
  c3 = c3
  Clients <- MCClients
PROPERTY SignalForgetsNobody
CHECK_DEADLOCK FALSE
