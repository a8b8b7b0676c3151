CONSTANTS
  w1 = w1
  w2 = w2
  k1 = k1
  k2 = k2
  k3 = k3
  k4 = k4
  k5 = k5
  k6 = k6
  Worker = {w1, w2}
  Client = {k1, k2, k3, k4}
  NoClient = NoClient
  MaxFaults = 1
SPECIFICATION Spec
PROPERTY SessionRecovers
