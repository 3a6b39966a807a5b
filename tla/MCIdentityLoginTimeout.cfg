\* What route.ts:58 says of a service that times out.
SPECIFICATION Spec
CONSTANTS
  w1 = w1
  w2 = w2
  n1 = n1
  n2 = n2
  n3 = n3
  ip1 = ip1
  ip2 = ip2
  d1 = d1
  d2 = d2
  here = here
  there = there
  Slots = {r1, r2}
  Logins <- MCLogins
  Wallets = {w1, w2}
  Nonces = {n1, n2, n3}
  Ips = {ip1, ip2}
  Devices = {d1, d2}
  Places = {here, there}
  NoPlace = NoPlace
  NoTime = NoTime
  BadWallets = {w2}
  NonceTtl = 2
  VelocityWindow = 2
  MaxAttempts = 1
  Retention = 3
  TravelTime = 2
  ColdStart = 1
  MaxDevices = 1
  RequestTimeout = 1
  MaxTime = 4
INVARIANTS TimeoutStepsUp
CHECK_DEADLOCK FALSE
