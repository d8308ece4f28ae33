SPECIFICATION Spec
CONSTANTS
  c1 = c1
  c2 = c2
  g1 = g1
  g2 = g2
  alice = alice
  bob = bob
  d_alice = d_alice
  d_bob = d_bob
  NoDevice = NoDevice
  NoConn = NoConn
  NoUser = NoUser
  Conns = {c1, c2}
  Users = {alice}
  Devices = {d_alice}
  Chats = {g1}
  TokenDevices = {NoDevice}
  UnknownDevice <- MCUnknownDeviceAlice
  SendCap = 1
  MaxEvictions = 1
INVARIANT NoCrash
CHECK_DEADLOCK FALSE
