SPECIFICATION Spec
CONSTANTS
  m1 = m1
  m2 = m2
  r1 = r1
  r2 = r2
  r3 = r3
  alice = alice
  bob = bob
  Absent = Absent
  NoMessage = NoMessage
  Users = {alice, bob}
  Messages = {m1, m2}
  Requests = {r1, r2, r3}
  SenderOf <- MCSenderOf
  UserOf <- MCUserOf
INVARIANT TypeOK
INVARIANT HistoryIsLineage
INVARIANT TextIsTheSenders
PROPERTY DeletedForGood
SYMMETRY MessagesSymmetry
CHECK_DEADLOCK FALSE
