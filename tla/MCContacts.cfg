SPECIFICATION Spec
CONSTANTS
  alice = alice
  bob = bob
  q1 = q1
  q2 = q2
  q3 = q3
  q4 = q4
  q5 = q5
  c1 = c1
  c2 = c2
  NoUser = NoUser
  NoChat = NoChat
  Users = {alice, bob}
  Requests = {q1, q2, q3, q4, q5}
  Conversations = {c1, c2}
INVARIANT TypeOK
INVARIANT FriendsByConsent
INVARIANT FriendsAgree
PROPERTY BlockHolds
PROPERTY KeepsPromise
SYMMETRY ContactsSymmetry
CHECK_DEADLOCK FALSE
