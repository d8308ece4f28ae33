SPECIFICATION Spec
CONSTANTS
  creator = creator
  u1 = u1
  u2 = u2
  q1 = q1
  q2 = q2
  q3 = q3
  NoUser = NoUser
  NoRequest = NoRequest
  Users = {creator, u1, u2}
  Creator = creator
  Requests = {q1, q2, q3}
  Limits = {2, 3}
INVARIANT TypeOK
INVARIANT PairedUnlessRaced
 
PROPERTY AddStaysInLimit
SYMMETRY GroupsSymmetry
