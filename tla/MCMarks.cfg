SPECIFICATION Spec
CONSTANTS
  m1 = m1
  m2 = m2
  alice = alice
  bob = bob
  like = like
  hi = hi
  bye = bye
  q1 = q1
  q2 = q2
  q3 = q3
  Nothing = Nothing
  Users = {alice, bob}
  Messages = {m1, m2}
  Emojis = {like}
  Texts = {hi, bye}
  Requests = {q1, q2, q3}
INVARIANT TypeOK
INVARIANT ToggledAsAsked
INVARIANT ShownIsCurrent
INVARIANT BookmarkedAsAsked
 
SYMMETRY MarksSymmetry
CHECK_DEADLOCK FALSE
