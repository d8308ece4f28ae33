SPECIFICATION Spec
CONSTANTS
  u1 = u1
  u2 = u2
  ann = ann
  ben = ben
  mail = mail
  q1 = q1
  q2 = q2
  q3 = q3
  Earlier = Earlier
  Nothing = Nothing
  Ids = {u1, u2}
  Addresses = {mail}
  Names = {ann, ben}
  Requests = {q1, q2, q3}
  MaxDevices = 1
  MaxRenames = 1
  MaxAttempts = 1
INVARIANT TypeOK
INVARIANT CodeMakesOneAccount
INVARIANT ActiveAsOrdered
 
INVARIANT LockoutEnds
PROPERTY RefusedOnlyWhenTaken
PROPERTY LinkIsSpent
SYMMETRY AccountsSymmetry
CHECK_DEADLOCK FALSE
