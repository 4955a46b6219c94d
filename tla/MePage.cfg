SPECIFICATION Spec
CHECK_DEADLOCK FALSE
CONSTANTS
  Account = {alice, bob}
  NoOne = NoOne
  Jobs = 2
INVARIANTS
  SignsOwnList
